------------------------ MODULE ChatRequests_proofs ------------------------
(***************************************************************************)
(* Theorems about ChatRequests, for any number of requests, turns, updates,*)
(* failures and crashes.                                                   *)
(***************************************************************************)
EXTENDS ChatRequests, FiniteSetTheorems, SequenceTheorems, WellFoundedInduction, TLAPS

Ask == [lane : Lanes, id : 0..MaxAsks, kind : Kinds]

----------------------------------------------------------------------------
(* The parts of the type invariant.                                        *)

LanesTyped ==
  /\ turn \in [Lanes -> {None, "task", "handoff"}] /\ active \in Lanes \cup {None}
  /\ cut \subseteq Lanes /\ link \subseteq Lanes /\ nextId \in [Lanes -> 0..MaxAsks]

AskedTyped == asked \in Seq(Ask) /\ Len(asked) <= MaxAsks

PromptsTyped ==
  /\ open \subseteq 1..Len(asked) /\ asks \subseteq 1..Len(asked)
  /\ DOMAIN sending \subseteq 1..Len(asked)
  /\ \A n \in DOMAIN sending : sending[n] \in {asked[n].kind, "shown"}
  /\ shown \in Seq(1..Len(asked))

RowTyped ==
  row \in [Asks -> {None, "pending", "resolved", "expired", "failed", "recovered_failed"}]

\* An update is about a prompt that was shown, a text about a question.
InboxTyped ==
  /\ inbox \in Seq(Update)
  /\ \A i \in DOMAIN inbox :
       /\ inbox[i].ask \in 0..Len(asked)
       /\ (inbox[i].kind = "text" /\ inbox[i].ask # 0) => asked[inbox[i].ask].kind = "input"

PollTyped ==
  /\ claim \in [Updates -> {None, "processing", "completed", "failed"}]
  /\ queued \subseteq DOMAIN inbox
  /\ offset \in 1..(Len(inbox) + 1) /\ saved \in 0..Len(inbox)
  /\ DOMAIN poll = {"pc", "ask"} /\ (poll.pc # None => offset \in DOMAIN inbox)
  /\ poll.pc = "interrupt" => poll.ask \in 1..Len(asked)

TypeInv ==
  LanesTyped /\ AskedTyped /\ PromptsTyped /\ RowTyped /\ InboxTyped /\ PollTyped

----------------------------------------------------------------------------
(* The parts of the other invariants.                                      *)

\* Every update but the first answer to a prompt is counted.
Prompted == {n \in Asks : \E i \in DOMAIN inbox : inbox[i].ask = n}
InboxIsBounded == extra \in 0..MaxExtra /\ Len(inbox) <= extra + Cardinality(Prompted)

\* An update has had no effect before its row is there that bars a second one.
EffectsAreClaimed ==
  /\ done \in [Updates -> [Effects -> 0..1]]
  /\ \A i \in Updates :
       /\ i \notin queued => done[i]["task"] = 0
       /\ claim[i] = None => done[i]["answer"] = 0 /\ done[i]["command"] = 0

\* An approval whose prompt is being sent is in the map, and no update, and no
\* handler that awaits, is about it.
SentIsRemembered ==
  /\ \A n \in DOMAIN sending : IsApproval(n) => n \in asks
  /\ \A i \in DOMAIN inbox : inbox[i].ask \notin DOMAIN sending
  /\ poll.pc = "interrupt" => poll.ask \notin DOMAIN sending

\* The ids of a lane's requests are different, and the next one is new.
IdsAreUnique ==
  \A n \in DOMAIN asked :
    /\ asked[n].id < nextId[asked[n].lane]
    /\ \A m \in DOMAIN asked :
         (asked[m].lane = asked[n].lane /\ asked[m].id = asked[n].id) => m = n

----------------------------------------------------------------------------
(* Which actions change what.                                              *)

LEMMA LanesMove ==
  ASSUME [Next]_vars
  PROVE  \/ UNCHANGED <<turn, active, cut, link, nextId>>
         \/ TaskSettles \/ StartHandoff \/ Crash
         \/ \E l \in Lanes : StartTask(l) \/ TurnEnds(l) \/ LoseServer(l) \/
            RestoreServer(l) \/ RefuseServerRequest(l)
         \/ \E l \in Lanes, kind \in Kinds : HandleServerRequest(l, kind)
         \/ \E i \in Updates : TapAnswers(i) \/ Command(i)
BY SMTT(30) DEF Next, vars, Daemon, HandleUpdate, codex, SendOther, IgnoreDuplicate,
       InterruptReturns, CallReturns, CallFails, AnswerToolCall, PromptShown,
       RegisterPrompt, PromptFails, AnswerPrompt, TapTooLate, TapFails, TextAnswers,
       TextDoesNotParse, TextFails, Enqueue

LEMMA AskedMoves ==
  ASSUME [Next]_vars
  PROVE  \/ UNCHANGED asked
         \/ \E l \in Lanes, kind \in Kinds : HandleServerRequest(l, kind)
BY DEF Next, vars, Daemon, HandleUpdate, prompts, StartTask, TurnEnds, LoseServer,
       RestoreServer, RefuseServerRequest, TaskSettles, StartHandoff, SendOther,
       IgnoreDuplicate, InterruptReturns, CallReturns, CallFails, Crash, AnswerToolCall,
       PromptShown, RegisterPrompt, PromptFails, AnswerPrompt, TapTooLate, TapAnswers,
       TapFails, TextAnswers, TextDoesNotParse, TextFails, Command, Enqueue

LEMMA OpenMoves ==
  ASSUME [Next]_vars
  PROVE  \/ UNCHANGED open
         \/ Crash
         \/ \E l \in Lanes : TurnEnds(l) \/ LoseServer(l)
         \/ \E l \in Lanes, kind \in Kinds : HandleServerRequest(l, kind)
         \/ \E n \in Asks : AnswerToolCall(n)
         \/ \E i \in Updates : TapAnswers(i) \/ TextAnswers(i)
BY DEF Next, vars, Daemon, HandleUpdate, codex, StartTask, RestoreServer,
       RefuseServerRequest, TaskSettles, StartHandoff, SendOther, IgnoreDuplicate,
       InterruptReturns, CallReturns, CallFails, PromptShown, RegisterPrompt,
       PromptFails, AnswerPrompt, TapTooLate, TapFails, TextDoesNotParse, TextFails,
       Command, Enqueue

LEMMA AsksMove ==
  ASSUME [Next]_vars
  PROVE  \/ UNCHANGED asks
         \/ InterruptReturns \/ Crash
         \/ \E l \in Lanes, kind \in Kinds : HandleServerRequest(l, kind)
         \/ \E n \in Asks : RegisterPrompt(n)
         \/ \E i \in Updates : TapAnswers(i) \/ TapFails(i) \/ TextAnswers(i)
BY DEF Next, vars, Daemon, HandleUpdate, prompts, StartTask, TurnEnds, LoseServer,
       RestoreServer, RefuseServerRequest, TaskSettles, StartHandoff, SendOther,
       IgnoreDuplicate, CallReturns, CallFails, AnswerToolCall, PromptShown,
       PromptFails, AnswerPrompt, TapTooLate, TextDoesNotParse, TextFails, Command,
       Enqueue

LEMMA SendingMoves ==
  ASSUME [Next]_vars
  PROVE  \/ UNCHANGED sending
         \/ Crash
         \/ \E l \in Lanes, kind \in Kinds : HandleServerRequest(l, kind)
         \/ \E n \in Asks : AnswerToolCall(n) \/ PromptShown(n) \/ RegisterPrompt(n) \/
            PromptFails(n)
BY SMTT(30) DEF Next, vars, Daemon, HandleUpdate, prompts, StartTask, TurnEnds, LoseServer,
       RestoreServer, RefuseServerRequest, TaskSettles, StartHandoff, SendOther,
       IgnoreDuplicate, InterruptReturns, CallReturns, CallFails, AnswerPrompt,
       TapTooLate, TapAnswers, TapFails, TextAnswers, TextDoesNotParse, TextFails,
       Command, Enqueue

LEMMA ShownMoves ==
  ASSUME [Next]_vars
  PROVE  \/ UNCHANGED shown
         \/ \E n \in Asks : PromptShown(n)
BY DEF Next, vars, Daemon, HandleUpdate, prompts, StartTask, TurnEnds, LoseServer,
       RestoreServer, RefuseServerRequest, HandleServerRequest, TaskSettles,
       StartHandoff, SendOther, IgnoreDuplicate, InterruptReturns, CallReturns,
       CallFails, Crash, AnswerToolCall, RegisterPrompt, PromptFails, AnswerPrompt,
       TapTooLate, TapAnswers, TapFails, TextAnswers, TextDoesNotParse, TextFails,
       Command, Enqueue

LEMMA RowMoves ==
  ASSUME [Next]_vars
  PROVE  \/ UNCHANGED row
         \/ InterruptReturns \/ CallFails \/ Crash
         \/ \E n \in Asks : RegisterPrompt(n)
         \/ \E i \in Updates : TapAnswers(i) \/ TapFails(i) \/ TextAnswers(i) \/
            TextFails(i)
BY DEF Next, vars, Daemon, HandleUpdate, prompts, StartTask, TurnEnds, LoseServer,
       RestoreServer, RefuseServerRequest, HandleServerRequest, TaskSettles,
       StartHandoff, SendOther, IgnoreDuplicate, CallReturns, AnswerToolCall,
       PromptShown, PromptFails, AnswerPrompt, TapTooLate, TextDoesNotParse, Command,
       Enqueue

LEMMA InboxMoves ==
  ASSUME [Next]_vars
  PROVE  \/ UNCHANGED <<inbox, extra>>
         \/ SendOther
         \/ \E n \in Asks : AnswerPrompt(n)
BY ZenonT(40) DEF Next, vars, Daemon, HandleUpdate, budget, StartTask, TurnEnds, LoseServer,
       RestoreServer, RefuseServerRequest, HandleServerRequest, TaskSettles,
       StartHandoff, IgnoreDuplicate, InterruptReturns, CallReturns, CallFails, Crash,
       AnswerToolCall, PromptShown, RegisterPrompt, PromptFails, TapTooLate, TapAnswers,
       TapFails, TextAnswers, TextDoesNotParse, TextFails, Command, Enqueue

LEMMA PollMoves ==
  ASSUME [Next]_vars
  PROVE  \/ UNCHANGED polling
         \/ IgnoreDuplicate \/ InterruptReturns \/ CallReturns \/ CallFails \/ Crash
         \/ \E i \in Updates : TapTooLate(i) \/ TapAnswers(i) \/ TapFails(i) \/
            TextAnswers(i) \/ TextDoesNotParse(i) \/ TextFails(i) \/ Command(i) \/
            Enqueue(i)
BY DEF Next, vars, Daemon, HandleUpdate, polling, StartTask, TurnEnds, LoseServer,
       RestoreServer, RefuseServerRequest, HandleServerRequest, TaskSettles,
       StartHandoff, SendOther, AnswerToolCall, PromptShown, RegisterPrompt,
       PromptFails, AnswerPrompt

LEMMA DoneMoves ==
  ASSUME [Next]_vars
  PROVE  \/ UNCHANGED done
         \/ \E i \in Updates : TapAnswers(i) \/ TextAnswers(i) \/ Command(i) \/ Enqueue(i)
BY DEF Next, vars, Daemon, HandleUpdate, history, StartTask, TurnEnds, LoseServer,
       RestoreServer, RefuseServerRequest, HandleServerRequest, TaskSettles,
       StartHandoff, SendOther, IgnoreDuplicate, InterruptReturns, CallReturns,
       CallFails, Crash, AnswerToolCall, PromptShown, RegisterPrompt, PromptFails,
       AnswerPrompt, TapTooLate, TapFails, TextDoesNotParse, TextFails

LEMMA GotMoves ==
  ASSUME [Next]_vars
  PROVE  \/ UNCHANGED got
         \/ \E n \in Asks : AnswerToolCall(n)
         \/ \E i \in Updates : TapAnswers(i) \/ TextAnswers(i)
BY DEF Next, vars, Daemon, HandleUpdate, history, StartTask, TurnEnds, LoseServer,
       RestoreServer, RefuseServerRequest, HandleServerRequest, TaskSettles,
       StartHandoff, SendOther, IgnoreDuplicate, InterruptReturns, CallReturns,
       CallFails, Crash, PromptShown, RegisterPrompt, PromptFails, AnswerPrompt,
       TapTooLate, TapFails, TextDoesNotParse, TextFails, Command, Enqueue


----------------------------------------------------------------------------
(* The latest question.                                                    *)

\* A non-empty set of numbers with a bound has a greatest member.
LEMMA HasGreatest ==
  ASSUME NEW S \in SUBSET Nat, S # {}, NEW b \in Nat, \A x \in S : x <= b
  PROVE  \E x \in S : \A y \in S : y <= x
<1> DEFINE T == {b - x : x \in S}
<1>1. T \subseteq Nat /\ T # {}
  <2>1. PICK x \in S : TRUE
    OBVIOUS
  <2>2. b - x \in T
    BY <2>1
  <2> QED
    BY <2>2
<1>2. \E z \in T : \A y \in T : ~(<<y, z>> \in OpToRel(<, Nat))
  <2> HIDE DEF T
  <2> QED
    BY <1>1, NatLessThanWellFounded, WFMin
<1>3. PICK z \in T : \A y \in T : ~(<<y, z>> \in OpToRel(<, Nat))
  BY <1>2
<1>4. \A y \in T : ~(y < z)
  BY <1>1, <1>3 DEF OpToRel
<1>5. PICK x \in S : z = b - x
  BY <1>3
<1>6. ASSUME NEW y \in S PROVE y <= x
  <2>1. b - y \in T
    OBVIOUS
  <2>2. ~(b - y < b - x)
    BY <2>1, <1>4, <1>5
  <2> QED
    BY <2>2
<1> QED
  BY <1>6

\* Where the prompt of a request was shown last; 0 if it was not.
Position(n) == SelectLastInSeq(shown, LAMBDA x : x = n)

LEMMA PositionIsBounded ==
  ASSUME NEW S, shown \in Seq(S), NEW n
  PROVE  Position(n) \in Nat /\ Position(n) <= Len(shown)
<1> DEFINE I == {i \in 1..Len(shown) : shown[i] = n}
<1>1. Position(n) = IF I # {} THEN Max(I) ELSE 0
  BY DEF Position, SelectLastInSeq
<1>2. Len(shown) \in Nat
  OBVIOUS
<1>3. CASE I # {}
  <2>1. \E x \in I : \A y \in I : y <= x
    <3>1. I \in SUBSET Nat /\ \A x \in I : x <= Len(shown)
      BY <1>2
    <3> HIDE DEF I
    <3> QED
      BY <1>2, <1>3, <3>1, HasGreatest
  <2>2. Max(I) \in I
    <3>1. I \subseteq Nat
      BY <1>2
    <3> HIDE DEF I
    <3> QED
      BY <2>1, <3>1 DEF Max
  <2> QED
    BY <1>1, <1>2, <1>3, <2>2
<1> QED
  BY <1>1, <1>2, <1>3

\* A reply is taken for a question that is pending.
LEMMA FindsAQuestion ==
  ASSUME NEW S, shown \in Seq(S), NEW u, InputAsks # {}
  PROVE  FindPendingUserInput(u) \in InputAsks
<1> DEFINE P == {Position(n) : n \in InputAsks}
<1>1. P \in SUBSET Nat /\ P # {} /\ Len(shown) \in Nat /\ \A x \in P : x <= Len(shown)
  BY PositionIsBounded
<1>2. \E x \in P : \A y \in P : y <= x
  <2> HIDE DEF P
  <2> QED
    BY <1>1, HasGreatest
<1>3. \E n \in InputAsks : \A m \in InputAsks : Position(m) <= Position(n)
  BY <1>2
<1>4. FindPendingUserInput(u) =
        IF u.ask \in InputAsks THEN u.ask
        ELSE CHOOSE n \in InputAsks : \A m \in InputAsks : Position(m) <= Position(n)
  BY DEF FindPendingUserInput, Position
<1> QED
  BY <1>3, <1>4

----------------------------------------------------------------------------
(* Type correctness.                                                       *)

LEMMA InitTyped == Init => TypeInv
<1> SUFFICES ASSUME Init PROVE TypeInv
  OBVIOUS
<1> USE RequestsAssumption DEF Init
<1>1. LanesTyped
  BY DEF LanesTyped
<1>2. AskedTyped /\ RowTyped
  BY DEF AskedTyped, RowTyped
<1>3. PromptsTyped
  BY DEF PromptsTyped
<1>4. InboxTyped
  BY DEF InboxTyped
<1>5. PollTyped
  BY DEF PollTyped, Idle, None
<1> QED
  BY <1>1, <1>2, <1>3, <1>4, <1>5 DEF TypeInv

\* Nothing but handleServerRequest adds a request; the earlier ones stay.
LEMMA RequestsGrow ==
  ASSUME TypeInv, [Next]_vars
  PROVE  /\ AskedTyped'
         /\ Len(asked) \in Nat /\ Len(asked) <= Len(asked')
         /\ \A n \in 1..Len(asked) : n \in 1..Len(asked') /\ asked'[n] = asked[n]
<1> USE RequestsAssumption
<1>1. asked \in Seq(Ask) /\ Len(asked) <= MaxAsks /\ LanesTyped
  BY DEF TypeInv, AskedTyped
<1>2. CASE UNCHANGED asked
  BY <1>1, <1>2 DEF AskedTyped
<1>3. CASE \E l \in Lanes, kind \in Kinds : HandleServerRequest(l, kind)
  <2>1. PICK l \in Lanes, kind \in Kinds : HandleServerRequest(l, kind)
    BY <1>3
  <2>2. PICK r \in Ask : asked' = Append(asked, r)
    BY <1>1, <2>1 DEF HandleServerRequest, Ask, LanesTyped
  <2>3. Len(asked) + 1 <= MaxAsks
    BY <2>1 DEF HandleServerRequest, Asks
  <2> QED
    BY <1>1, <2>2, <2>3 DEF AskedTyped
<1> QED
  BY <1>2, <1>3, AskedMoves

LEMMA LanesTypedStep == TypeInv /\ [Next]_vars => LanesTyped'
<1> SUFFICES ASSUME TypeInv, [Next]_vars PROVE LanesTyped'
  OBVIOUS
<1>0. LanesTyped /\ MaxAsks \in Nat /\ "primary" \in Lanes
  BY RequestsAssumption DEF TypeInv
<1>1. CASE UNCHANGED <<turn, active, cut, link, nextId>>
  BY <1>0, <1>1 DEF LanesTyped
<1>2. CASE TaskSettles \/ StartHandoff
  BY <1>0, <1>2 DEF LanesTyped, TaskSettles, StartHandoff
<1>3. CASE Crash
  <2>1. nextId' = nextId \/ nextId' = [l \in Lanes |-> 0]
    BY <1>3, Zenon DEF Crash
  <2> QED
    BY <1>0, <1>3, <2>1 DEF LanesTyped, Crash
<1>4. ASSUME NEW l \in Lanes, StartTask(l) \/ TurnEnds(l) \/ LoseServer(l) \/ RestoreServer(l)
      PROVE  LanesTyped'
  <2>1. nextId' = nextId \/ nextId' = [nextId EXCEPT ![l] = 0]
    BY <1>4, Zenon DEF StartTask, TurnEnds, LoseServer, RestoreServer
  <2>2. /\ UNCHANGED turn \/ turn' = [turn EXCEPT ![l] = None] \/ turn' = [turn EXCEPT ![l] = "task"]
        /\ active' \in {active, l} /\ cut' \subseteq cut /\ link' \subseteq link \cup {l}
    BY <1>4 DEF StartTask, TurnEnds, LoseServer, RestoreServer
  <2> QED
    BY <1>0, <2>1, <2>2 DEF LanesTyped
<1>5. ASSUME NEW l \in Lanes,
             RefuseServerRequest(l) \/ \E kind \in Kinds : HandleServerRequest(l, kind)
      PROVE  LanesTyped'
  <2>1. /\ UNCHANGED <<turn, active, cut, link>> /\ nextId' = [nextId EXCEPT ![l] = @ + 1]
        /\ nextId[l] < MaxAsks
    BY <1>5 DEF RefuseServerRequest, HandleServerRequest, MayAsk
  <2> QED
    BY <1>0, <2>1 DEF LanesTyped
<1>6. ASSUME NEW i \in Updates, TapAnswers(i) \/ Command(i) PROVE LanesTyped'
  <2>1. UNCHANGED <<turn, active, link, nextId>>
    BY <1>6 DEF TapAnswers, Command
  <2>2. \/ UNCHANGED cut
        \/ cut' = Interrupted("primary")
        \/ cut' = Interrupted(asked[inbox[i].ask].lane) /\ inbox[i].ask \in asks
    BY <1>6 DEF TapAnswers, Command
  <2>3. \A n \in asks : asked[n] \in Ask
    BY DEF TypeInv, PromptsTyped, AskedTyped
  <2>4. \A n \in asks : asked[n].lane \in Lanes
    BY <2>3 DEF Ask
  <2> QED
    BY <1>0, <2>1, <2>2, <2>4 DEF LanesTyped, Interrupted
<1> QED
  BY <1>1, <1>2, <1>3, <1>4, <1>5, <1>6, LanesMove

\* The requests that are open and the ones in the map are requests that came.
LEMMA OpenShrinks ==
  ASSUME [Next]_vars
  PROVE  \/ open' \subseteq open
         \/ open' = open \cup {Len(asked) + 1} /\ Len(asked') = Len(asked) + 1
<1>1. CASE \E l \in Lanes, kind \in Kinds : HandleServerRequest(l, kind)
  BY <1>1 DEF HandleServerRequest
<1> QED
  BY <1>1, OpenMoves DEF Crash, TurnEnds, LoseServer, AnswerToolCall, TapAnswers,
                         TextAnswers, Answered

LEMMA PromptsTypedStep == TypeInv /\ [Next]_vars => PromptsTyped'
<1> SUFFICES ASSUME TypeInv, [Next]_vars PROVE PromptsTyped'
  OBVIOUS
<1>0. /\ PromptsTyped /\ asked \in Seq(Ask) /\ asked' \in Seq(Ask) /\ Len(asked) \in Nat
      /\ Len(asked) <= Len(asked')
      /\ \A n \in 1..Len(asked) : n \in 1..Len(asked') /\ asked'[n] = asked[n]
  BY RequestsGrow DEF TypeInv, AskedTyped
<1>1. open' \subseteq 1..Len(asked')
  <2>1. ASSUME Len(asked') = Len(asked) + 1 PROVE Len(asked) + 1 \in 1..Len(asked')
    BY <1>0, <2>1
  <2> QED
    BY <1>0, <2>1, OpenShrinks DEF PromptsTyped
<1>2. ASSUME NEW l \in Lanes, NEW kind \in Kinds, HandleServerRequest(l, kind)
      PROVE  /\ Len(asked) + 1 \in 1..Len(asked') /\ asked'[Len(asked) + 1].kind = kind
             /\ asks' \subseteq asks \cup {Len(asked) + 1}
             /\ sending' = With(sending, Len(asked) + 1, kind)
  BY <1>0, <1>2 DEF HandleServerRequest
<1>3. asks' \subseteq 1..Len(asked')
  <2>1. CASE \E l \in Lanes, kind \in Kinds : HandleServerRequest(l, kind)
    BY <1>0, <1>2, <2>1 DEF PromptsTyped
  <2>2. CASE ~\E l \in Lanes, kind \in Kinds : HandleServerRequest(l, kind)
    <3>1. asks' \subseteq asks \cup DOMAIN sending
      BY <2>2, AsksMove DEF InterruptReturns, Crash, RegisterPrompt, TapAnswers, TapFails,
                            TextAnswers, Settle
    <3> QED
      BY <1>0, <3>1 DEF PromptsTyped
  <2> QED
    BY <2>1, <2>2
<1>4. /\ DOMAIN sending' \subseteq 1..Len(asked')
      /\ \A n \in DOMAIN sending' : sending'[n] \in {asked'[n].kind, "shown"}
  <2>1. CASE \E l \in Lanes, kind \in Kinds : HandleServerRequest(l, kind)
    <3>1. PICK l \in Lanes, kind \in Kinds : HandleServerRequest(l, kind)
      BY <2>1
    <3>2. /\ DOMAIN sending' = DOMAIN sending \cup {Len(asked) + 1}
          /\ sending'[Len(asked) + 1] = kind
          /\ \A n \in DOMAIN sending : n # Len(asked) + 1 => sending'[n] = sending[n]
      BY <1>2, <3>1 DEF With
    <3>3. \A n \in DOMAIN sending : n # Len(asked) + 1
      BY <1>0 DEF PromptsTyped
    <3> QED
      BY <1>0, <1>2, <3>1, <3>2, <3>3, ZenonT(40) DEF PromptsTyped
  <2>2. CASE ~\E l \in Lanes, kind \in Kinds : HandleServerRequest(l, kind)
    <3>1. /\ DOMAIN sending' \subseteq DOMAIN sending
          /\ \A n \in DOMAIN sending' : sending'[n] \in {sending[n], "shown"}
      BY <2>2, SendingMoves DEF Crash, AnswerToolCall, PromptShown, RegisterPrompt,
                                PromptFails, Without
    <3> QED
      BY <1>0, <3>1 DEF PromptsTyped
  <2> QED
    BY <2>1, <2>2
<1>5. shown' \in Seq(1..Len(asked'))
  <2>1. shown \in Seq(1..Len(asked'))
    <3>1. 1..Len(asked) \subseteq 1..Len(asked')
      BY <1>0
    <3> QED
      BY <1>0, <3>1 DEF PromptsTyped
  <2>2. UNCHANGED shown \/ \E n \in DOMAIN sending : shown' = Append(shown, n)
    BY ShownMoves DEF PromptShown
  <2>3. \A n \in DOMAIN sending : n \in 1..Len(asked')
    BY <1>0 DEF PromptsTyped
  <2> DEFINE S == 1..Len(asked')
  <2> HIDE DEF S
  <2>4. shown \in Seq(S) /\ \A n \in DOMAIN sending : n \in S
    BY <2>1, <2>3 DEF S
  <2>5. shown' \in Seq(S)
    BY <2>2, <2>4
  <2> QED
    BY <2>5 DEF S
<1> QED
  BY <1>1, <1>3, <1>4, <1>5 DEF PromptsTyped

LEMMA RowTypedStep == TypeInv /\ [Next]_vars => RowTyped'
<1> SUFFICES ASSUME RowTyped, [Next]_vars PROVE RowTyped'
  BY DEF TypeInv
<1>1. CASE Crash
  BY <1>1 DEF Crash, RowTyped
<1>2. CASE ~Crash
  BY <1>2, RowMoves DEF InterruptReturns, CallFails, RegisterPrompt, TapAnswers, TapFails,
                        TextAnswers, TextFails, Settle, RowTyped
<1> QED
  BY <1>1, <1>2

\* An update that comes is about a prompt whose sendMessage has returned, unless
\* answers may be early; it is the first about its prompt, or one of the others.
MayCome(u) ==
  /\ u \in Update
  /\ u.ask # 0 =>
       /\ u.ask \in Shown /\ (EarlyAnswers \/ u.ask \notin DOMAIN sending)
       /\ u.kind = "text" => asked[u.ask].kind = "input"

ComesFirst(u) ==
  /\ u.ask \in Asks /\ ~\E i \in DOMAIN inbox : inbox[i].ask = u.ask
  /\ UNCHANGED extra

ComesLater == extra < MaxExtra /\ extra' = extra + 1

Sends(k, n, p) == inbox' = Append(inbox, [kind |-> k, ask |-> n, plain |-> p])

LEMMA InboxGrows ==
  ASSUME TypeInv, [Next]_vars
  PROVE  \/ UNCHANGED <<inbox, extra>>
         \/ \E u : MayCome(u) /\ inbox' = Append(inbox, u) /\ (ComesFirst(u) \/ ComesLater)
<1>0. \A n \in Shown : n \in Asks /\ n \in 0..MaxAsks /\ n # 0
  <2>1. \A n \in Shown : n \in 1..Len(asked)
    BY DEF TypeInv, PromptsTyped, Shown, ToSet
  <2> QED
    BY <2>1, RequestsAssumption DEF TypeInv, AskedTyped, Asks
<1>1. ASSUME NEW n, NEW k \in AnswersTo(n)
      PROVE  k \in {"tap", "cancel", "text", "interrupt", "media"}
             /\ (k = "text" => asked[n].kind = "input")
  BY <1>1 DEF AnswersTo
<1>2. CASE \E n \in Asks : AnswerPrompt(n)
  <2>1. PICK n \in Asks : AnswerPrompt(n)
    BY <1>2
  <2>2. PICK k \in AnswersTo(n) : Sends(k, n, FALSE)
    BY <2>1, Zenon DEF AnswerPrompt, Sends
  <2> DEFINE u == [kind |-> k, ask |-> n, plain |-> FALSE]
  <2>3. CanAnswer(n) /\ (~\E i \in DOMAIN inbox : inbox[i].ask = n) /\ UNCHANGED extra
    BY <2>1, Zenon DEF AnswerPrompt, budget
  <2>4. u.kind = k /\ u.ask = n
    OBVIOUS
  <2>5. k \in {"tap", "cancel", "text", "interrupt", "media"} /\ n \in 0..MaxAsks
    BY <1>0, <1>1, <2>3 DEF CanAnswer
  <2>6. u \in Update /\ inbox' = Append(inbox, u)
    BY <2>2, <2>5, Zenon DEF Update, Sends
  <2> HIDE DEF u
  <2>7. MayCome(u) /\ ComesFirst(u)
    BY <1>0, <1>1, <2>3, <2>4, <2>6 DEF MayCome, ComesFirst, CanAnswer
  <2> QED
    BY <2>6, <2>7
<1>3. CASE SendOther
  <2>0. \/ \E n \in Shown, p \in BOOLEAN : \E k \in AnswersTo(n) : CanAnswer(n) /\ Sends(k, n, p)
        \/ \E k \in {"text", "interrupt", "media"}, p \in BOOLEAN : Sends(k, 0, p)
    BY <1>3, Zenon DEF SendOther, Sends
  <2>1. 0 \in 0..MaxAsks
    BY RequestsAssumption
  <2>2. PICK k \in {"tap", "cancel", "text", "interrupt", "media"}, n \in 0..MaxAsks, p \in BOOLEAN :
          /\ Sends(k, n, p)
          /\ n = 0 \/ (n \in Shown /\ CanAnswer(n) /\ k \in AnswersTo(n))
    BY <1>0, <1>1, <2>0, <2>1, Zenon
  <2> DEFINE u == [kind |-> k, ask |-> n, plain |-> p]
  <2>4. u.kind = k /\ u.ask = n
    OBVIOUS
  <2>5. u \in Update /\ inbox' = Append(inbox, u)
    BY <2>2, Zenon DEF Update, Sends
  <2> HIDE DEF u
  <2>6. n # 0 => n \in Shown /\ CanAnswer(n) /\ k \in AnswersTo(n)
    BY <2>2
  <2>7. MayCome(u)
    BY <1>1, <2>4, <2>5, <2>6 DEF MayCome, CanAnswer
  <2>8. ComesLater
    BY <1>3, Zenon DEF SendOther, ComesLater
  <2> QED
    BY <2>5, <2>7, <2>8
<1> QED
  BY <1>2, <1>3, InboxMoves

LEMMA InboxTypedStep == TypeInv /\ [Next]_vars => InboxTyped'
<1> SUFFICES ASSUME TypeInv, [Next]_vars PROVE InboxTyped'
  OBVIOUS
<1>0. /\ inbox \in Seq(Update) /\ Len(asked) \in Nat /\ Len(asked) <= Len(asked')
      /\ \A n \in 1..Len(asked) : n \in 1..Len(asked') /\ asked'[n] = asked[n]
      /\ \A i \in DOMAIN inbox :
           /\ inbox[i].ask \in 0..Len(asked)
           /\ (inbox[i].kind = "text" /\ inbox[i].ask # 0) => asked[inbox[i].ask].kind = "input"
  BY RequestsGrow DEF TypeInv, InboxTyped
<1>1. Len(asked') \in Nat
  BY RequestsGrow DEF AskedTyped
<1>2. CASE UNCHANGED inbox
  BY <1>0, <1>1, <1>2 DEF InboxTyped
<1>3. CASE \E u : MayCome(u) /\ inbox' = Append(inbox, u)
  <2>1. PICK u : MayCome(u) /\ inbox' = Append(inbox, u)
    BY <1>3
  <2>2. u \in Update /\ (u.ask # 0 => u.ask \in 1..Len(asked))
        /\ (u.kind = "text" /\ u.ask # 0 => asked[u.ask].kind = "input")
    BY <2>1 DEF MayCome, TypeInv, PromptsTyped, Shown, ToSet
  <2>3. /\ inbox' \in Seq(Update)
        /\ \A i \in DOMAIN inbox' : inbox'[i] = u \/ (i \in DOMAIN inbox /\ inbox'[i] = inbox[i])
    <3>1. /\ inbox' \in Seq(Update) /\ Len(inbox') = Len(inbox) + 1 /\ inbox'[Len(inbox) + 1] = u
          /\ \A i \in 1..Len(inbox) : inbox'[i] = inbox[i]
      BY <1>0, <2>1, <2>2, AppendProperties
    <3>2. DOMAIN inbox = 1..Len(inbox) /\ DOMAIN inbox' = 1..Len(inbox') /\ Len(inbox) \in Nat
      BY <1>0, <3>1
    <3> QED
      BY <3>1, <3>2
  <2> QED
    BY <1>0, <1>1, <2>2, <2>3, SMTT(30) DEF InboxTyped
<1> QED
  BY <1>2, <1>3, InboxGrows

\* The loop stands at an update that is there, or behind the last one.
LEMMA PollTypedStep == TypeInv /\ [Next]_vars => PollTyped'
<1> SUFFICES ASSUME TypeInv, [Next]_vars PROVE PollTyped'
  OBVIOUS
<1>0. /\ PollTyped /\ DOMAIN inbox = 1..Len(inbox) /\ DOMAIN inbox' = 1..Len(inbox')
      /\ Len(inbox) \in Nat /\ Len(inbox') \in Nat
      /\ Len(asked) \in Nat /\ Len(asked') \in Nat /\ Len(asked) <= Len(asked')
      /\ asks \subseteq 1..Len(asked)
  BY InboxTypedStep, RequestsGrow DEF TypeInv, InboxTyped, AskedTyped, PromptsTyped
<1>1. Len(inbox) <= Len(inbox')
  <2>1. CASE UNCHANGED inbox
    BY <1>0, <2>1
  <2>2. CASE \E u : MayCome(u) /\ inbox' = Append(inbox, u)
    BY <1>0, <2>2 DEF MayCome, TypeInv, InboxTyped
  <2> QED
    BY <2>1, <2>2, InboxGrows
<1>2. ASSUME UNCHANGED polling PROVE PollTyped'
  BY <1>0, <1>1, <1>2 DEF PollTyped, polling
<1>3. CASE IgnoreDuplicate \/ CallReturns
  BY <1>0, <1>1, <1>3 DEF PollTyped, IgnoreDuplicate, CallReturns, PassOver, EndClaim, Idle, None
<1>4. CASE InterruptReturns
  <2>1. DOMAIN poll' = {"pc", "ask"} /\ poll'.pc = "answerCallback"
    BY <1>0, <1>4 DEF InterruptReturns, PollTyped
  <2> QED
    BY <1>0, <1>1, <1>4, <2>1 DEF PollTyped, InterruptReturns, None
<1>8. CASE CallFails
  <2>1. /\ DOMAIN poll' = {"pc", "ask"} /\ poll'.pc # "interrupt" /\ poll.pc # None
        /\ UNCHANGED <<offset, saved, queued>>
    BY <1>8 DEF CallFails, Await, Idle, None
  <2>2. UNCHANGED claim \/ EndClaim("failed")
    BY <1>8 DEF CallFails
  <2> QED
    BY <1>0, <1>1, <2>1, <2>2 DEF PollTyped, EndClaim
<1>5. CASE Crash
  BY <1>0, <1>1, <1>5 DEF PollTyped, Crash, FirstOffset, Idle, None
<1>6. ASSUME NEW i \in Updates,
             TapTooLate(i) \/ TapAnswers(i) \/ TapFails(i) \/ TextAnswers(i)
             \/ TextDoesNotParse(i) \/ TextFails(i) \/ Command(i)
      PROVE  PollTyped'
  <2>1. /\ offset \in DOMAIN inbox /\ claim' = [claim EXCEPT ![i] = "processing"]
        /\ UNCHANGED <<offset, saved, queued>>
    BY <1>6 DEF TapTooLate, TapAnswers, TapFails, TextAnswers, TextDoesNotParse, TextFails,
                Command, Claimed
  <2>2. DOMAIN poll' = {"pc", "ask"} /\ (poll'.pc = "interrupt" => poll'.ask \in asks)
    BY <1>6 DEF TapTooLate, TapAnswers, TapFails, TextAnswers, TextDoesNotParse, TextFails,
                Command, Await
  <2>3. claim' \in [Updates -> {None, "processing", "completed", "failed"}]
    BY <1>0, <2>1 DEF PollTyped
  <2>4. offset' \in DOMAIN inbox' /\ saved' \in 0..Len(inbox') /\ queued' \subseteq DOMAIN inbox'
    BY <1>0, <1>1, <2>1 DEF PollTyped
  <2>5. asks \subseteq 1..Len(asked')
    BY <1>0
  <2>6. poll'.pc = "interrupt" => poll'.ask \in 1..Len(asked')
    BY <2>2, <2>5, Zenon
  <2> QED
    BY <1>0, <2>2, <2>3, <2>4, <2>6 DEF PollTyped
<1>7. ASSUME NEW i \in Updates, Enqueue(i) PROVE PollTyped'
  BY <1>0, <1>1, <1>7 DEF PollTyped, Enqueue, PassOver, Await, Idle, None
<1> QED
  BY <1>2, <1>3, <1>4, <1>5, <1>6, <1>7, <1>8, PollMoves

LEMMA TypeInvStep == TypeInv /\ [Next]_vars => TypeInv'
BY LanesTypedStep, RequestsGrow, PromptsTypedStep, RowTypedStep, InboxTypedStep, PollTypedStep
   DEF TypeInv

LEMMA TypeInvariant == Spec => []TypeInv
BY InitTyped, TypeInvStep, PTL DEF Spec

\* Type correctness: the maps and the prompts are of requests that came, the loop
\* stands at an update that Telegram has, or behind the last.
THEOREM RequestsAreTyped == Spec => []TypeOK
<1>1. TypeInv => TypeOK
  <2> SUFFICES ASSUME TypeInv PROVE TypeOK
    OBVIOUS
  <2>1. LanesTyped /\ AskedTyped /\ PromptsTyped /\ RowTyped /\ InboxTyped /\ PollTyped
    BY DEF TypeInv
  <2>2. {open, asks} \subseteq SUBSET (1..Len(asked))
    BY <2>1 DEF PromptsTyped
  <2> QED
    BY <2>1, <2>2, Zenon
       DEF TypeOK, LanesTyped, AskedTyped, PromptsTyped, RowTyped, InboxTyped, PollTyped, Ask
<1> QED
  BY <1>1, TypeInvariant, PTL

----------------------------------------------------------------------------
(* Effects.                                                                *)

\* Every update has a place in the histories: only the first answers to prompts
\* are not counted, and there are no more prompts than requests.
LEMMA InboxIsBoundedStep == TypeInv /\ InboxIsBounded /\ [Next]_vars => InboxIsBounded'
<1> SUFFICES ASSUME TypeInv, InboxIsBounded, [Next]_vars PROVE InboxIsBounded'
  OBVIOUS
<1>0. /\ inbox \in Seq(Update) /\ MaxAsks \in Nat /\ MaxExtra \in Nat /\ extra \in 0..MaxExtra
      /\ Len(inbox) <= extra + Cardinality(Prompted)
  BY RequestsAssumption DEF TypeInv, InboxTyped, InboxIsBounded
<1>1. IsFiniteSet(Asks)
  BY <1>0, FS_Interval DEF Asks
<1>2. IsFiniteSet(Prompted) /\ IsFiniteSet(Prompted')
  BY <1>1, FS_Subset DEF Prompted
<1>3. Cardinality(Prompted) \in Nat /\ Cardinality(Prompted') \in Nat
  BY <1>2, FS_CardinalityType
<1>4. CASE UNCHANGED <<inbox, extra>>
  BY <1>4 DEF InboxIsBounded, Prompted
<1>5. ASSUME NEW u, MayCome(u), inbox' = Append(inbox, u), ComesFirst(u) \/ ComesLater
      PROVE  InboxIsBounded'
  <2>1. /\ Len(inbox') = Len(inbox) + 1 /\ Len(inbox) \in Nat /\ inbox'[Len(inbox) + 1] = u
        /\ \A i \in 1..Len(inbox) : inbox'[i] = inbox[i]
        /\ DOMAIN inbox = 1..Len(inbox) /\ DOMAIN inbox' = 1..(Len(inbox) + 1)
    BY <1>0, <1>5 DEF MayCome
  <2>2. Prompted \subseteq Prompted'
    BY <2>1 DEF Prompted
  <2>3. Cardinality(Prompted) <= Cardinality(Prompted')
    BY <1>2, <2>2, FS_Subset
  <2>4. CASE ComesLater
    BY <1>0, <1>3, <2>1, <2>3, <2>4 DEF ComesLater, InboxIsBounded
  <2>5. CASE ComesFirst(u)
    <3>1. Prompted' = Prompted \cup {u.ask} /\ u.ask \notin Prompted
      BY <2>1, <2>5 DEF Prompted, ComesFirst
    <3>2. Cardinality(Prompted') = Cardinality(Prompted) + 1
      BY <1>2, <3>1, FS_AddElement
    <3> QED
      BY <1>0, <1>3, <2>1, <2>5, <3>2 DEF ComesFirst, InboxIsBounded
  <2> QED
    BY <1>5, <2>4, <2>5
<1> QED
  BY <1>4, <1>5, InboxGrows

LEMMA UpdatesAreCounted == TypeInv /\ InboxIsBounded => DOMAIN inbox \subseteq Updates
<1> SUFFICES ASSUME TypeInv, InboxIsBounded PROVE DOMAIN inbox \subseteq Updates
  OBVIOUS
<1>0. MaxAsks \in Nat /\ MaxExtra \in Nat /\ inbox \in Seq(Update)
  BY RequestsAssumption DEF TypeInv, InboxTyped
<1>1. IsFiniteSet(Asks) /\ Cardinality(Asks) = MaxAsks
  BY <1>0, FS_Interval DEF Asks
<1>2. IsFiniteSet(Prompted) /\ Cardinality(Prompted) <= MaxAsks /\ Cardinality(Prompted) \in Nat
  BY <1>1, FS_Subset, FS_CardinalityType DEF Prompted
<1> QED
  BY <1>0, <1>2 DEF InboxIsBounded, Updates

LEMMA EffectsAreClaimedStep ==
  TypeInv /\ EffectsAreClaimed /\ [Next]_vars => EffectsAreClaimed'
<1> SUFFICES ASSUME TypeInv, EffectsAreClaimed, [Next]_vars PROVE EffectsAreClaimed'
  OBVIOUS
<1>0. /\ claim \in [Updates -> {None, "processing", "completed", "failed"}]
      /\ done \in [Updates -> [Effects -> 0..1]]
      /\ Effects = {"task", "answer", "command"} /\ None = "none"
  BY DEF TypeInv, PollTyped, EffectsAreClaimed, Effects, None
<1>1. \A i \in Updates : claim'[i] = None => claim[i] = None
  BY <1>0, PollMoves
     DEF polling, IgnoreDuplicate, CallReturns, InterruptReturns, CallFails, Crash, Enqueue,
         TapTooLate, TapAnswers, TapFails, TextAnswers, TextDoesNotParse, TextFails, Command,
         Claimed, EndClaim
<1>2. queued \subseteq queued'
  BY PollMoves
     DEF polling, IgnoreDuplicate, CallReturns, InterruptReturns, CallFails, Crash, Enqueue,
         TapTooLate, TapAnswers, TapFails, TextAnswers, TextDoesNotParse, TextFails, Command
<1>3. ASSUME NEW i \in Updates, NEW e \in Effects, done[i][e] = 0, Count(i, e)
      PROVE  done' = [done EXCEPT ![i] = [done[i] EXCEPT ![e] = 1]]
  BY <1>0, <1>3 DEF Count
<1>4. CASE UNCHANGED done
  BY <1>1, <1>2, <1>4 DEF EffectsAreClaimed
<1>5. ASSUME NEW i \in Updates, TapAnswers(i) \/ TextAnswers(i) PROVE EffectsAreClaimed'
  <2>1. claim[i] = None /\ claim'[i] # None /\ Count(i, "answer")
    BY <1>0, <1>5 DEF TapAnswers, TextAnswers, Claimed, CanClaim, Answered
  <2>2. done' = [done EXCEPT ![i] = [done[i] EXCEPT !["answer"] = 1]]
    BY <1>0, <1>3, <2>1 DEF EffectsAreClaimed
  <2> QED
    BY <1>0, <1>1, <1>2, <2>1, <2>2 DEF EffectsAreClaimed
<1>6. ASSUME NEW i \in Updates, Command(i) PROVE EffectsAreClaimed'
  <2>1. claim[i] = None /\ claim'[i] # None /\ Count(i, "command")
    BY <1>0, <1>6 DEF Command, Claimed, CanClaim
  <2>2. done' = [done EXCEPT ![i] = [done[i] EXCEPT !["command"] = 1]]
    BY <1>0, <1>3, <2>1 DEF EffectsAreClaimed
  <2> QED
    BY <1>0, <1>1, <1>2, <2>1, <2>2 DEF EffectsAreClaimed
<1>7. ASSUME NEW i \in Updates, Enqueue(i), ~UNCHANGED done PROVE EffectsAreClaimed'
  <2>1. i \notin queued /\ i \in queued' /\ Count(i, "task")
    BY <1>7 DEF Enqueue
  <2>2. done' = [done EXCEPT ![i] = [done[i] EXCEPT !["task"] = 1]]
    BY <1>0, <1>3, <2>1 DEF EffectsAreClaimed
  <2> QED
    BY <1>0, <1>1, <1>2, <2>1, <2>2 DEF EffectsAreClaimed
<1> QED
  BY <1>4, <1>5, <1>6, <1>7, DoneMoves

\* An update acts at most once, whatever fails, crashes and is delivered again: its
\* row is inserted in the step that acts, and the row outlives a crash.
THEOREM UpdatesActOnce == Spec => []ActsOnce
<1> DEFINE Inv == TypeInv /\ InboxIsBounded /\ EffectsAreClaimed
<1>1. Init => Inv
  <2> SUFFICES ASSUME Init PROVE InboxIsBounded /\ EffectsAreClaimed
    BY InitTyped
  <2>1. Prompted = {} /\ Cardinality({}) = 0
    BY FS_EmptySet DEF Init, Prompted
  <2> QED
    BY <2>1, RequestsAssumption DEF Init, InboxIsBounded, EffectsAreClaimed, Effects
<1>2. Inv /\ [Next]_vars => Inv'
  BY TypeInvStep, InboxIsBoundedStep, EffectsAreClaimedStep
<1>3. Inv => ActsOnce
  BY UpdatesAreCounted DEF ActsOnce, EffectsAreClaimed
<1> QED
  BY <1>1, <1>2, <1>3, PTL DEF Spec

----------------------------------------------------------------------------
(* Rows and the map.                                                       *)

\* A text that is taken for an answer answers a question that is pending.
LEMMA TextAnswersAQuestion ==
  ASSUME TypeInv, NEW i \in Updates, TextAnswers(i)
  PROVE  /\ i \in DOMAIN inbox
         /\ FindPendingUserInput(inbox[i]) \in InputAsks
<1>1. i \in DOMAIN inbox /\ InputAsks # {}
  BY DEF TextAnswers, Claimed, HasEffects
<1>2. shown \in Seq(1..Len(asked))
  BY DEF TypeInv, PromptsTyped
<1> QED
  BY <1>1, <1>2, FindsAQuestion

\* What is settled is no prompt that is still being sent.
LEMMA SettledAreSent ==
  ASSUME TypeInv, SentIsRemembered, [Next]_vars, ~Crash
  PROVE  \A n \in asks \ asks' : n \notin DOMAIN sending \/ ~IsApproval(n)
<1>1. CASE InterruptReturns
  BY <1>1 DEF InterruptReturns, Settle, SentIsRemembered
<1>2. ASSUME NEW i \in Updates, TapAnswers(i) \/ TapFails(i)
      PROVE  \A n \in asks \ asks' : n \notin DOMAIN sending \/ ~IsApproval(n)
  BY <1>2 DEF TapAnswers, TapFails, Settle, SentIsRemembered, Claimed
<1>3. ASSUME NEW i \in Updates, TextAnswers(i)
      PROVE  \A n \in asks \ asks' : n \notin DOMAIN sending \/ ~IsApproval(n)
  <2>1. FindPendingUserInput(inbox[i]) \in InputAsks
    BY <1>3, TextAnswersAQuestion
  <2>2. asks \ asks' \subseteq InputAsks
    BY <1>3, <2>1 DEF TextAnswers, Settle
  <2> QED
    BY <2>2 DEF InputAsks, IsApproval, Approvals
<1> QED
  BY <1>1, <1>2, <1>3, AsksMove DEF HandleServerRequest, RegisterPrompt

LEMMA SentIsRememberedStep ==
  ASSUME ~EarlyAnswers
  PROVE  TypeInv /\ SentIsRemembered /\ [Next]_vars => SentIsRemembered'
<1> SUFFICES ASSUME TypeInv, SentIsRemembered, [Next]_vars PROVE SentIsRemembered'
  OBVIOUS
<1>0. /\ Len(asked) \in Nat /\ DOMAIN sending \subseteq 1..Len(asked)
      /\ \A n \in 1..Len(asked) : asked'[n] = asked[n]
      /\ \A i \in DOMAIN inbox : inbox[i].ask \in 0..Len(asked)
      /\ poll.pc = "interrupt" => poll.ask \in 1..Len(asked)
      /\ inbox \in Seq(Update) /\ asks \subseteq 1..Len(asked)
      /\ DOMAIN poll = {"pc", "ask"}
  BY RequestsGrow DEF TypeInv, PromptsTyped, InboxTyped, PollTyped
<1>1. CASE Crash
  BY <1>1 DEF Crash, SentIsRemembered, Idle, None
<1>2. CASE ~Crash
  <2>1. ASSUME NEW l \in Lanes, NEW kind \in Kinds, HandleServerRequest(l, kind)
        PROVE  /\ DOMAIN sending' = DOMAIN sending \cup {Len(asked) + 1}
               /\ asked'[Len(asked) + 1].kind \in Approvals => Len(asked) + 1 \in asks'
               /\ asks \subseteq asks' /\ UNCHANGED <<inbox, poll>>
    <3>1. asked \in Seq(Ask)
      BY DEF TypeInv, AskedTyped
    <3>2. asked'[Len(asked) + 1].kind = kind
      BY <2>1, <3>1 DEF HandleServerRequest
    <3>3. DOMAIN sending' = DOMAIN sending \cup {Len(asked) + 1}
      BY <2>1 DEF HandleServerRequest, With
    <3> QED
      BY <2>1, <3>2, <3>3 DEF HandleServerRequest, polling
  <2>2. CASE \E l \in Lanes, kind \in Kinds : HandleServerRequest(l, kind)
    <3>1. \A n \in DOMAIN sending : asked'[n] = asked[n]
      BY <1>0
    <3>2. Len(asked) + 1 \notin 0..Len(asked) /\ Len(asked) + 1 \notin 1..Len(asked)
      BY <1>0
    <3>3. \A n \in DOMAIN sending' : asked'[n].kind \in Approvals => n \in asks'
      BY <2>1, <2>2, <3>1 DEF SentIsRemembered, IsApproval
    <3> QED
      BY <1>0, <2>1, <2>2, <3>2, <3>3 DEF SentIsRemembered, IsApproval
  <2>3. CASE ~\E l \in Lanes, kind \in Kinds : HandleServerRequest(l, kind)
    <3>1. DOMAIN sending' \subseteq DOMAIN sending
      BY <2>3, SendingMoves DEF Crash, AnswerToolCall, PromptShown, RegisterPrompt, PromptFails,
                                Without
    <3>2. \A n \in DOMAIN sending' : IsApproval(n)' => n \in asks'
      <4>1. \A n \in DOMAIN sending : IsApproval(n)' <=> IsApproval(n)
        BY <1>0 DEF IsApproval
      <4> QED
        BY <1>2, <3>1, <4>1, SettledAreSent DEF SentIsRemembered
    <3>3. \A i \in DOMAIN inbox' : inbox'[i].ask \notin DOMAIN sending'
      <4>1. CASE UNCHANGED inbox
        BY <3>1, <4>1 DEF SentIsRemembered
      <4>2. CASE \E u : MayCome(u) /\ inbox' = Append(inbox, u)
        <5>1. PICK u : MayCome(u) /\ inbox' = Append(inbox, u)
          BY <4>2
        <5>2. u.ask \notin DOMAIN sending /\ u \in Update
          BY <1>0, <5>1 DEF MayCome
        <5>3. \A i \in DOMAIN inbox' : inbox'[i] = u \/ (i \in DOMAIN inbox /\ inbox'[i] = inbox[i])
          BY <1>0, <5>1, <5>2
        <5> QED
          BY <3>1, <5>2, <5>3 DEF SentIsRemembered
      <4> QED
        BY <4>1, <4>2, InboxGrows
    <3>4. poll'.pc = "interrupt" => poll'.ask \notin DOMAIN sending'
      <4>1. \/ poll'.pc # "interrupt" \/ UNCHANGED poll
            \/ \E i \in DOMAIN inbox : poll'.ask = inbox[i].ask
        BY <1>0, <1>2, PollMoves
           DEF polling, IgnoreDuplicate, CallReturns, InterruptReturns, CallFails, Enqueue,
               TapTooLate, TapAnswers, TapFails, TextAnswers, TextDoesNotParse, TextFails,
               Command, Claimed, Await, Idle, None
      <4> QED
        BY <3>1, <4>1 DEF SentIsRemembered
    <3> QED
      BY <3>2, <3>3, <3>4 DEF SentIsRemembered
  <2> QED
    BY <2>2, <2>3
<1> QED
  BY <1>1, <1>2

LEMMA SettlesRow ==
  ASSUME TypeInv, RowIsResolvable, NEW n, NEW status \in {"resolved", "expired"}, Settle(n, status)
  PROVE  RowIsResolvable'
BY DEF TypeInv, RowTyped, RowIsResolvable, Settle, None

LEMMA RowIsResolvableStep ==
  TypeInv /\ SentIsRemembered /\ RowIsResolvable /\ [Next]_vars => RowIsResolvable'
<1> SUFFICES ASSUME TypeInv, SentIsRemembered, RowIsResolvable, [Next]_vars
             PROVE  RowIsResolvable'
  OBVIOUS
<1>1. CASE Crash
  BY <1>1 DEF Crash, RowIsResolvable
<1>2. CASE InterruptReturns
  BY <1>2, SettlesRow DEF InterruptReturns
<1>3. ASSUME NEW i \in Updates, TapAnswers(i) \/ TapFails(i) \/ TextAnswers(i)
      PROVE  RowIsResolvable'
  <2>1. UNCHANGED <<asks, row>> \/ \E n : Settle(n, "resolved") \/ Settle(n, "expired")
    BY <1>3 DEF TapAnswers, TapFails, TextAnswers
  <2> QED
    BY <2>1, SettlesRow DEF RowIsResolvable
<1>4. CASE CallFails \/ \E i \in Updates : TextFails(i)
  <2>1. UNCHANGED asks /\ (UNCHANGED row \/ \E n : row' = [row EXCEPT ![n] = "failed"])
    BY <1>4 DEF CallFails, TextFails
  <2> QED
    BY <2>1 DEF RowIsResolvable, TypeInv, RowTyped
<1>5. CASE \E n \in Asks : RegisterPrompt(n)
  BY <1>5 DEF RegisterPrompt, SentIsRemembered, RowIsResolvable, TypeInv, RowTyped
<1>6. CASE UNCHANGED row /\ (UNCHANGED asks \/ \E l \in Lanes, kind \in Kinds : HandleServerRequest(l, kind))
  BY <1>6 DEF HandleServerRequest, RowIsResolvable
<1> QED
  BY <1>1, <1>2, <1>3, <1>4, <1>5, <1>6, RowMoves, AsksMove

\* Unless an answer may overtake the sendMessage of its prompt, a row that is
\* pending has its request in the map, also after lost servers, failed calls and
\* crashes: the map is written before the row for approvals, and with it otherwise.
THEOREM RowsAreResolvable == ~EarlyAnswers => (Spec => []RowIsResolvable)
<1> SUFFICES ASSUME ~EarlyAnswers PROVE Spec => []RowIsResolvable
  OBVIOUS
<1> DEFINE Inv == TypeInv /\ SentIsRemembered /\ RowIsResolvable
<1>1. Init => Inv
  <2> SUFFICES ASSUME Init PROVE SentIsRemembered /\ RowIsResolvable
    BY InitTyped
  <2> QED
    BY DEF Init, SentIsRemembered, RowIsResolvable, Idle, None
<1>2. Inv /\ [Next]_vars => Inv'
  BY TypeInvStep, SentIsRememberedStep, RowIsResolvableStep
<1> QED
  BY <1>1, <1>2, PTL DEF Spec

----------------------------------------------------------------------------
(* Answers.                                                                *)

LEMMA IdsAreUniqueStep ==
  ASSUME ~IdsRestart
  PROVE  TypeInv /\ IdsAreUnique /\ [Next]_vars => IdsAreUnique'
<1> SUFFICES ASSUME TypeInv, IdsAreUnique, [Next]_vars PROVE IdsAreUnique'
  OBVIOUS
<1>0. /\ nextId \in [Lanes -> 0..MaxAsks] /\ asked \in Seq(Ask) /\ MaxAsks \in Nat
      /\ DOMAIN asked = 1..Len(asked) /\ Len(asked) \in Nat
      /\ \A r \in Ask : r.lane \in Lanes /\ r.id \in 0..MaxAsks
  BY RequestsAssumption DEF TypeInv, LanesTyped, AskedTyped, Ask
<1>1. CASE UNCHANGED asked
  <2>1. \A l \in Lanes : nextId[l] <= nextId'[l] /\ nextId'[l] \in Nat
    <3>1. CASE UNCHANGED nextId
      BY <1>0, <3>1
    <3>2. CASE \E l \in Lanes : RefuseServerRequest(l) \/ \E kind \in Kinds : HandleServerRequest(l, kind)
      <4>1. PICK l \in Lanes : nextId' = [nextId EXCEPT ![l] = @ + 1]
        BY <3>2 DEF RefuseServerRequest, HandleServerRequest
      <4> QED
        BY <1>0, <4>1
    <3>3. CASE Crash \/ \E l \in Lanes : LoseServer(l)
      <4>1. UNCHANGED nextId
        BY <3>3, Zenon DEF Crash, LoseServer
      <4> QED
        BY <1>0, <4>1
    <3> QED
      BY <3>1, <3>2, <3>3, LanesMove DEF TaskSettles, StartHandoff, StartTask, TurnEnds,
                                        RestoreServer, TapAnswers, Command
  <2>2. \A n \in DOMAIN asked : asked[n] \in Ask
    BY <1>0
  <2> QED
    BY <1>0, <1>1, <2>1, <2>2 DEF IdsAreUnique
<1>2. ASSUME NEW l \in Lanes, NEW kind \in Kinds, HandleServerRequest(l, kind) PROVE IdsAreUnique'
  <2>1. PICK r : /\ r.lane = l /\ r.id = nextId[l] /\ r.kind = kind
                 /\ asked' = Append(asked, r)
                 /\ nextId' = [nextId EXCEPT ![l] = @ + 1]
    BY <1>2 DEF HandleServerRequest
  <2>2. /\ DOMAIN asked' = DOMAIN asked \cup {Len(asked) + 1} /\ Len(asked) + 1 \notin DOMAIN asked
        /\ asked'[Len(asked) + 1] = r
        /\ \A n \in DOMAIN asked : asked'[n] = asked[n]
    BY <1>0, <2>1
  <2>3. nextId'[l] = nextId[l] + 1 /\ \A m \in Lanes : m # l => nextId'[m] = nextId[m]
    BY <1>0, <2>1
  <2>4. \A n \in DOMAIN asked :
          /\ asked[n].lane \in Lanes /\ asked[n].id \in Nat
          /\ asked[n].id < nextId[asked[n].lane]
    BY <1>0 DEF IdsAreUnique
  <2>5. \A m \in Lanes : nextId[m] \in Nat
    BY <1>0
  <2> QED
    BY <2>1, <2>2, <2>3, <2>4, <2>5 DEF IdsAreUnique
<1> QED
  BY <1>1, <1>2, AskedMoves

\* An id addresses the request it was given for, if that is still open.
LEMMA AddressedIsOwn ==
  ASSUME TypeInv, IdsAreUnique, NEW n \in 1..Len(asked)
  PROVE  Addressed(n) \subseteq {n}
<1>1. DOMAIN asked = 1..Len(asked) /\ open \subseteq 1..Len(asked)
  BY DEF TypeInv, AskedTyped, PromptsTyped
<1> QED
  BY <1>1 DEF Addressed, OfLane, IdsAreUnique

\* What a step may give to a request n: what was meant for its own prompt p, or what
\* was meant for a question that is not pending when n is a pending one.
MayBeGiven(n, p) ==
  p = n \/ (asked[p].kind = "input" /\ p \notin InputAsks /\ n \in InputAsks)

LEMMA AnswerIsItsOwnStep ==
  ASSUME TypeInv, IdsAreUnique, [Next]_vars
  PROVE  \A n \in Asks : \A p \in got'[n] \ got[n] : MayBeGiven(n, p)
<1> DEFINE Own == \A n \in Asks : \A p \in got'[n] \ got[n] : MayBeGiven(n, p)
<1>0. asks \subseteq 1..Len(asked) /\ DOMAIN sending \subseteq 1..Len(asked)
  BY DEF TypeInv, PromptsTyped
<1>1. ASSUME NEW n \in 1..Len(asked), NEW p, MayBeGiven(n, p),
             got' = [m \in Asks |-> IF m \in Addressed(n) THEN got[m] \cup {p} ELSE got[m]]
      PROVE  Own
  <2>1. Addressed(n) \subseteq {n}
    BY AddressedIsOwn
  <2> QED
    BY <1>1, <2>1
<1>2. CASE UNCHANGED got
  BY <1>2
<1>3. ASSUME NEW n \in Asks, AnswerToolCall(n) PROVE Own
  BY <1>0, <1>1, <1>2, <1>3 DEF AnswerToolCall, MayBeGiven
<1>4. ASSUME NEW i \in Updates, TapAnswers(i) PROVE Own
  BY <1>0, <1>1, <1>4 DEF TapAnswers, Answered, MayBeGiven
<1>5. ASSUME NEW i \in Updates, TextAnswers(i) PROVE Own
  <2> DEFINE u == inbox[i]
             n == FindPendingUserInput(u)
             p == IF u.ask = 0 THEN n ELSE u.ask
  <2>1. i \in DOMAIN inbox /\ n \in InputAsks /\ u.kind = "text"
    BY <1>5, TextAnswersAQuestion DEF TextAnswers
  <2>2. u.ask # 0 => asked[u.ask].kind = "input"
    BY <2>1 DEF TypeInv, InboxTyped
  <2>3. u.ask \in InputAsks => n = u.ask
    BY DEF FindPendingUserInput
  <2>4. MayBeGiven(n, p)
    BY <2>1, <2>2, <2>3 DEF MayBeGiven
  <2>5. n \in 1..Len(asked)
    BY <1>0, <2>1 DEF InputAsks
  <2>6. got' = [m \in Asks |-> IF m \in Addressed(n) THEN got[m] \cup {p} ELSE got[m]]
    BY <1>5 DEF TextAnswers, Answered
  <2> QED
    BY <1>1, <2>4, <2>5, <2>6
<1> QED
  BY <1>2, <1>3, <1>4, <1>5, GotMoves

\* Unless an app-server numbers its requests from the start again, a request is given
\* what was meant for its own prompt, although answers are addressed by id alone.  The
\* one exception is a text: when it replies to a question that is not pending, it goes
\* to one that is.  So no answer to a pending prompt goes astray, and none that was
\* meant for another prompt reaches an approval or a tool call, on any lane.
THEOREM AnswersAreOwn == ~IdsRestart => (Spec => AnswerIsItsOwn)
<1> SUFFICES ASSUME ~IdsRestart PROVE Spec => AnswerIsItsOwn
  OBVIOUS
<1> DEFINE Inv == TypeInv /\ IdsAreUnique
<1>1. Init => Inv
  <2> SUFFICES ASSUME Init PROVE IdsAreUnique
    BY InitTyped
  <2> QED
    BY DEF Init, IdsAreUnique
<1>2. Inv /\ [Next]_vars => Inv'
  BY TypeInvStep, IdsAreUniqueStep
<1>3. Inv /\ [Next]_vars =>
        [\A n \in Asks : \A p \in got'[n] \ got[n] :
           \/ p = n
           \/ asked[p].kind = "input" /\ p \notin InputAsks /\ n \in InputAsks]_vars
  BY AnswerIsItsOwnStep DEF MayBeGiven
<1> QED
  BY <1>1, <1>2, <1>3, PTL DEF Spec, AnswerIsItsOwn
=============================================================================
