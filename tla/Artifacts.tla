----------------------------- MODULE Artifacts -----------------------------
(***************************************************************************)
(* How the files Codex makes reach the chat.  A file an answer names is    *)
(* copied into the artifact store (staged) and sent from there; what could *)
(* not be sent stays undelivered and is tried again with a later answer,   *)
(* until it is given up (quarantined).  Every sender lists the whole       *)
(* backlog, marks a file only after Telegram has answered, and yields      *)
(* between files.                                                          *)
(*                                                                         *)
(* Who sends: the worker, with the answer of a turn, with an answer found  *)
(* again after a restart, with a picture generated without a turn, and     *)
(* once when the daemon starts; a run of the terminal lane beside it; the  *)
(* poll loop with /image; and bridgectl send in a process of its own.  A   *)
(* step is the code between two awaits.                                    *)
(***************************************************************************)
EXTENDS Naturals, Sequences, SequencesExt, FiniteSetsExt

CONSTANTS
  Images, Documents, Videos, Sounds, \* the files Codex may write, by modality
  Tasks,     \* queued messages
  Visual,    \* those whose text asks to see something
  Pictures,  \* those the bridge may answer by generating an image itself
  Speak,     \* those that want an audio reply
  ToolKinds, \* what the tools of the media server make
  Senders,   \* processes beside the worker
  GiveUp,    \* ARTIFACT_DELIVERY_QUARANTINE_ATTEMPTS
  MaxWrites, \* bound on writes of files
  MaxOps,    \* bound on commands, terminal runs and tool calls
  MaxFaults, \* bound on what fails: calls of Telegram or of a provider, copies, the daemon
  MaxCrashes \* bound on the last of these

Paths == Images \cup Documents \cup Videos \cup Sounds
None  == "none"

ASSUME ArtifactsAssumption ==
  /\ Tasks \subseteq Nat \ {0} /\ (Visual \cup Pictures \cup Speak) \subseteq Tasks
  /\ Senders \subseteq {"terminal", "chat", "ctl"} /\ None \notin Paths
  /\ ToolKinds \subseteq {"image", "audio"} /\ GiveUp \in Nat \ {0, 1} /\ {MaxWrites, MaxOps, MaxFaults, MaxCrashes} \subseteq Nat

Procs == {"worker"} \cup Senders
Kinds == {"image", "document", "video", "audio"}
Kind(p) == CASE p \in Images    -> "image"
             [] p \in Documents -> "document"
             [] p \in Videos    -> "video"
             [] p \in Sounds    -> "audio"
Branches == 1..3  \* of sendFinalText: inline images, named images, recent images
Request  == [path : Paths, branch : Branches, copying : BOOLEAN]
Ask(S, b) == [path : S, branch : {b}, copying : {FALSE}]
NoAnswer == [given |-> FALSE, inline |-> {}, named |-> {}, since |-> {}, seen |-> [p \in Paths |-> 0]]
Rest == [how |-> None, pc |-> "rest", task |-> 0, want |-> {}, held |-> <<<<>>, <<>>, <<>>>>,
         todo |-> <<>>, round |-> 0, second |-> FALSE, bad |-> {}, owed |-> {},
         named |-> {}, since |-> {}]

VARIABLES
  file,    \* the version of each file under the working directory
  arts,    \* durable: the artifacts and what is known of their delivery
  row,     \* durable: queue status of the messages
  answer,  \* durable: what the answer to a message shows and names, and the files
           \* written since its turn began (the rollout, ActiveTaskRecord.startedAt)
  job,     \* what each process does
  made,    \* history: the artifacts staged or written for a message
  writes, ops, faults, crashes

bounded == <<writes, ops, faults, crashes>>
vars == <<file, arts, row, answer, job, made, bounded>>

Init ==
  /\ file = [p \in Paths |-> 0]
  /\ arts = <<>> /\ row = [t \in Tasks |-> "pending"]
  /\ answer = [t \in Tasks |-> NoAnswer] /\ job = [p \in Procs |-> Rest]
  /\ made = [t \in Tasks |-> {}] /\ writes = 0 /\ ops = 0 /\ faults = 0 /\ crashes = 0

Ids == DOMAIN arts
Since(p) == IF job[p].task = 0 THEN job[p].since ELSE answer[job[p].task].since
At(p, pc) == job[p].pc = pc
Idle(p)   == At(p, "rest")
\* After an answer found again the start of the daemon goes on with its backlog.
Startup    == [Rest EXCEPT !.how = "startup", !.pc = "send"]
Resting(p) == job' = [job EXCEPT ![p] = IF job[p].how = "recovered" THEN Startup ELSE Rest]
Settle(t, s) == row' = IF t = 0 THEN row ELSE [row EXCEPT ![t] = s]
Fault  == faults < MaxFaults /\ faults' = faults + 1 /\ UNCHANGED <<writes, ops, crashes>>
Op     == ops < MaxOps /\ ops' = ops + 1 /\ UNCHANGED <<writes, faults, crashes>>

(***************************************************************************)
(* The store                                                               *)
(***************************************************************************)
\* An artifact.  got, known, dropped and shared are history: how often the file
\* arrived in the chat; whether its failure was reported to whoever asked for it
\* (the notice is sent once, and may be lost itself), or was the last one and only
\* logged; whether it may rightly arrive twice.
Artifact(kind, path, source) ==
  [kind |-> kind, path |-> path, source |-> source, ver |-> IF path = None THEN 0 ELSE file[path],
   delivered |-> FALSE, tries |-> 0, quarantined |-> FALSE,
   got |-> 0, known |-> FALSE, dropped |-> FALSE, shared |-> FALSE]

\* delivered_at IS NULL AND quarantined_at IS NULL
Waiting(a) == ~arts[a].delivered /\ ~arts[a].quarantined

\* A set of artifacts as a sequence, oldest first: the n-th has n - 1 before it.
InOrder(S) ==
  [n \in 1..Cardinality(S) |-> CHOOSE a \in S : Cardinality({b \in S : b < a}) = n - 1]

\* listRecentUndeliveredArtifacts, recent and backlog together.
Undelivered(kind) == InOrder({a \in Ids : Waiting(a) /\ arts[a].kind = kind})

\* findUndeliveredArtifactByOriginalPath: the newest first.
Existing(path) == {a \in Ids : Waiting(a) /\ arts[a].path = path /\ arts[a].source = "automatic"}

\* markArtifactDelivered: the row of its failures goes.
MarkDelivered(a) == [arts EXCEPT ![a].delivered = TRUE, ![a].tries = 0, ![a].quarantined = FALSE]

\* recordArtifactDeliveryFailure
RecordFailure(a, quarantine) ==
  [arts EXCEPT ![a].tries = @ + 1, ![a].quarantined = @ \/ quarantine \/ arts[a].tries + 1 >= GiveUp]

Tell(S) == [a \in Ids |-> [arts[a] EXCEPT !.known = @ \/ a \in S]]

\* What the processes have in hand.
HeldBy(p) == ToSet(job[p].todo) \cup UNION {ToSet(job[p].held[b]) : b \in Branches}
InHand    == UNION {HeldBy(p) : p \in Procs}
Share(S)  == [a \in Ids |-> [arts[a] EXCEPT !.shared = @ \/ (a \in S /\ a \in InHand)]]

(***************************************************************************)
(* Staging: stageExistingFile for each file asked for, the branches of     *)
(* sendFinalText beside each other, one file of a branch at a time         *)
(***************************************************************************)
\* Where the artifact of request r goes: into hand for sendFinalText and for
\* bridgectl; the files staged behind the text are found by the lists.
Staged(p, r, a) ==
  /\ job' = [job EXCEPT ![p].want = @ \ {r},
                        ![p].held[r.branch] = IF At(p, "files") THEN @ ELSE Append(@, a)]
  /\ made' = IF job[p].task = 0 THEN made ELSE [made EXCEPT ![job[p].task] = @ \cup {a}]

Free(p, r) == ~r.copying /\ \A q \in job[p].want : q.branch = r.branch => ~q.copying

\* The file was staged before and still waits: that copy is taken.
Reuses(p) ==
  \E r \in job[p].want :
    /\ Free(p, r) /\ Existing(r.path) # {}
    /\ LET a == Max(Existing(r.path)) IN
         /\ Staged(p, r, a)
         /\ arts' = [(IF At(p, "files") THEN arts ELSE Share({a})) EXCEPT ![a].known = FALSE]
    /\ UNCHANGED <<file, row, answer, bounded>>

StartsCopy(p) ==
  \E r \in job[p].want :
    /\ Free(p, r) /\ Existing(r.path) = {}
    /\ job' = [job EXCEPT ![p].want = (@ \ {r}) \cup {[r EXCEPT !.copying = TRUE]}]
    /\ UNCHANGED <<file, arts, row, answer, made, bounded>>

Copies(p) ==
  \E r \in job[p].want :
    /\ r.copying
    /\ arts' = Append(arts, Artifact(Kind(r.path), r.path, "automatic"))
    /\ Staged(p, r, Len(arts) + 1)
    /\ UNCHANGED <<file, row, answer, bounded>>

\* A copy that fails is logged and left out; bridgectl ends with the error.
CopyFails(p) ==
  \E r \in job[p].want :
    /\ r.copying /\ Fault
    /\ job' = [job EXCEPT ![p].want = @ \ {r}]
    /\ UNCHANGED <<file, arts, row, answer, made>>

\* stageRecentGeneratedImagesForVisualTask: what was written since the turn
\* began and is not staged yet, named or not.
SweepsRecent(p) ==
  /\ At(p, "stage") /\ job[p].want = {} /\ job[p].how = "turn" /\ job[p].task \in Visual
  /\ LET staged == {arts[a].path : a \in HeldBy(p)} IN
       job' = [job EXCEPT ![p].pc = "recent", ![p].want = Ask((Images \cap Since(p)) \ staged, 3)]
  /\ UNCHANGED <<file, arts, row, answer, made, bounded>>

(***************************************************************************)
(* Sending                                                                 *)
(***************************************************************************)
InHands(p) == job[p].held[1] \o job[p].held[2] \o job[p].held[3]
Sends(p, s) == [job EXCEPT ![p].pc = "send", ![p].todo = s, ![p].held = Rest.held,
                           ![p].second = FALSE, ![p].bad = {}]

\* bridgectl sends what it has staged.
SendBegins(p) ==
  /\ At(p, "stage") /\ job[p].want = {} /\ job[p].how = "send" /\ job' = Sends(p, InHands(p))
  /\ UNCHANGED <<file, arts, row, answer, made, bounded>>

\* The files behind the text of the answer: staged for the lists to find.
FilesOf(p) ==
  IF job[p].how = "terminal" THEN job[p].named \cap Since(p)
                             ELSE (answer[job[p].task].named \cap Since(p)) \ Images

\* What is staged for the text is complete, and its text is next.
AtText(p) ==
  \/ At(p, "text") \/ (At(p, "recent") /\ job[p].want = {})
  \/ /\ At(p, "stage") /\ job[p].want = {} /\ job[p].how \in {"turn", "recovered"}
     /\ ~(job[p].how = "turn" /\ job[p].task \in Visual)

\* The text of the answer is sent, then the images in hand.
TextIsSent(p) ==
  /\ AtText(p)
  /\ job' = IF job[p].how = "terminal"
              THEN [job EXCEPT ![p].pc = "files", ![p].want = Ask(FilesOf(p), 1)]
              ELSE Sends(p, InHands(p))
  /\ UNCHANGED <<file, arts, row, answer, made, bounded>>

\* The text cannot be sent: what was staged for it stays in the backlog.
TextFails(p) ==
  /\ AtText(p) /\ Fault
  /\ Settle(job[p].task, "failed") /\ Resting(p)
  /\ UNCHANGED <<file, arts, answer, made>>

\* Telegram has taken the file and the answer is on its way back.
Arrives(p) ==
  /\ At(p, "send") /\ job[p].todo # <<>>
  /\ arts' = [arts EXCEPT ![Head(job[p].todo)].got = @ + 1]
  /\ job' = [job EXCEPT ![p].pc = "mark"]
  /\ UNCHANGED <<file, row, answer, made, bounded>>

\* Variant: a file that went out the second way is not marked.
MarksFirstWay(p) ==
  /\ At(p, "mark")
  /\ arts' = IF job[p].second THEN arts ELSE MarkDelivered(Head(job[p].todo))
  /\ job' = [job EXCEPT ![p].pc = "send", ![p].todo = Tail(@), ![p].second = FALSE]
  /\ UNCHANGED <<file, row, answer, made, bounded>>

Marks(p) ==
  /\ At(p, "mark")
  /\ arts' = MarkDelivered(Head(job[p].todo))
  /\ job' = [job EXCEPT ![p].pc = "send", ![p].todo = Tail(@), ![p].second = FALSE]
  /\ UNCHANGED <<file, row, answer, made, bounded>>

\* Telegram has taken the file and its answer is lost: callApi calls again, or
\* gives the call up as failed.
ReplyIsLost(p) ==
  /\ At(p, "send") /\ job[p].todo # <<>> /\ Fault
  /\ arts' = [arts EXCEPT ![Head(job[p].todo)].got = @ + 1, ![Head(job[p].todo)].shared = TRUE]
  /\ UNCHANGED <<file, row, answer, job, made>>

\* A photo, a voice message or a video that is refused goes out as a document.
FallsBack(p) ==
  /\ At(p, "send") /\ job[p].todo # <<>> /\ Fault
  /\ ~job[p].second /\ arts[Head(job[p].todo)].kind # "document"
  /\ job' = [job EXCEPT ![p].second = TRUE]
  /\ UNCHANGED <<file, arts, row, answer, made>>

\* What was asked for by name (/image, bridgectl send) is not tried again.
OnlyOnce(p) == job[p].how = "send" \/ (job[p].how = "direct" /\ job[p].round = 0)

\* For bridgectl the error is also what it ends with.
DeliveryFails(p) ==
  /\ At(p, "send") /\ job[p].todo # <<>> /\ Fault
  /\ job[p].second \/ arts[Head(job[p].todo)].kind = "document"
  /\ LET a == Head(job[p].todo)
         s == RecordFailure(a, OnlyOnce(p)) IN
       arts' = [s EXCEPT ![a].known = @ \/ job[p].how = "send",
                         ![a].dropped = @ \/ (s[a].quarantined /\ job[p].how = "terminal")]
  /\ job' = [job EXCEPT ![p].todo = Tail(@), ![p].second = FALSE, ![p].bad = @ \cup {Head(job[p].todo)}]
  /\ UNCHANGED <<file, row, answer, made>>

Through(p) == At(p, "send") /\ job[p].todo = <<>>

(***************************************************************************)
(* The rounds behind an answer: one list per modality                      *)
(***************************************************************************)
Rounds ==
  [terminal  |-> <<"document", "image", "video", "audio">>,
   turn      |-> <<"image", "document", "video", "reply", "audio">>,
   recovered |-> <<"image", "document", "video", "audio">>,
   startup   |-> <<"image", "document", "video", "audio">>]

HasWork(p, kind) == IF kind = "reply" THEN job[p].task \in Speak ELSE Undelivered(kind) # <<>>
Later(p) == {n \in DOMAIN Rounds[job[p].how] : n > job[p].round /\ HasWork(p, Rounds[job[p].how][n])}

\* The round is over and the failures in it are kept for the notice; the next
\* round with anything to do begins, with its list.
NextRound(p) ==
  LET n == Min(Later(p))
      kind == Rounds[job[p].how][n]
      s == IF kind = "reply" THEN <<>> ELSE Undelivered(kind)
      j == [Sends(p, s)[p] EXCEPT !.round = n, !.owed = @ \cup job[p].bad] IN
  /\ Later(p) # {}
  /\ job' = [job EXCEPT ![p] = [j EXCEPT !.pc = IF kind = "reply" THEN "speak" ELSE "send"]]
  /\ arts' = Share(ToSet(s))

\* The images of the answer are out; if one failed, that is said at once.
AnswerIsOut(p) ==
  /\ Through(p) /\ job[p].round = 0 /\ job[p].how \in {"turn", "recovered"}
  /\ arts' = Tell(job[p].bad)
  /\ job' = [job EXCEPT ![p].pc = "files", ![p].bad = {}, ![p].want = Ask(FilesOf(p), 1)]
  /\ UNCHANGED <<file, row, answer, made, bounded>>

\* The exception of a round ends the work of a terminal run and of a recovered
\* answer; the worker and the start go on.
Carries(p) == job[p].how \in {"turn", "startup"} \/ job[p].bad = {}
Listing(p) ==
  \/ At(p, "files") /\ job[p].want = {}
  \/ Through(p) /\ Carries(p) /\ (job[p].round > 0 \/ job[p].how = "startup")

GoesOn(p) ==
  /\ Listing(p) /\ job[p].how \in {"turn", "recovered", "terminal", "startup"} /\ NextRound(p)
  /\ UNCHANGED <<file, row, answer, made, bounded>>

\* Variant: only the failures of the last round count.
FinishesByLastRound(p) ==
  /\ Listing(p) /\ job[p].how \in {"turn", "recovered", "terminal", "startup"} /\ Later(p) = {}
  /\ arts' = IF job[p].how = "turn" THEN Tell(job[p].bad) ELSE arts
  /\ Settle(job[p].task, IF job[p].how = "turn" /\ job[p].bad # {} THEN "failed" ELSE "completed")
  /\ Resting(p) /\ UNCHANGED <<file, answer, made, bounded>>

\* Nothing is left to list: the row is settled by what failed.
Finishes(p) ==
  /\ Listing(p) /\ job[p].how \in {"turn", "recovered", "terminal", "startup"} /\ Later(p) = {}
  /\ LET lost == job[p].owed \cup job[p].bad IN
       /\ arts' = IF job[p].how = "turn" THEN Tell(lost) ELSE arts
       /\ Settle(job[p].task, IF job[p].how = "turn" /\ lost # {} THEN "failed" ELSE "completed")
  /\ Resting(p) /\ UNCHANGED <<file, answer, made, bounded>>

BreaksOff(p) ==
  /\ Through(p) /\ job[p].round > 0 /\ job[p].how \in {"recovered", "terminal"} /\ ~Carries(p)
  /\ Settle(job[p].task, "failed") /\ Resting(p)
  /\ UNCHANGED <<file, arts, answer, made, bounded>>

\* maybeSendAudioReply: speech is made of the answer and sent at once.
Speaks(p) ==
  /\ At(p, "speak")
  /\ arts' = Append(arts, Artifact("audio", None, "automatic"))
  /\ made' = [made EXCEPT ![job[p].task] = @ \cup {Len(arts) + 1}]
  /\ job' = Sends(p, <<Len(arts) + 1>>)
  /\ UNCHANGED <<file, row, answer, bounded>>

SpeechFails(p) ==
  /\ At(p, "speak") /\ Fault
  /\ job' = [Sends(p, <<>>) EXCEPT ![p].bad = {0}]
  /\ UNCHANGED <<file, arts, row, answer, made>>

(***************************************************************************)
(* Images made without a turn (generateAndSendImage), and bridgectl send   *)
(***************************************************************************)
Generates(p) ==
  /\ At(p, "generate")
  /\ arts' = Append(arts, Artifact("image", None, "telegram"))
  /\ made' = IF job[p].task = 0 THEN made
             ELSE [made EXCEPT ![job[p].task] = @ \cup {Len(arts) + 1}]
  /\ job' = Sends(p, <<Len(arts) + 1>>)
  /\ UNCHANGED <<file, row, answer, bounded>>

GenerationFails(p) ==
  /\ At(p, "generate") /\ Fault
  /\ job' = [Sends(p, <<>>) EXCEPT ![p].bad = {0}]
  /\ UNCHANGED <<file, arts, row, answer, made>>

\* The last message of generateAndSendImage, by what has become of the image.
SaysGenerated(p) ==
  /\ Through(p) /\ job[p].how = "direct" /\ job[p].round = 0
  /\ arts' = Tell(job[p].bad)
  /\ IF job[p].bad = {} /\ job[p].task \in Speak
       THEN job' = [job EXCEPT ![p].pc = "speak", ![p].round = 1] /\ UNCHANGED row
       ELSE Resting(p) /\ Settle(job[p].task, IF job[p].bad = {} THEN "completed" ELSE "failed")
  /\ UNCHANGED <<file, answer, made, bounded>>

\* That message cannot be sent: the image counts as failed.
SayingFails(p) ==
  /\ Through(p) /\ job[p].how = "direct" /\ job[p].round = 0 /\ Fault
  /\ Resting(p) /\ Settle(job[p].task, "failed")
  /\ UNCHANGED <<file, arts, answer, made>>

ReplyEnds(p) ==
  /\ Through(p) /\ job[p].how = "direct" /\ job[p].round = 1
  /\ Resting(p) /\ Settle(job[p].task, IF job[p].bad = {} THEN "completed" ELSE "failed")
  /\ UNCHANGED <<file, arts, answer, made, bounded>>

SendEnds(p) ==
  /\ Through(p) /\ job[p].how = "send" /\ Resting(p)
  /\ UNCHANGED <<file, arts, row, answer, made, bounded>>

(***************************************************************************)
(* What begins a job                                                       *)
(***************************************************************************)
Begin(p, how, pc, t) == job' = [job EXCEPT ![p] = [Rest EXCEPT !.how = how, !.pc = pc, !.task = t]]
Started == job["worker"].how \notin {"startup", "recovered"}
NextUp(t) == Idle("worker") /\ row[t] = "pending"
             /\ \A u \in Tasks : row[u] # "processing" /\ (row[u] = "pending" => t <= u)

TurnBegins(t) ==
  /\ NextUp(t) /\ Settle(t, "processing") /\ Begin("worker", "turn", "turn", t)
  /\ answer' = [answer EXCEPT ![t] = NoAnswer] /\ made' = [made EXCEPT ![t] = {}]
  /\ UNCHANGED <<file, arts, bounded>>

\* The row stays pending while the image is made.
PictureBegins(t) ==
  /\ NextUp(t) /\ t \in Pictures /\ Begin("worker", "direct", "generate", t)
  /\ made' = [made EXCEPT ![t] = {}]
  /\ UNCHANGED <<file, arts, row, answer, bounded>>

TerminalBegins ==
  /\ "terminal" \in Senders /\ Idle("terminal") /\ Started /\ Op
  /\ Begin("terminal", "terminal", "turn", 0)
  /\ UNCHANGED <<file, arts, row, answer, made>>

ImageCommand ==
  /\ "chat" \in Senders /\ Idle("chat") /\ Started /\ Op /\ Begin("chat", "direct", "generate", 0)
  /\ UNCHANGED <<file, arts, row, answer, made>>

SendCommand(path) ==
  /\ "ctl" \in Senders /\ Idle("ctl") /\ file[path] > 0 /\ Op
  /\ job' = [job EXCEPT !["ctl"] = [Rest EXCEPT !.how = "send", !.pc = "stage", !.want = Ask({path}, 1)]]
  /\ UNCHANGED <<file, arts, row, answer, made>>

Working == \E p \in Procs : At(p, "turn")

\* Codex writes a file of the working directory.
Writes(path) ==
  /\ Working
  /\ writes < MaxWrites /\ writes' = writes + 1 /\ UNCHANGED <<ops, faults, crashes>>
  /\ file' = [file EXCEPT ![path] = @ + 1]
  /\ answer' = [t \in Tasks |->
       IF row[t] = "processing" THEN [answer[t] EXCEPT !.since = @ \cup {path}] ELSE answer[t]]
  /\ job' = [p \in Procs |->
       IF job[p].how = "terminal" THEN [job[p] EXCEPT !.since = @ \cup {path}] ELSE job[p]]
  /\ UNCHANGED <<arts, row, made>>

\* A tool of the media server puts an image or speech into the store.
ToolMakes(kind) ==
  /\ Working /\ Op /\ arts' = Append(arts, Artifact(kind, None, "mcp"))
  /\ UNCHANGED <<file, row, answer, job, made>>

\* The answer of a turn shows images (Markdown) and names files (a path with
\* words such as "saved" before it); an image may be shown and named at once.
\* A named file counts if it was written since the turn began.
Answers(t) ==
  /\ At("worker", "turn") /\ job["worker"].task = t
  /\ \E inline \in SUBSET {i \in Images : file[i] > 0}, named \in SUBSET {f \in Paths : file[f] > 0} :
       /\ answer' = [answer EXCEPT ![t] = [given |-> TRUE, inline |-> inline, named |-> named,
                                           since |-> @.since, seen |-> file]]
       /\ job' = [job EXCEPT !["worker"].pc = "stage",
            !["worker"].want = Ask(inline, 1) \cup Ask(named \cap Images \cap answer[t].since, 2)]
  /\ UNCHANGED <<file, arts, row, made, bounded>>

TerminalAnswers ==
  /\ "terminal" \in Senders /\ At("terminal", "turn")
  /\ \E named \in SUBSET {f \in Paths : file[f] > 0} :
       job' = [job EXCEPT !["terminal"].pc = "text", !["terminal"].named = named]
  /\ UNCHANGED <<file, arts, row, answer, made, bounded>>

\* reconcileInterruptedWork: the answer of the rollout is given again.  Named
\* images would have to be newer than this moment, so only those shown are staged.
Recovers(t) ==
  /\ At("worker", "boot") /\ row[t] = "processing" /\ answer[t].given
  /\ job' = [job EXCEPT !["worker"] = [Rest EXCEPT !.how = "recovered", !.pc = "stage", !.task = t,
                                                   !.want = Ask(answer[t].inline, 1)]]
  /\ made' = [made EXCEPT ![t] = {}]
  /\ UNCHANGED <<file, arts, row, answer, bounded>>

\* Variant: the row gets a status the queue does not know.
AbandonsInterrupted(t) ==
  /\ At("worker", "boot") /\ row[t] = "processing" /\ Settle(t, "interrupted")
  /\ job' = [job EXCEPT !["worker"] = Startup]
  /\ UNCHANGED <<file, arts, answer, made, bounded>>

\* With no answer found, or no rollout to look in, it fails closed, or is done
\* again if nothing was begun.
Abandons(t) ==
  /\ At("worker", "boot") /\ row[t] = "processing"
  /\ \E s \in {"failed", "pending"} :
       Settle(t, s) /\ (s = "pending" => ~answer[t].given /\ answer[t].since = {})
  /\ job' = [job EXCEPT !["worker"] = Startup]
  /\ UNCHANGED <<file, arts, answer, made, bounded>>

\* The daemon dies and is started again: first the message it was at is settled,
\* then the backlog is sent, then the worker and the poll loop begin.
Crash ==
  /\ crashes < MaxCrashes /\ crashes' = crashes + 1
  /\ faults < MaxFaults /\ faults' = faults + 1
  /\ LET dead == Procs \ {"ctl"}
         unmarked == {Head(job[p].todo) : p \in {q \in dead : At(q, "mark")}}
         boot == IF \E t \in Tasks : row[t] = "processing" THEN [Startup EXCEPT !.pc = "boot"] ELSE Startup IN
       /\ arts' = [a \in Ids |-> [arts[a] EXCEPT !.shared = @ \/ a \in unmarked]]
       /\ job' = [p \in Procs |-> IF p = "ctl" THEN job[p] ELSE IF p = "worker" THEN boot ELSE Rest]
  /\ UNCHANGED <<file, row, answer, made, writes, ops>>

Stages(p)   == Reuses(p) \/ StartsCopy(p) \/ Copies(p) \/ CopyFails(p) \/ SweepsRecent(p) \/ SendBegins(p)
Delivers(p) == TextIsSent(p) \/ TextFails(p) \/ Arrives(p) \/ Marks(p) \/ ReplyIsLost(p) \/ FallsBack(p) \/ DeliveryFails(p)
Rounding(p) == AnswerIsOut(p) \/ GoesOn(p) \/ Finishes(p) \/ BreaksOff(p) \/ Speaks(p) \/ SpeechFails(p)
Directly(p) == Generates(p) \/ GenerationFails(p) \/ SaysGenerated(p) \/ SayingFails(p) \/ ReplyEnds(p) \/ SendEnds(p)
Step(p)     == Stages(p) \/ Delivers(p) \/ Rounding(p) \/ Directly(p)
Takes(t)    == Answers(t) \/ TurnBegins(t) \/ PictureBegins(t) \/ Recovers(t) \/ Abandons(t)

Next ==
  \/ \E p \in Procs : Step(p)
  \/ \E t \in Tasks : Takes(t)
  \/ TerminalBegins \/ TerminalAnswers \/ ImageCommand \/ Crash
  \/ \E path \in Paths : Writes(path) \/ SendCommand(path)
  \/ \E kind \in ToolKinds : ToolMakes(kind)

Spec == Init /\ [][Next]_vars

(***************************************************************************)
(* Properties                                                              *)
(***************************************************************************)
TypeOK ==
  /\ file \in [Paths -> 0..MaxWrites]
  /\ arts \in Seq([kind : Kinds, path : Paths \cup {None}, source : {"automatic", "telegram", "mcp"},
                   ver : 0..MaxWrites, delivered : BOOLEAN, tries : Nat, quarantined : BOOLEAN,
                   got : Nat, known : BOOLEAN, dropped : BOOLEAN, shared : BOOLEAN])
  /\ row \in [Tasks -> {"pending", "processing", "completed", "failed"}]
  /\ answer \in [Tasks -> [given : BOOLEAN, inline : SUBSET Images, named : SUBSET Paths,
                          since : SUBSET Paths, seen : [Paths -> 0..MaxWrites]]]
  /\ job \in [Procs -> [how : {None, "turn", "recovered", "terminal", "direct", "send", "startup"},
                        pc : {"rest", "turn", "generate", "stage", "recent", "text", "files", "send", "mark", "speak",
                             "boot"},
                        task : Tasks \cup {0}, want : SUBSET Request,
                        held : [Branches -> Seq(Ids)], todo : Seq(Ids), round : 0..5,
                        second : BOOLEAN, bad : SUBSET (Ids \cup {0}), owed : SUBSET (Ids \cup {0}),
                        named : SUBSET Paths, since : SUBSET Paths]]
  /\ made \in [Tasks -> SUBSET Ids]

\* A message is recorded as completed only when every file staged or made for
\* its answer is in the chat, or its failure was told to whoever asked for it (or
\* a terminal run, which only logs, saw it fail for the last time beside it),
\* although the lists, the copies staged before and the counts of failures are
\* shared with all the other senders (processQueuedTask, reconcileInterruptedWork).
CompletedIsDelivered ==
  \A t \in Tasks : row[t] = "completed" =>
    \A a \in made[t] : arts[a].delivered \/ arts[a].known \/ arts[a].dropped

\* A file comes twice only if the answer of Telegram was lost, the daemon died
\* between sending and marking, or it was in two hands at once (or twice in the
\* answer): retries, second ways of sending and lists of the backlog do not send
\* it again by themselves.
DuplicatesHaveACause == \A a \in Ids : arts[a].got > 1 => arts[a].shared

\* docs/faq.md: what Codex saves and names is delivered back.  The copy that is
\* sent with an answer is not older than the file the answer is about.
CopyIsFresh ==
  \A t \in Tasks : row[t] = "completed" =>
    \A a \in made[t] : arts[a].path # None => arts[a].ver >= answer[t].seen[arts[a].path]
=============================================================================
