----------------------------- MODULE VoiceTurn ------------------------------
(***************************************************************************)
(* The durable voice turn: VoiceTurnModule of modules/voice_turn over      *)
(* voice_turns and voice_turn_events, the tasks and replays that the       *)
(* routes start for it, and the row of voice_evidence_outbox it leaves.    *)
(*                                                                         *)
(* A run of a turn goes through transcription, assistant and synthesis;    *)
(* each calls a service, then commits one transition.  A transition reads  *)
(* the status (Check) and writes the row and its event (Write) in one      *)
(* transaction: SQLite's BEGIN IMMEDIATE locks from the read on (Locking), *)
(* PostgreSQL's READ COMMITTED does not, and the UPDATE has no condition   *)
(* on the status.  The kiosk posts a turn once and replays it afterwards.  *)
(***************************************************************************)
EXTENDS Naturals, Sequences

CONSTANTS
  Turns,      \* voice turn ids
  Texts,      \* what speech recognition and the assistant can answer
  Runs,       \* threads that can run a turn
  Nil,        \* no text, no turn, no outcome
  Attempts,   \* runs of a task: the range(3) of _run_to_terminal
  MaxVoiceFaults,   \* bound on crashes and failing statements
  Locking     \* TRUE: SQLite, FALSE: PostgreSQL

VARIABLES
  turn,     \* voice_turns
  journal,  \* voice_turn_events, in the order of sequence
  enqueued,   \* terminal_json.status of voice_evidence_outbox
  memory,   \* records of the turn in session_db
  run,      \* what each thread is doing, and its locals
  voiceFaults    \* crashes and failing statements so far

voiceTurnVars == <<turn, journal, enqueued, memory, run, voiceFaults>>

TerminalStatuses == {"completed", "transcription_failed", "assistant_failed", "playback_failed"}
Statuses == {"accepted", "transcribing", "assisting", "synthesizing"} \cup TerminalStatuses

\* The transitions that run asks the store for.
Legal ==
  { <<"accepted", "transcribing">>,
    <<"transcribing", "assisting">>,
    <<"transcribing", "transcription_failed">>,
    <<"assisting", "synthesizing">>,
    <<"assisting", "assistant_failed">>,
    <<"synthesizing", "completed">>,
    <<"synthesizing", "playback_failed">> }

\* Mutant of Expected: a late transcript is accepted while the assistant works.
ExpectedOrAssisting(target) ==
  {s \in Statuses : <<s, target>> \in Legal}
    \cup (IF target = "assisting" THEN {"assisting"} ELSE {})

Expected(target) == {s \in Statuses : <<s, target>> \in Legal}

TurnRow == [status : Statuses \cup {"absent", "gone"}, transcript : Texts \cup {Nil},
        reply : Texts \cup {Nil}]
Event == [status : Statuses, heard : Texts \cup {Nil}, said : Texts \cup {Nil}]
RunLabels == {"idle", "spawn", "get", "stt", "assist", "tts", "check", "write", "reread",
           "remember", "enqueue"}
Run == [pc : RunLabels, turn : Turns \cup {Nil}, task : BOOLEAN, left : 0..Attempts - 1,
        copy : TurnRow, target : Statuses, text : Texts \cup {Nil}]

\* Mutant of NoTurn: language and transcript start as NULL.
NoTurnNull == [status |-> "absent", transcript |-> "null", reply |-> Nil]

NoTurn == [status |-> "absent", transcript |-> Nil, reply |-> Nil]
Free == [pc |-> "idle", turn |-> Nil, task |-> FALSE, left |-> 0, copy |-> NoTurn,
         target |-> "accepted", text |-> Nil]

VoiceTurnTypeOK ==
  /\ turn \in [Turns -> TurnRow]
  /\ journal \in [Turns -> Seq(Event)]
  /\ enqueued \in [Turns -> TerminalStatuses \cup {Nil}]
  /\ memory \in [Turns -> Nat]
  /\ run \in [Runs -> Run]
  /\ voiceFaults \in Nat

VoiceTurnInit ==
  /\ turn = [t \in Turns |-> NoTurn]
  /\ journal = [t \in Turns |-> <<>>]
  /\ enqueued = [t \in Turns |-> Nil]
  /\ memory = [t \in Turns |-> 0]
  /\ run = [w \in Runs |-> Free]
  /\ voiceFaults = 0

RunsOf(t) == {w \in Runs : run[w].turn = t}
Ended(t) == turn[t].status \in TerminalStatuses \cup {"gone"}

Finish(w) == run' = [run EXCEPT ![w] = Free]
Goto(w, label) == run' = [run EXCEPT ![w] = [@ EXCEPT !.pc = label]]

-----------------------------------------------------------------------------
(* The routes.                                                             *)

\* The post accepts the turn; the task of the run is created afterwards, and
\* the kiosk does not replay the turn before it has read from the post.
Accept(w) ==
  /\ run[w] = Free
  /\ \E t \in Turns :
       /\ turn[t].status = "absent"
       /\ turn' = [turn EXCEPT ![t] = [@ EXCEPT !.status = "accepted"]]
       /\ journal' = [journal EXCEPT ![t] =
                        Append(@, [status |-> "accepted", heard |-> Nil, said |-> Nil])]
       /\ run' = [run EXCEPT ![w] = [Free EXCEPT !.pc = "spawn", !.turn = t, !.task = TRUE]]
  /\ UNCHANGED <<enqueued, memory, voiceFaults>>

Spawn(w) ==
  /\ run[w].pc = "spawn"
  /\ run' = [run EXCEPT ![w] = [@ EXCEPT !.pc = "get", !.left = Attempts - 1]]
  /\ UNCHANGED <<turn, journal, enqueued, memory, voiceFaults>>

\* A replay finds no task of the turn in running_turns and runs it itself,
\* with its retry budget exhausted.  Nothing tells it of other replays.
Replay(w, t) ==
  /\ run[w] = Free
  /\ turn[t].status \in Statuses
  /\ \A v \in RunsOf(t) : ~run[v].task
  /\ run' = [run EXCEPT ![w] = [Free EXCEPT !.pc = "get", !.turn = t]]
  /\ UNCHANGED <<turn, journal, enqueued, memory, voiceFaults>>

-----------------------------------------------------------------------------
(* A run.                                                                  *)

\* Where a run goes on with a row: nowhere once the turn has ended.
Stage(status) ==
  CASE status = "transcribing" -> "stt"
    [] status = "assisting"    -> "assist"
    [] status = "synthesizing" -> "tts"
    [] OTHER                   -> "idle"

\* run reads the turn and resumes it at its phase.
Get(w) ==
  /\ run[w].pc = "get"
  /\ LET row == turn[run[w].turn]
         Resumed(label) == [run EXCEPT ![w] =
                             [@ EXCEPT !.copy = row, !.pc = label, !.target = "transcribing"]]
     IN \/ row.status = "accepted" /\ run' = Resumed("check")
        \/ Stage(row.status) # "idle" /\ run' = Resumed(Stage(row.status))
        \/ row.status # "accepted" /\ Stage(row.status) = "idle" /\ Finish(w)
  /\ UNCHANGED <<turn, journal, enqueued, memory, voiceFaults>>

\* The transition a run asks for when its service has answered.
PhaseSucceeded(label) ==
  CASE label = "stt" -> "assisting" [] label = "assist" -> "synthesizing" [] OTHER -> "completed"

Failed(label) ==
  CASE label = "stt"    -> "transcription_failed"
    [] label = "assist" -> "assistant_failed"
    [] OTHER            -> "playback_failed"

Services == {"stt", "assist", "tts"}

\* Speech is transcribed, the assistant's draft is valid, or audio is made.
Answer(w) ==
  /\ run[w].pc \in Services
  /\ \E text \in IF run[w].pc = "tts" THEN {Nil} ELSE Texts :
       run' = [run EXCEPT ![w] =
                [@ EXCEPT !.pc = "check", !.target = PhaseSucceeded(run[w].pc), !.text = text]]
  /\ UNCHANGED <<turn, journal, enqueued, memory, voiceFaults>>

\* Mutant of Exhausted: the last attempt of a task is taken for one more retry.
ExhaustedNever(w) == ~run[w].task

Exhausted(w) == run[w].left = 0

\* A transient failure, or any failure of synthesis, ends the run as retryable:
\* the task runs the turn again.
RetryPhase(w) ==
  /\ run[w].pc \in Services
  /\ ~Exhausted(w)
  /\ IF run[w].left > 0
     THEN run' = [run EXCEPT ![w] = [@ EXCEPT !.pc = "get", !.left = run[w].left - 1]]
     ELSE Finish(w)
  /\ UNCHANGED <<turn, journal, enqueued, memory, voiceFaults>>

\* A final failure, or the last of the transient ones.  For synthesis the turn
\* is read again.
Fail(w) ==
  /\ run[w].pc \in Services
  /\ run[w].pc = "tts" => Exhausted(w)
  /\ run' = [run EXCEPT ![w] =
       [@ EXCEPT !.pc = "check", !.target = Failed(run[w].pc), !.text = Nil,
                 !.copy = IF run[w].pc = "tts" THEN turn[run[w].turn] ELSE run[w].copy]]
  /\ UNCHANGED <<turn, journal, enqueued, memory, voiceFaults>>

-----------------------------------------------------------------------------
(* A transition.                                                           *)

Unlocked == Locking => \A v \in Runs : run[v].pc # "write"

\* Mutant of Check: any status will do.
CheckAny(w) ==
  /\ run[w].pc = "check"
  /\ Unlocked
  /\ Goto(w, "write")
  /\ UNCHANGED <<turn, journal, enqueued, memory, voiceFaults>>

Check(w) ==
  /\ run[w].pc = "check"
  /\ Unlocked
  /\ turn[run[w].turn].status \in Expected(run[w].target)
  /\ Goto(w, "write")
  /\ UNCHANGED <<turn, journal, enqueued, memory, voiceFaults>>

\* invalid_voice_turn_transition is raised out of run, and ends its task too.
CheckRefused(w) ==
  /\ run[w].pc = "check"
  /\ Unlocked
  /\ turn[run[w].turn].status \notin Expected(run[w].target)
  /\ Finish(w)
  /\ UNCHANGED <<turn, journal, enqueued, memory, voiceFaults>>

\* What the event of a transition tells the kiosk.
EventOf(w) ==
  LET target == run[w].target
      final == target \in {"completed", "playback_failed"}
  IN [status |-> target,
      heard |-> IF target = "assisting" THEN run[w].text
                ELSE IF final THEN run[w].copy.transcript ELSE Nil,
      said |-> IF target = "synthesizing" THEN run[w].text
               ELSE IF final THEN run[w].copy.reply ELSE Nil]

\* Mutant of Updated: the transition to assisting has no updates.
UpdatedLate(row, target, text) ==
  [row EXCEPT !.status = target,
              !.reply = IF target = "synthesizing" THEN text ELSE row.reply]

Updated(row, target, text) ==
  [row EXCEPT !.status = target,
              !.transcript = IF target = "assisting" THEN text ELSE row.transcript,
              !.reply = IF target = "synthesizing" THEN text ELSE row.reply]

\* The row and the next event of the journal, whatever the row is by now.
Write(w) ==
  /\ run[w].pc = "write"
  /\ LET t == run[w].turn
     IN /\ turn' = [turn EXCEPT ![t] = Updated(turn[t], run[w].target, run[w].text)]
        /\ journal' = [journal EXCEPT ![t] = Append(@, EventOf(w))]
  /\ Goto(w, "reread")
  /\ UNCHANGED <<enqueued, memory, voiceFaults>>

\* The transition returns the row as another transaction reads it.
Reread(w) ==
  /\ run[w].pc = "reread"
  /\ LET row == turn[run[w].turn]
         label == CASE run[w].target = "transcribing" -> "stt"
                    [] run[w].target = "assisting"    -> Stage(row.status)
                    [] run[w].target = "synthesizing" -> "remember"
                    [] OTHER                          -> "enqueue"
     IN IF label = "idle"
        THEN Finish(w)
        ELSE run' = [run EXCEPT ![w] = [@ EXCEPT !.copy = row, !.pc = label]]
  /\ UNCHANGED <<turn, journal, enqueued, memory, voiceFaults>>

\* record_history, in the memory of the process.
Remember(w) ==
  /\ run[w].pc = "remember"
  /\ memory' = [memory EXCEPT ![run[w].turn] = @ + 1]
  /\ IF run[w].copy.status = "synthesizing" THEN Goto(w, "tts") ELSE Finish(w)
  /\ UNCHANGED <<turn, journal, enqueued, voiceFaults>>

\* The evidence of the turn as it was read back, unless there is one.
EnqueueEvidence(w) ==
  /\ run[w].pc = "enqueue"
  /\ LET t == run[w].turn
     IN enqueued' = IF enqueued[t] = Nil
                  THEN [enqueued EXCEPT ![t] = run[w].copy.status]
                  ELSE enqueued
  /\ Finish(w)
  /\ UNCHANGED <<turn, journal, memory, voiceFaults>>

-----------------------------------------------------------------------------
(* Faults and retention.                                                   *)

\* A statement fails or a post is cancelled: the exception ends the run, or is
\* swallowed by the last step it has.
RunRaises(w) ==
  /\ run[w].pc # "idle"
  /\ voiceFaults < MaxVoiceFaults
  /\ voiceFaults' = voiceFaults + 1
  /\ Finish(w)
  /\ UNCHANGED <<turn, journal, enqueued, memory>>

\* The process dies, with its runs and its memory of the sessions.
ServerDies ==
  /\ voiceFaults < MaxVoiceFaults
  /\ voiceFaults' = voiceFaults + 1
  /\ run' = [w \in Runs |-> Free]
  /\ memory' = [t \in Turns |-> 0]
  /\ UNCHANGED <<turn, journal, enqueued>>

\* cleanup_terminal_before: hours after its end a turn is deleted.
Expire(t) ==
  /\ turn[t].status \in TerminalStatuses
  /\ RunsOf(t) = {}
  /\ turn' = [turn EXCEPT ![t] = [NoTurn EXCEPT !.status = "gone"]]
  /\ journal' = [journal EXCEPT ![t] = <<>>]
  /\ UNCHANGED <<enqueued, memory, run, voiceFaults>>

Step(w) ==
  \/ Spawn(w) \/ Get(w) \/ Answer(w) \/ RetryPhase(w) \/ Fail(w)
  \/ Check(w) \/ CheckRefused(w) \/ Write(w) \/ Reread(w) \/ Remember(w) \/ EnqueueEvidence(w)

VoiceTurnNext ==
  \/ \E w \in Runs : Accept(w) \/ Step(w) \/ RunRaises(w) \/ \E t \in Turns : Replay(w, t)
  \/ \E t \in Turns : Expire(t)
  \/ ServerDies

VoiceTurnSpec == VoiceTurnInit /\ [][VoiceTurnNext]_voiceTurnVars

\* Threads are scheduled and services answer or time out.  Nobody has to post a
\* turn, or to replay one.
VoiceTurnFairness == \A w \in Runs : WF_voiceTurnVars(Step(w))

VoiceTurnFairSpec == VoiceTurnSpec /\ VoiceTurnFairness

-----------------------------------------------------------------------------
(* Properties.                                                             *)

Last(s) == s[Len(s)]

\* A turn has at most one terminal event, and it is the last one.
OneTerminalEvent ==
  \A t \in Turns : \A i \in DOMAIN journal[t] :
    journal[t][i].status \in TerminalStatuses => i = Len(journal[t])

\* What the kiosk read in the journal is what the row says: every phase once,
\* in order, the last one that of the row, with its transcript and reply.
JournalTellsTurn ==
  \A t \in Turns :
    /\ journal[t] # <<>> => Last(journal[t]).status = turn[t].status
    /\ \A i \in 2..Len(journal[t]) :
         <<journal[t][i - 1].status, journal[t][i].status>> \in Legal
    /\ \A i \in DOMAIN journal[t] :
         /\ journal[t][i].heard \in {Nil, turn[t].transcript}
         /\ journal[t][i].said \in {Nil, turn[t].reply}
         /\ journal[t][i].status = "completed" => Nil \notin {journal[t][i].heard, journal[t][i].said}

\* Evidence is enqueued for turns that have ended, and tells how they ended.
EvidenceTellsOutcome ==
  \A t \in Turns : enqueued[t] # Nil => turn[t].status \in {enqueued[t], "gone"}

\* A turn is in the memory of its session at most once, with the reply that was
\* committed.
RememberedOnce ==
  \A t \in Turns : memory[t] > 0 => memory[t] = 1 /\ (turn[t].reply # Nil \/ turn[t].status = "gone")

\* The kiosk, the evidence and the memory of the session are told the same.
TurnIsTold == JournalTellsTurn /\ EvidenceTellsOutcome /\ RememberedOnce

\* The work of a phase that was committed is not replaced by a run that did it
\* again.
PhaseWorkIsKept ==
  [][\A t \in Turns : turn'[t].status # "gone" =>
       /\ turn[t].transcript # Nil => turn'[t].transcript = turn[t].transcript
       /\ turn[t].reply # Nil => turn'[t].reply = turn[t].reply]_voiceTurnVars

\* The journal is a stream the kiosk can follow.
Stream == INSTANCE TurnStream WITH
            Events <- Event,
            Ends <- {e \in Event : e.status \in TerminalStatuses},
            stream <- journal
ImplementsStream == Stream!Spec

\* When a run reads a turn the turn ends, by this run or by one it races with,
\* however they refuse one another and retry, unless a fault strikes later on.
\* After a crash the first replay is such a run.
RunTurnEnds ==
  \A t \in Turns : \A n \in 0..MaxVoiceFaults :
    ((\E w \in RunsOf(t) : run[w].pc = "get") /\ voiceFaults = n) ~> (Ended(t) \/ voiceFaults > n)

=============================================================================
