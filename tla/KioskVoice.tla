----------------------------- MODULE KioskVoice ------------------------------
(***************************************************************************)
(* The browser's side of a voice turn: frontend/kiosk/voice.js with the    *)
(* consumer of its stream (voiceTurnProtocol.js, shared/apiClient.js) and  *)
(* the draft it can end in (voiceOrderDraft.js), beside the payment screen *)
(* and the sessions of app.js.                                             *)
(*                                                                         *)
(* An action is what runs between two awaits.  The journal of the turn is  *)
(* the well-formed stream that VoiceTurn implements on SQLite; a response  *)
(* carries a part of it and can break after every line.                    *)
(***************************************************************************)
EXTENDS Naturals

CONSTANTS
  MaxCustomers,  \* bound on the ordering sessions, one after another
  MaxTurns,     \* bound on the voice turns
  MaxEvents,    \* bound on the events of a turn
  Reconnects,   \* replays that streamVoiceAssistantResponse asks for
  LeavesTurn    \* TRUE: the customer goes home while a turn is processed or has just ended

ASSUME KioskVoiceAssumption ==
  /\ {MaxCustomers, MaxTurns, Reconnects} \subseteq Nat
  /\ MaxEvents \in Nat \ {0}
  /\ LeavesTurn \in BOOLEAN

VARIABLES
  voiceSession, \* the session in front of the kiosk, numbered; 0 before the first
  page,         \* the start screen, the menu or the completion screen
  payment,      \* the payment screen is open
  turns,        \* voice turns so far
  turn,         \* activeVoiceTurn, 0 for none
  processing,   \* state.isVoiceProcessing
  mic,          \* voiceDetector, voiceListening, voiceSuspended, the wait to resume
  stream,       \* the run of submitVoiceSegment, its request and its protocol state
  journal,      \* voice_turn_events of the turn that is processed
  draft         \* the session whose order draft is pending, 0 for none

kioskVoice == <<voiceSession, page, payment, turns, turn, processing, mic, stream, journal, draft>>

KioskVoiceTypeOK ==
  /\ voiceSession \in 0..MaxCustomers
  /\ page \in {"start", "menu", "done"}
  /\ payment \in BOOLEAN /\ processing \in BOOLEAN
  /\ turns \in 0..MaxTurns
  /\ turn \in 0..turns
  /\ mic \in [detector : BOOLEAN, listening : BOOLEAN, suspended : BOOLEAN, resuming : BOOLEAN]
  /\ stream \in [at : {"off", "pausing", "post", "wait", "replay", "play"},
                 turn : 0..turns, session : 0..voiceSession, cursor : 1..MaxEvents + 1,
                 last : 0..MaxEvents, heard : 0..MaxEvents, terminal : BOOLEAN,
                 tries : 0..Reconnects, alarm : BOOLEAN, refused : BOOLEAN]
  /\ journal \in [length : 0..MaxEvents, ended : BOOLEAN]
  /\ draft \in 0..voiceSession

\* isKioskActive.
IsKioskActive == page = "menu"

NoMic == [detector |-> FALSE, listening |-> FALSE, suspended |-> FALSE, resuming |-> FALSE]
NoStream == [at |-> "off", turn |-> 0, session |-> 0, cursor |-> 1, last |-> 0, heard |-> 0,
             terminal |-> FALSE, tries |-> 0, alarm |-> FALSE, refused |-> FALSE]
NoJournal == [length |-> 0, ended |-> FALSE]

KioskVoiceInit ==
  /\ voiceSession = 0 /\ page = "start" /\ payment = FALSE
  /\ turns = 0 /\ turn = 0 /\ processing = FALSE
  /\ mic = NoMic /\ stream = NoStream /\ journal = NoJournal
  /\ draft = 0

-----------------------------------------------------------------------------
(* The microphone.                                                         *)

\* resetVoiceEmotionRound leaves processing, the request and the draft alone.
ResetRound ==
  /\ mic' = [NoMic EXCEPT !.resuming = mic.resuming]
  /\ turn' = 0

\* A session starts at the menu, whatever is left of the one before.
SessionBegins ==
  /\ page = "start"
  /\ voiceSession < MaxCustomers
  /\ voiceSession' = voiceSession + 1
  /\ page' = "menu"
  /\ ResetRound
  /\ UNCHANGED <<payment, turns, processing, stream, journal, draft>>

\* setupAskRecorder, at the start of a session; a model that cannot be loaded
\* changes nothing.
Setup ==
  /\ IsKioskActive /\ ~mic.detector
  /\ mic' = [mic EXCEPT !.detector = TRUE, !.listening = TRUE]
  /\ UNCHANGED <<voiceSession, page, payment, turns, turn, processing, stream, journal, draft>>

\* A pending draft is to be answered first.
Ask ==
  /\ IsKioskActive /\ ~payment
  /\ draft = 0
  /\ mic' = [mic EXCEPT !.suspended = FALSE, !.detector = TRUE,
                        !.listening = @ \/ ~mic.detector \/ ~processing]
  /\ UNCHANGED <<voiceSession, page, payment, turns, turn, processing, stream, journal, draft>>

SpeechStarts ==
  /\ mic.listening
  /\ ~processing /\ turn = 0
  /\ turns < MaxTurns
  /\ turns' = turns + 1
  /\ turn' = turns + 1
  /\ UNCHANGED <<voiceSession, page, payment, processing, mic, stream, journal, draft>>

Misfire ==
  /\ mic.listening
  /\ turn # 0
  /\ turn' = 0
  /\ UNCHANGED <<voiceSession, page, payment, turns, processing, mic, stream, journal, draft>>

SpeechEnds ==
  /\ mic.listening
  /\ ~processing /\ turn # 0
  /\ stream.at = "off"
  /\ stream' = [NoStream EXCEPT !.at = "pausing"]
  /\ UNCHANGED <<voiceSession, page, payment, turns, turn, processing, mic, journal, draft>>

\* The finally block of submitVoiceSegment; listening resumes after 400 ms.
FinishSegment ==
  /\ stream' = NoStream
  /\ journal' = NoJournal
  /\ turn' = 0
  /\ processing' = FALSE
  /\ mic' = [mic EXCEPT !.resuming = @ \/ (IsKioskActive /\ ~mic.suspended)]

\* Whether listening was suspended meanwhile is not asked again.
Resume ==
  /\ mic.resuming
  /\ mic' = [mic EXCEPT !.resuming = FALSE, !.listening = mic.detector]
  /\ UNCHANGED <<voiceSession, page, payment, turns, turn, processing, stream, journal, draft>>

-----------------------------------------------------------------------------
(* The request and its stream.                                             *)

\* The turn is read after the await: it can be gone, and the server then gives
\* the request an identity of its own.  A segment that is too short, and a
\* request that is refused or breaks before its first line, end the run.
Paused ==
  /\ stream.at = "pausing"
  /\ \/ /\ stream' = [stream EXCEPT !.at = "post", !.turn = turn, !.session = voiceSession]
        /\ journal' = [length |-> 1, ended |-> FALSE]
        /\ processing' = TRUE
        /\ mic' = [mic EXCEPT !.listening = FALSE]
        /\ UNCHANGED turn
     \/ /\ stream' = NoStream
        /\ processing' = FALSE
        /\ turn' = 0
        /\ mic' = [mic EXCEPT !.listening = FALSE,
                              !.resuming = @ \/ (IsKioskActive /\ ~mic.suspended)]
        /\ UNCHANGED journal
  /\ UNCHANGED <<voiceSession, page, payment, turns, draft>>

\* The run of the turn at the server.
JournalGrows ==
  /\ journal.length \in 1..MaxEvents - 1
  /\ ~journal.ended
  /\ \E ended \in {journal.length + 1 = MaxEvents, TRUE} :
       journal' = [length |-> journal.length + 1, ended |-> ended]
  /\ UNCHANGED <<voiceSession, page, payment, turns, turn, processing, mic, stream, draft>>

\* consumeVoiceTurnEvent: what it makes of the event number n.
IsDuplicate(n) == n <= stream.heard
IsViolation(n) ==
  \/ stream.turn = 0
  \/ /\ ~IsDuplicate(n)
     /\ \/ stream.heard = journal.length /\ journal.ended
        \/ n # stream.heard + 1

\* consumeLine: a post streams what there is, a replay waits for the end of the
\* turn.
LineArrives ==
  LET n == stream.cursor
  IN /\ stream.at = "post" \/ (stream.at = "replay" /\ journal.ended)
     /\ n <= journal.length
     /\ stream' = [stream EXCEPT
          !.cursor = n + 1, !.last = n,
          !.terminal = (n = journal.length /\ journal.ended),
          !.heard = IF stream.alarm \/ IsViolation(n) \/ IsDuplicate(n) THEN @ ELSE n,
          !.alarm = @ \/ IsViolation(n)]
     /\ UNCHANGED <<voiceSession, page, payment, turns, turn, processing, mic, journal, draft>>

\* The response is over, and with a terminal event so is the stream.
StreamEnds ==
  /\ stream.at \in {"post", "replay"}
  /\ stream.terminal
  /\ IF stream.alarm
     THEN FinishSegment
     ELSE /\ stream' = [stream EXCEPT !.at = "play"]
          /\ UNCHANGED <<journal, turn, processing, mic>>
  /\ UNCHANGED <<voiceSession, page, payment, turns, draft>>

\* A response without a terminal event: the connection breaks, or the last line
\* is an error of the server, which is no event of the turn.
ResponseBreaks ==
  /\ stream.at \in {"post", "replay"}
  /\ ~stream.terminal
  /\ IF \/ stream.at = "post" /\ (stream.last = 0 \/ stream.turn = 0)
        \/ stream.tries = Reconnects
     THEN FinishSegment
     ELSE /\ \E refused \in BOOLEAN :
               stream' = [stream EXCEPT !.at = "wait", !.alarm = @ \/ refused,
                                        !.refused = @ \/ refused]
          /\ UNCHANGED <<journal, turn, processing, mic>>
  /\ UNCHANGED <<voiceSession, page, payment, turns, draft>>

\* Mutant of ReplayFrom: a replay starts one event too late.
ReplayFromNext(sequence) == sequence + 2

\* The events after the sequence that the kiosk names.
ReplayFrom(sequence) == sequence + 1

Reconnect ==
  /\ stream.at = "wait"
  /\ stream' = [stream EXCEPT !.at = "replay", !.tries = @ + 1,
                              !.cursor = ReplayFrom(stream.last)]
  /\ UNCHANGED <<voiceSession, page, payment, turns, turn, processing, mic, journal, draft>>

\* After the playback: a turn that ends well can show an order draft, unless the
\* payment screen is open.
Played ==
  /\ stream.at = "play"
  /\ \/ ~payment /\ draft' = stream.session
     \/ UNCHANGED draft
  /\ FinishSegment
  /\ UNCHANGED <<voiceSession, page, payment, turns>>

\* The customer confirms or cancels the draft, or takes its last item away.
AnswerDraft ==
  /\ draft # 0
  /\ draft' = 0
  /\ UNCHANGED <<voiceSession, page, payment, turns, turn, processing, mic, stream, journal>>

-----------------------------------------------------------------------------
(* The screens.                                                            *)

CloseDraft == draft' = 0

\* cancelActiveVoiceTurn: the request goes on; speech that is cut off can still
\* be handed over by the pause of the detector.
CancelTurn ==
  /\ mic' = [mic EXCEPT !.suspended = TRUE, !.listening = FALSE]
  /\ turn' = 0
  /\ CloseDraft
  /\ \/ /\ mic.listening /\ turn # 0 /\ ~processing /\ stream.at = "off"
        /\ stream' = [NoStream EXCEPT !.at = "pausing"]
     \/ UNCHANGED stream

OpenPayment ==
  /\ IsKioskActive /\ ~payment
  /\ payment' = TRUE
  /\ CancelTurn
  /\ UNCHANGED <<voiceSession, page, turns, processing, journal>>

\* Back to the cart, or the order is cancelled.
ClosePayment ==
  /\ IsKioskActive /\ payment
  /\ payment' = FALSE
  /\ UNCHANGED <<voiceSession, page, turns, turn, processing, mic, stream, journal, draft>>

\* The completion screen.
CompleteOrder ==
  /\ payment
  /\ payment' = FALSE
  /\ page' = "done"
  /\ ResetRound
  /\ UNCHANGED <<voiceSession, turns, processing, stream, journal, draft>>

LeaveForHome ==
  /\ IsKioskActive /\ ~payment
  /\ LeavesTurn \/ (stream.at = "off" /\ ~mic.resuming)
  /\ page' = "start"
  /\ CancelTurn
  /\ UNCHANGED <<voiceSession, payment, turns, processing, journal>>

\* From the completion screen the page is loaded again.
PageLoads ==
  /\ page = "done"
  /\ page' = "start"
  /\ turn' = 0 /\ processing' = FALSE
  /\ mic' = NoMic /\ stream' = NoStream /\ journal' = NoJournal /\ draft' = 0
  /\ UNCHANGED <<voiceSession, payment, turns>>

KioskVoiceNext ==
  \/ SessionBegins \/ Setup \/ Ask \/ SpeechStarts \/ Misfire \/ SpeechEnds \/ Resume
  \/ Paused \/ JournalGrows \/ LineArrives \/ StreamEnds \/ ResponseBreaks \/ Reconnect
  \/ Played \/ AnswerDraft
  \/ OpenPayment \/ ClosePayment \/ CompleteOrder \/ LeaveForHome \/ PageLoads

KioskVoiceSpec == KioskVoiceInit /\ [][KioskVoiceNext]_kioskVoice

-----------------------------------------------------------------------------
(* Properties.                                                             *)

\* A draft that can be confirmed is of the customer at the kiosk, and never over
\* the payment screen, where it would change the cart that is paid for.
DraftIsInPlace == draft # 0 => ~payment /\ draft = voiceSession

\* A turn with an identity is not called a violation of the protocol, however
\* its responses break, unless the server sent an error.
NoFalseAlarm == stream.alarm => stream.turn = 0 \/ stream.refused

\* What is played and shown is a turn that was heard to its end.
ReplyIsWhole == stream.at = "play" => journal.ended /\ stream.heard = journal.length

\* The kiosk hears a turn as the server tells it.
TurnIsHeard == NoFalseAlarm /\ ReplyIsWhole

\* What the kiosk makes of a voice turn is right: it hears it as it was told, and
\* what becomes of it stays with the customer who spoke.
VoiceIsHeeded == TurnIsHeard /\ DraftIsInPlace

=============================================================================
