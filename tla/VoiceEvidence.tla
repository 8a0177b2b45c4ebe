--------------------------- MODULE VoiceEvidence ---------------------------
(***************************************************************************)
(* From ended voice turns to evidence: modules/voice_evidence and what     *)
(* bootstrap/startup.py runs of it.  Every process that starts enqueues    *)
(* the retained turns once more, as long as that was never completed, and  *)
(* then claims the pending events, all at once, and projects them one by   *)
(* one; nothing else ever projects.                                        *)
(***************************************************************************)
EXTENDS Naturals

CONSTANTS
  Turns,         \* voice turns
  Processes,     \* processes that start, die and start again
  ProjectionAttempts,   \* 5 in mark_failed
  MaxFaults,     \* bound on failing statements and dying processes
  Immediate      \* TRUE on SQLite: a transaction locks before its first read

ASSUME VoiceEvidenceAssumption ==
  /\ ProjectionAttempts \in Nat /\ MaxFaults \in Nat
  /\ Immediate \in BOOLEAN

VARIABLES
  turn,       \* voice_turns: running, ended, told to the outbox, or deleted
  event,      \* voice_evidence_outbox by turn
  evidence,   \* turns in voice_evidence
  backfill,   \* status of voice_evidence_backfill_runs
  proc,       \* startup of the processes
  early,      \* history: turns retained when a backfill first looked
  evFaults

evidenceVars == <<turn, event, evidence, backfill, proc, early, evFaults>>

Row == [status : {"none", "pending", "processing", "projected", "failed"}, attempts : Nat]
Proc == [pc : {"off", "begin", "enqueue", "claim", "claiming", "project", "mark", "fail", "up"},
         todo : SUBSET Turns]

VoiceEvidenceTypeOK ==
  /\ turn \in [Turns -> {"running", "ended", "told", "deleted"}]
  /\ event \in [Turns -> Row]
  /\ evidence \subseteq Turns
  /\ backfill \in {"none", "running", "completed"}
  /\ proc \in [Processes -> Proc]
  /\ early \subseteq Turns
  /\ evFaults \in 0..MaxFaults

Off == [pc |-> "off", todo |-> {}]

VoiceEvidenceInit ==
  /\ turn = [t \in Turns |-> "running"]
  /\ event = [t \in Turns |-> [status |-> "none", attempts |-> 0]]
  /\ evidence = {}
  /\ backfill = "none"
  /\ proc = [p \in Processes |-> Off]
  /\ early = {}
  /\ evFaults = 0

Retained == {t \in Turns : turn[t] \in {"ended", "told"}}
Enqueued == {t \in Turns : event[t].status # "none"}
ProcAt(p, pc) == proc[p].pc = pc
ProcGoes(p, pc, todo) == proc' = [proc EXCEPT ![p] = [pc |-> pc, todo |-> todo]]
Faulty == evFaults < MaxFaults /\ evFaults' = evFaults + 1
\* ON CONFLICT (tenant_id, store_id, voice_turn_id) DO NOTHING
Inserted(t) == IF t \in Enqueued THEN event ELSE [event EXCEPT ![t].status = "pending"]

EndTurn(t) ==
  /\ turn[t] = "running"
  /\ turn' = [turn EXCEPT ![t] = "ended"]
  /\ UNCHANGED <<event, evidence, backfill, proc, early, evFaults>>

\* Enqueueing follows the terminal commit; its failure is logged.
EnqueueTerminal(t) ==
  /\ turn[t] = "ended"
  /\ turn' = [turn EXCEPT ![t] = "told"]
  /\ \/ event' = Inserted(t) /\ UNCHANGED evFaults
     \/ Faulty /\ UNCHANGED event
  /\ UNCHANGED <<evidence, backfill, proc, early>>

CleanUpTurn(t) ==
  /\ turn[t] = "told"
  /\ turn' = [turn EXCEPT ![t] = "deleted"]
  /\ UNCHANGED <<event, evidence, backfill, proc, early, evFaults>>

\* The turns are read before the backfill is begun.
StartProcess(p) ==
  /\ ProcAt(p, "off")
  /\ ProcGoes(p, "begin", Retained)
  /\ early' = IF backfill = "none" /\ \A q \in Processes : ProcAt(q, "off")
              THEN early \cup Retained ELSE early
  /\ UNCHANGED <<turn, event, evidence, backfill, evFaults>>

\* Only a completed run blocks another.
BeginBackfill(p) ==
  /\ ProcAt(p, "begin")
  /\ IF backfill = "completed"
       THEN ProcGoes(p, "claim", {}) /\ UNCHANGED backfill
       ELSE ProcGoes(p, "enqueue", proc[p].todo) /\ backfill' = "running"
  /\ UNCHANGED <<turn, event, evidence, early, evFaults>>

BackfillTurn(p, t) ==
  /\ ProcAt(p, "enqueue")
  /\ t \in proc[p].todo
  /\ event' = Inserted(t)
  /\ ProcGoes(p, "enqueue", proc[p].todo \ {t})
  /\ UNCHANGED <<turn, evidence, backfill, early, evFaults>>

MayComplete(p) == proc[p].todo = {}

CompleteBackfill(p) ==
  /\ ProcAt(p, "enqueue")
  /\ MayComplete(p)
  /\ backfill' = "completed"
  /\ ProcGoes(p, "claim", {})
  /\ UNCHANGED <<turn, event, evidence, early, evFaults>>

\* Startup goes on with the projection when the backfill raises.
BackfillRaises(p) ==
  /\ proc[p].pc \in {"begin", "enqueue"}
  /\ Faulty
  /\ ProcGoes(p, "claim", {})
  /\ UNCHANGED <<turn, event, evidence, backfill, early>>

ClaimRead(p) ==
  /\ ProcAt(p, "claim")
  /\ Immediate => \A q \in Processes : ~ProcAt(q, "claiming")
  /\ ProcGoes(p, "claiming", {t \in Turns : event[t].status = "pending"})
  /\ UNCHANGED <<turn, event, evidence, backfill, early, evFaults>>

ClaimWrite(p) ==
  /\ ProcAt(p, "claiming")
  /\ event' = [t \in Turns |-> IF t \in proc[p].todo
                               THEN [status |-> "processing", attempts |-> event[t].attempts + 1]
                               ELSE event[t]]
  /\ ProcGoes(p, "project", proc[p].todo)
  /\ UNCHANGED <<turn, evidence, backfill, early, evFaults>>

\* The event a process is at; the rest of its batch waits.
At1(p) == CHOOSE t \in proc[p].todo : TRUE

\* project_terminal_turn creates the evidence unless it is there; its failure,
\* and that of mark_projected, is for mark_failed.
ProjectTurn(p) ==
  /\ ProcAt(p, "project")
  /\ IF proc[p].todo = {}
       THEN ProcGoes(p, "up", {}) /\ UNCHANGED <<evidence, evFaults>>
       ELSE \/ /\ evidence' = evidence \cup {At1(p)}
               /\ ProcGoes(p, "mark", proc[p].todo)
               /\ UNCHANGED evFaults
            \/ Faulty /\ ProcGoes(p, "fail", proc[p].todo) /\ UNCHANGED evidence
            \* without the lock both see no evidence and one INSERT is refused
            \/ /\ ~Immediate
               /\ At1(p) \in evidence
               /\ \E q \in Processes \ {p} : proc[q].pc \in {"project", "mark", "fail"}
               /\ ProcGoes(p, "fail", proc[p].todo)
               /\ UNCHANGED <<evidence, evFaults>>
  /\ UNCHANGED <<turn, event, backfill, early>>

MarkProjected(p) ==
  /\ ProcAt(p, "mark")
  /\ \/ /\ event' = [event EXCEPT ![At1(p)].status = "projected"]
        /\ ProcGoes(p, "project", proc[p].todo \ {At1(p)})
        /\ UNCHANGED evFaults
     \/ Faulty /\ ProcGoes(p, "fail", proc[p].todo) /\ UNCHANGED event
  /\ UNCHANGED <<turn, evidence, backfill, early>>

\* Mutant of Refused: an event that failed is done with.
RefusedDone(attempts) == "projected"

Refused(attempts) == IF attempts < ProjectionAttempts THEN "pending" ELSE "failed"

\* A failing mark_failed leaves the rest of the batch as it is.
MarkProjectionFailed(p) ==
  /\ ProcAt(p, "fail")
  /\ \/ /\ event' = [event EXCEPT ![At1(p)].status = Refused(event[At1(p)].attempts)]
        /\ ProcGoes(p, "project", proc[p].todo \ {At1(p)})
        /\ UNCHANGED evFaults
     \/ Faulty /\ ProcGoes(p, "up", {}) /\ UNCHANGED event
  /\ UNCHANGED <<turn, evidence, backfill, early>>

StopProcess(p) ==
  /\ proc[p].pc # "off"
  /\ IF ProcAt(p, "up") THEN UNCHANGED evFaults ELSE Faulty
  /\ ProcGoes(p, "off", {})
  /\ UNCHANGED <<turn, event, evidence, backfill, early>>

VoiceEvidenceNext ==
  \/ \E t \in Turns : EndTurn(t) \/ EnqueueTerminal(t) \/ CleanUpTurn(t)
  \/ \E p \in Processes :
       \/ StartProcess(p) \/ BeginBackfill(p) \/ CompleteBackfill(p) \/ BackfillRaises(p)
       \/ ClaimRead(p) \/ ClaimWrite(p) \/ ProjectTurn(p) \/ MarkProjected(p)
       \/ MarkProjectionFailed(p) \/ StopProcess(p)
       \/ \E t \in Turns : BackfillTurn(p, t)

VoiceEvidenceSpec == VoiceEvidenceInit /\ [][VoiceEvidenceNext]_evidenceVars

\* What reconciliation answers for a window with all turns in it.
Reconciliation ==
  LET with(s) == {t \in Turns : event[t].status \in s} IN
  IF evidence \cup with({"pending", "processing", "failed"}) = {} THEN "true_zero"
  ELSE IF with({"pending", "processing"}) # {} THEN "awaiting_projection"
  ELSE IF with({"failed"}) # {} THEN "permanent_projection_failure"
  ELSE "ready"

-----------------------------------------------------------------------------
\* When the reconciliation calls the evidence ready, or says there is none,
\* every turn that was ever enqueued is evidence: no event is settled without,
\* and none that a dead process left behind is forgotten.
ReadyIsComplete ==
  Reconciliation \in {"ready", "true_zero"} => Enqueued \subseteq evidence

\* The one-shot backfill is not used up without its effect: once it is
\* completed, each turn that was there when it was first begun is enqueued, or
\* was deleted before a process came round to it, whatever processes died or
\* overlapped meanwhile.
BackfillIsComplete ==
  backfill = "completed" => \A t \in early : t \in Enqueued \/ turn[t] = "deleted"

\* What is called ready or completed is complete.
EvidenceIsComplete == ReadyIsComplete /\ BackfillIsComplete
=============================================================================
