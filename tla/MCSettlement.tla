---------------------------- MODULE MCSettlement ----------------------------
(***************************************************************************)
(* What is taken up is settled: background jobs, OrderConfirmed events and *)
(* voice turns.  The three share no state; a behavior chooses one of them  *)
(* and takes the steps, and owes the fairness, of that one only.  Their    *)
(* properties come with their modules.                                     *)
(***************************************************************************)
EXTENDS WorkerJobs, CheckoutOutbox, VoiceTurn, TLC

VARIABLE active

allVars == <<active, vars, outboxVars, voiceTurnVars>>

SettlementInit ==
  active \in {"jobs", "events", "turns"} /\ Init /\ OutboxInit /\ VoiceTurnInit

Jobwise(A) == active = "jobs" /\ A /\ UNCHANGED <<active, outboxVars, voiceTurnVars>>
Eventwise(A) == active = "events" /\ A /\ UNCHANGED <<active, vars, voiceTurnVars>>
Turnwise(A) == active = "turns" /\ A /\ UNCHANGED <<active, vars, outboxVars>>

SettlementNext == Jobwise(Next) \/ Eventwise(OutboxNext) \/ Turnwise(VoiceTurnNext)

\* Fairness of WorkerJobs, OutboxFairness and VoiceTurnFairness.
SettlementFairness ==
  /\ \A w \in Workers : /\ WF_allVars(Jobwise(\E j \in Jobs : Claim(w, j)))
                        /\ WF_allVars(Jobwise(HandlerEnds(w)))
                        /\ WF_allVars(Jobwise(Report(w)))
  /\ \A j \in Jobs : /\ WF_allVars(Jobwise(BackoffElapses(j)))
                     /\ WF_allVars(Jobwise(LeaseLapses(j)))
  /\ WF_allVars(Eventwise(OtherOrder))
  /\ WF_allVars(Eventwise(\E d \in Dispatchers : Dispatch(d)))
  /\ \A d \in Dispatchers :
       WF_allVars(Eventwise(\/ Deliver(d) \/ Credit(d) \/ Unbind(d) \/ Attribute(d) \/ Ack(d)
                            \/ NackRetry(d) \/ NackDead(d) \/ Return(d)))
  /\ \A e \in Events : /\ WF_allVars(Eventwise(EventBackoffElapses(e)))
                       /\ WF_allVars(Eventwise(BatchLeaseLapses(e)))
  /\ \A w \in Runs : WF_allVars(Turnwise(Step(w)))

SettlementSpec == SettlementInit /\ [][SettlementNext]_allVars /\ SettlementFairness

-----------------------------------------------------------------------------
\* The types of the component that steps.
SettlementTypeOK ==
  CASE active = "jobs" -> TypeOK
    [] active = "events" -> OutboxTypeOK
    [] active = "turns" -> VoiceTurnTypeOK
=============================================================================
