----------------------------- MODULE JobLedger -----------------------------
(* What the durable job queue promises to the code that enqueues: a job    *)
(* stays open until it has one outcome, and the outcome is never revised.  *)
CONSTANTS Jobs

VARIABLE outcome

Settled == {"succeeded", "dead_letter", "cancelled"}

LedgerTypeOK == outcome \in [Jobs -> {"absent", "open"} \cup Settled]

Init == outcome = [j \in Jobs |-> "absent"]

Open(j) ==
  /\ outcome[j] = "absent"
  /\ outcome' = [outcome EXCEPT ![j] = "open"]

Settle(j) ==
  /\ outcome[j] = "open"
  /\ \E r \in Settled : outcome' = [outcome EXCEPT ![j] = r]

Next == \E j \in Jobs : Open(j) \/ Settle(j)

Safety == Init /\ [][Next]_outcome

Spec ==
  /\ Safety
  /\ \A j \in Jobs : WF_outcome(Settle(j))

=============================================================================
