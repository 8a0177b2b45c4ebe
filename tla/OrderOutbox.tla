---------------------------- MODULE OrderOutbox ----------------------------
(***************************************************************************)
(* The outbox of the worker process: order_outbox on PostgreSQL, claimed   *)
(* one event at a time under a lease of 60 seconds                         *)
(* (repositories/worker_job_repository.py), delivered by                   *)
(* services/outbox_delivery_router.py to the analytics sink and settled    *)
(* when the sink has answered.                                             *)
(***************************************************************************)
EXTENDS Naturals

CONSTANTS
  Events,        \* order events
  Workers,
  MaxAttempts,   \* max_attempts, 5
  MaxClaims,     \* bound on the claims of one event
  Lapsing        \* TRUE: a lease can lapse while its worker is at work

ASSUME OrderOutboxAssumption ==
  /\ Events # {}
  /\ "nobody" \notin Workers
  /\ MaxAttempts \in Nat /\ MaxClaims \in Nat
  /\ Lapsing \in BOOLEAN

VARIABLES
  row,       \* order_outbox
  sink,      \* analytics_event_log
  worker     \* deliveries under way

orderOutboxVars == <<row, sink, worker>>

Workers0 == Workers \cup {"nobody"}
OutboxRow == [there : BOOLEAN, published : BOOLEAN, dead : BOOLEAN, ripe : BOOLEAN,
              attempts : 0..MaxClaims, lockedBy : Workers0]
Delivery == [pc : {"idle", "check", "insert", "published", "failed"},
             e : Events]

OrderOutboxTypeOK ==
  /\ row \in [Events -> OutboxRow]
  /\ sink \subseteq Events
  /\ worker \in [Workers -> Delivery]

NoDelivery == [pc |-> "idle", e |-> CHOOSE e \in Events : TRUE]

OrderOutboxInit ==
  /\ row = [e \in Events |-> [there |-> FALSE, published |-> FALSE, dead |-> FALSE,
                              ripe |-> TRUE, attempts |-> 0, lockedBy |-> "nobody"]]
  /\ sink = {}
  /\ worker = [w \in Workers |-> NoDelivery]

WorkerAt(w, pc) == worker[w].pc = pc
WorkerGoes(w, pc) == worker' = [worker EXCEPT ![w].pc = pc]
WorkerIdles(w) == worker' = [worker EXCEPT ![w] = NoDelivery]

\* An order is confirmed, completed or cancelled; its event is in the same transaction.
Emit(e) ==
  /\ ~row[e].there
  /\ row' = [row EXCEPT ![e].there = TRUE]
  /\ UNCHANGED <<sink, worker>>

\* Mutant of Claimable: the lease is not asked for.
ClaimableLocked(e) == row[e].there /\ ~row[e].published /\ ~row[e].dead /\ row[e].ripe

Claimable(e) ==
  /\ row[e].there /\ ~row[e].published /\ ~row[e].dead
  /\ row[e].ripe
  /\ row[e].lockedBy = "nobody"

\* claim_next_outbox takes the row with FOR UPDATE SKIP LOCKED.
Claim(w, e) ==
  /\ WorkerAt(w, "idle")
  /\ Claimable(e)
  /\ row[e].attempts < MaxClaims
  /\ row' = [row EXCEPT ![e].attempts = @ + 1, ![e].lockedBy = w]
  /\ worker' = [worker EXCEPT ![w] = [NoDelivery EXCEPT !.pc = "check", !.e = e]]
  /\ UNCHANGED sink

Backoff(e) == /\ ~row[e].ripe
              /\ row' = [row EXCEPT ![e].ripe = TRUE]
              /\ UNCHANGED <<sink, worker>>

LeaseLapses(e) ==
  /\ row[e].lockedBy # "nobody"
  /\ Lapsing \/ ~\E w \in Workers : ~WorkerAt(w, "idle") /\ worker[w].e = e
  /\ row' = [row EXCEPT ![e].lockedBy = "nobody"]
  /\ UNCHANGED <<sink, worker>>

\* The sink answers False for an event it has, and the router then looks for it
\* in the JSON file, which PostgresAnalyticsSink does not write.  Failures that
\* are not worth a retry (an event type or payload the router does not know) do
\* not happen to the events that orders emit.
SinkCheck(w) ==
  /\ WorkerAt(w, "check")
  /\ IF worker[w].e \in sink THEN WorkerGoes(w, "failed") ELSE WorkerGoes(w, "insert")
  /\ UNCHANGED <<row, sink>>

\* The INSERT commits, or raises: for the primary key or for any other reason.
SinkInsert(w) ==
  /\ WorkerAt(w, "insert")
  /\ \/ /\ worker[w].e \notin sink
        /\ sink' = sink \cup {worker[w].e}
        /\ WorkerGoes(w, "published")
     \/ UNCHANGED sink /\ WorkerGoes(w, "failed")
  /\ UNCHANGED row

MarkPublished(w) ==
  /\ WorkerAt(w, "published")
  /\ row' = [row EXCEPT ![worker[w].e] =
               IF @.published THEN @ ELSE [@ EXCEPT !.published = TRUE, !.lockedBy = "nobody"]]
  /\ WorkerIdles(w)
  /\ UNCHANGED sink

MarkFailed(w) ==
  LET e == worker[w].e
      final == row[e].attempts >= MaxAttempts IN
  /\ WorkerAt(w, "failed")
  /\ row' = [row EXCEPT ![e].dead = @ \/ final, ![e].ripe = final /\ @, ![e].lockedBy = "nobody"]
  /\ WorkerIdles(w)
  /\ UNCHANGED sink

WorkerDies(w) ==
  /\ ~WorkerAt(w, "idle")
  /\ WorkerIdles(w)
  /\ UNCHANGED <<row, sink>>

OrderOutboxNext ==
  \/ \E e \in Events : Emit(e) \/ Backoff(e) \/ LeaseLapses(e)
  \/ \E w \in Workers :
       \/ SinkCheck(w) \/ SinkInsert(w) \/ MarkPublished(w) \/ MarkFailed(w)
       \/ WorkerDies(w)
       \/ \E e \in Events : Claim(w, e)

OrderOutboxSpec == OrderOutboxInit /\ [][OrderOutboxNext]_orderOutboxVars

-----------------------------------------------------------------------------
\* As long as deliveries end within their lease, an event is settled one way:
\* published only after the sink has it, and never also dead-lettered, although
\* neither update of the row asks who holds it.
SettledOneWay ==
  \A e \in Events : row[e].published => e \in sink /\ ~row[e].dead

\* What services/outbox_delivery_router.py:108 says of a duplicate: an event
\* that the sink holds is acknowledged, so it is not dead-lettered.
DuplicateIsAcknowledged == \A e \in Events : row[e].dead => e \notin sink
=============================================================================
