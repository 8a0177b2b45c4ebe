--------------------------- MODULE PushCopyBatch ---------------------------
(***************************************************************************)
(* Push copy of the menu items of a store: batches that a worker job       *)
(* writes item by item (services/worker_handlers.py over                   *)
(* repositories/push_copy_batch_repository.py).  Every repository call is  *)
(* a transaction of its own.  What a copy says, and what staff save of the *)
(* same items meanwhile, is left out.                                      *)
(***************************************************************************)
EXTENDS Naturals, FiniteSets

CONSTANTS
  Items,        \* menu items
  Staff,        \* staff requests at a time
  MaxBatches,   \* bound on the batches
  MaxRuns,      \* bound on the deliveries of one job
  Overlap       \* TRUE: a job can be delivered again while it runs

ASSUME PushCopyAssumption ==
  /\ IsFiniteSet(Items)
  /\ MaxBatches \in Nat /\ MaxRuns \in Nat
  /\ Overlap \in BOOLEAN

VARIABLES
  batches,   \* push_copy_batches, oldest first
  request,   \* staff requests between two calls
  runs,      \* deliveries of the jobs under way
  delivered, \* number of deliveries by batch
  touched    \* history: items whose copy a batch wrote

pushCopyVars == <<batches, request, runs, delivered, touched>>

BatchIds == 1..MaxBatches
Counts == 0..(MaxRuns * Cardinality(Items))
Batch == [status : {"none", "pending", "running", "succeeded", "failed"}, items : SUBSET Items,
          succeeded : Counts, failed : Counts, job : {"none", "queued", "settled"}]
Run == [b : BatchIds, n : 1..MaxRuns, pc : {"mark", "item", "saved", "count", "succeeded", "failed", "report"},
        left : SUBSET Items]

PushCopyTypeOK ==
  /\ batches \in [BatchIds -> Batch]
  /\ request \in [Staff -> [pc : {"idle", "create", "enqueue"}, b : 0..MaxBatches, items : SUBSET Items]]
  /\ runs \subseteq Run
  /\ delivered \in [BatchIds -> 0..MaxRuns]
  /\ touched \in [BatchIds -> SUBSET Items]

NoBatch == [status |-> "none", items |-> {}, succeeded |-> 0, failed |-> 0, job |-> "none"]
NoStaffRequest == [pc |-> "idle", b |-> 0, items |-> {}]

PushCopyInit ==
  /\ batches = [b \in BatchIds |-> NoBatch]
  /\ request = [q \in Staff |-> NoStaffRequest]
  /\ runs = {}
  /\ delivered = [b \in BatchIds |-> 0]
  /\ touched = [b \in BatchIds |-> {}]

Made == {b \in BatchIds : batches[b].status # "none"}
Latest == Cardinality(Made)
Becomes(run, new) == runs' = (runs \ {run}) \cup new

\* start_batch is refused while the latest batch is pending or running; it
\* takes the items without a copy, or those of the menu that were asked for.
StartBatch(q, items) ==
  /\ request[q].pc = "idle"
  /\ Latest > 0 => batches[Latest].status \in {"succeeded", "failed"}
  /\ items # {} /\ items \subseteq Items
  /\ request' = [request EXCEPT ![q] = [NoStaffRequest EXCEPT !.pc = "create", !.items = items]]
  /\ UNCHANGED <<batches, runs, delivered, touched>>

CreateBatch(q) ==
  /\ request[q].pc = "create"
  /\ Latest < MaxBatches
  /\ batches' = [batches EXCEPT ![Latest + 1] = [NoBatch EXCEPT !.status = "pending",
                                                               !.items = request[q].items]]
  /\ request' = [request EXCEPT ![q].pc = "enqueue", ![q].b = Latest + 1]
  /\ UNCHANGED <<runs, delivered, touched>>

\* The queue is another transaction; when it fails the batch stays pending.
EnqueueBatch(q) ==
  /\ request[q].pc = "enqueue"
  /\ \/ batches' = [batches EXCEPT ![request[q].b].job = "queued"]
     \/ UNCHANGED batches
  /\ request' = [request EXCEPT ![q] = NoStaffRequest]
  /\ UNCHANGED <<runs, delivered, touched>>

\* A queued job is delivered, and again when its worker died or its lease
\* lapsed: claim_next_job does not ask for max_attempts.
Deliver(b) ==
  /\ batches[b].job = "queued"
  /\ delivered[b] < MaxRuns
  /\ Overlap \/ ~\E r \in runs : r.b = b
  /\ delivered' = [delivered EXCEPT ![b] = @ + 1]
  /\ runs' = runs \cup {[b |-> b, n |-> delivered[b] + 1, pc |-> "mark", left |-> batches[b].items]}
  /\ UNCHANGED <<batches, request, touched>>

MarkRunning(r) ==
  /\ r.pc = "mark"
  /\ batches' = [batches EXCEPT ![r.b].status = "running"]
  /\ Becomes(r, {[r EXCEPT !.pc = IF r.left = {} THEN "count" ELSE "item"]})
  /\ UNCHANGED <<request, delivered, touched>>

\* An item that left the menu, or whose draft fails, is counted and passed over.
ItemFails(r, i) ==
  /\ r.pc = "item" /\ i \in r.left
  /\ batches' = [batches EXCEPT ![r.b].failed = @ + 1]
  /\ Becomes(r, {[r EXCEPT !.left = @ \ {i}, !.pc = IF r.left = {i} THEN "count" ELSE "item"]})
  /\ UNCHANGED <<request, delivered, touched>>

SaveCopy(r, i) ==
  /\ r.pc = "item" /\ i \in r.left
  /\ touched' = [touched EXCEPT ![r.b] = @ \cup {i}]
  /\ Becomes(r, {[r EXCEPT !.left = @ \ {i}, !.pc = "saved"]})
  /\ UNCHANGED <<batches, request, delivered>>

CountSuccess(r) ==
  /\ r.pc = "saved"
  /\ batches' = [batches EXCEPT ![r.b].succeeded = @ + 1]
  /\ Becomes(r, {[r EXCEPT !.pc = IF r.left = {} THEN "count" ELSE "item"]})
  /\ UNCHANGED <<request, delivered, touched>>

\* Mutant of Outcome: a batch without a success may have succeeded.
OutcomeAny(batch) == "succeeded"

Outcome(batch) == IF batch.succeeded = 0 /\ batch.failed > 0 THEN "failed" ELSE "succeeded"

\* The counters are read back ..
ReadCounts(r) ==
  /\ r.pc = "count"
  /\ Becomes(r, {[r EXCEPT !.pc = Outcome(batches[r.b])]})
  /\ UNCHANGED <<batches, request, delivered, touched>>

\* .. and the outcome they gave is written in another transaction.
FinishBatch(r) ==
  /\ r.pc \in {"succeeded", "failed"}
  /\ batches' = [batches EXCEPT ![r.b].status = r.pc]
  /\ Becomes(r, {[r EXCEPT !.pc = "report"]})
  /\ UNCHANGED <<request, delivered, touched>>

\* The worker settles the job; settled jobs stay settled.
Report(r) ==
  /\ r.pc = "report"
  /\ batches' = [batches EXCEPT ![r.b].job = "settled"]
  /\ Becomes(r, {})
  /\ UNCHANGED <<request, delivered, touched>>

\* A statement raises: the job has one attempt and is dead-lettered.
RunRaises(r) ==
  /\ r.pc # "report"
  /\ batches' = [batches EXCEPT ![r.b].job = "settled"]
  /\ Becomes(r, {})
  /\ UNCHANGED <<request, delivered, touched>>

RunDies(r) ==
  /\ Becomes(r, {})
  /\ UNCHANGED <<batches, request, delivered, touched>>

PushCopyNext ==
  \/ \E q \in Staff :
       \/ \E s \in SUBSET Items : StartBatch(q, s)
       \/ CreateBatch(q) \/ EnqueueBatch(q)
  \/ \E b \in BatchIds : Deliver(b)
  \/ \E r \in runs :
       \/ MarkRunning(r) \/ CountSuccess(r) \/ ReadCounts(r) \/ FinishBatch(r)
       \/ Report(r) \/ RunRaises(r) \/ RunDies(r)
       \/ \E i \in Items : ItemFails(r, i) \/ SaveCopy(r, i)

PushCopySpec == PushCopyInit /\ [][PushCopyNext]_pushCopyVars

-----------------------------------------------------------------------------
\* However often the job was delivered, a batch that ended as succeeded wrote
\* at least one copy, and one that ended in any way has an account of every
\* item: it was counted, or a run that died had written it.
OutcomeIsEarned ==
  \A b \in BatchIds : LET x == batches[b] IN
    /\ x.status = "succeeded" => touched[b] # {}
    /\ x.status \in {"succeeded", "failed"} =>
         x.succeeded + x.failed >= Cardinality(x.items) /\ touched[b] \subseteq x.items
=============================================================================
