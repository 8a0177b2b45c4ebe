----------------------------- MODULE WorkerJobs -----------------------------
(***************************************************************************)
(* The durable background jobs: modules/operations/_worker.py on top of    *)
(* repositories/worker_job_repository.py (PostgreSQL) or InMemoryJobStore. *)
(* Every store operation is one transaction or runs under one lock, so it  *)
(* is one action; a worker runs claim, handler and report one after the    *)
(* other and may die between them.                                         *)
(*                                                                         *)
(* Time is kept as what the stores ask of it: ready is available_at <= now *)
(* and lease is locked_until NULL, in the future or in the past.  The jobs *)
(* in Timely have handlers that end within the visibility timeout.         *)
(***************************************************************************)
EXTENDS Naturals, FiniteSets

CONSTANTS
  Jobs,         \* jobs, named by (tenant_id, job_type, idempotency_key)
  Workers,      \* worker processes
  None,         \* no job
  MaxAttempts,  \* background_jobs.max_attempts
  MaxCrashes,   \* bound on the worker crashes
  Timely,       \* jobs whose handlers end before their lease does
  Cancellable   \* jobs that operators may cancel

ASSUME WorkerJobsAssumption ==
  /\ None \notin Jobs
  /\ MaxAttempts \in Nat \ {0}
  /\ MaxCrashes \in Nat
  /\ Timely \subseteq Jobs
  /\ Cancellable \subseteq Jobs
  /\ IsFiniteSet(Workers)

VARIABLES
  jobs,      \* background_jobs
  worker,    \* what each worker process is doing
  crashes,   \* number of crashes so far
  handled,   \* history: jobs whose handler reported a side effect
  fatal,     \* history: jobs that had a report which is not retryable
  retries    \* history: how often a job was put back after a failure

vars == <<jobs, worker, crashes, handled, fatal, retries>>

Terminal == {"succeeded", "dead_letter", "cancelled"}
JobStatus == {"absent", "pending", "running", "failed"} \cup Terminal
JobRow == [status : JobStatus, attempts : Nat, ready : BOOLEAN,
           lease : {"none", "held", "lapsed"}]
Results == {"success", "no_effect", "retryable", "fatal"}
WorkerState == [pc : {"idle", "handling", "reporting"}, job : Jobs \cup {None},
                result : Results]

TypeOK ==
  /\ jobs \in [Jobs -> JobRow]
  /\ worker \in [Workers -> WorkerState]
  /\ crashes \in Nat
  /\ handled \subseteq Jobs
  /\ fatal \subseteq Jobs
  /\ retries \in [Jobs -> Nat]

NoJob == [status |-> "absent", attempts |-> 0, ready |-> FALSE, lease |-> "none"]
Idle == [pc |-> "idle", job |-> None, result |-> "fatal"]

Init ==
  /\ jobs = [j \in Jobs |-> NoJob]
  /\ worker = [w \in Workers |-> Idle]
  /\ crashes = 0
  /\ handled = {}
  /\ fatal = {}
  /\ retries = [j \in Jobs |-> 0]

RunnersOf(j) == {w \in Workers : worker[w].pc # "idle" /\ worker[w].job = j}

-----------------------------------------------------------------------------
(* Enqueue, cancel, claim.                                                 *)

\* INSERT ... ON CONFLICT DO NOTHING: only the first enqueue writes.
Enqueue(j) ==
  /\ jobs[j].status = "absent"
  /\ jobs' = [jobs EXCEPT ![j] = [NoJob EXCEPT !.status = "pending", !.ready = TRUE]]
  /\ UNCHANGED <<worker, crashes, handled, fatal, retries>>

Cancel(j) ==
  /\ j \in Cancellable
  /\ jobs[j].status \notin Terminal \cup {"absent"}
  /\ jobs' = [jobs EXCEPT ![j] = [@ EXCEPT !.status = "cancelled", !.lease = "none"]]
  /\ UNCHANGED <<worker, crashes, handled, fatal, retries>>

\* Mutant of Claimable: the visibility timeout is not consulted.
ClaimableIgnoringLease(j) ==
  /\ jobs[j].status \in {"pending", "running", "failed"}
  /\ jobs[j].ready

\* Mutant of Claimable: only pending jobs are looked at, as if a crash of the
\* worker could not leave a job running.
ClaimablePendingOnly(j) ==
  /\ jobs[j].status = "pending"
  /\ jobs[j].ready
  /\ jobs[j].lease # "held"

Claimable(j) ==
  /\ jobs[j].status \in {"pending", "running", "failed"}
  /\ jobs[j].ready
  /\ jobs[j].lease # "held"

\* SELECT ... FOR UPDATE SKIP LOCKED passes over rows that another transaction
\* holds, so any claimable job can be the one that is taken.
Claim(w, j) ==
  /\ worker[w].pc = "idle"
  /\ Claimable(j)
  /\ jobs' = [jobs EXCEPT ![j] = [@ EXCEPT !.status = "running", !.lease = "held",
                                           !.attempts = jobs[j].attempts + 1]]
  /\ worker' = [worker EXCEPT ![w] = [Idle EXCEPT !.pc = "handling", !.job = j]]
  /\ UNCHANGED <<crashes, handled, fatal, retries>>

-----------------------------------------------------------------------------
(* The handler and the report of its result.                               *)

\* The handler returns, or raises, which process_one_job takes as retryable.
HandlerEnds(w) ==
  /\ worker[w].pc = "handling"
  /\ \E r \in Results :
       /\ worker' = [worker EXCEPT ![w] = [@ EXCEPT !.pc = "reporting", !.result = r]]
       /\ handled' = IF r = "success" THEN handled \cup {worker[w].job} ELSE handled
  /\ UNCHANGED <<jobs, crashes, fatal, retries>>

Succeeded(r) == r = "success"

\* UPDATE ... SET status = 'succeeded' WHERE id: no condition on the row.
Complete(w) ==
  /\ worker[w].pc = "reporting"
  /\ Succeeded(worker[w].result)
  /\ jobs' = [jobs EXCEPT ![worker[w].job] =
                [@ EXCEPT !.status = "succeeded", !.lease = "none"]]
  /\ worker' = [worker EXCEPT ![w] = Idle]
  /\ UNCHANGED <<crashes, handled, fatal, retries>>

MayRetry(w) ==
  /\ worker[w].result = "retryable"
  /\ jobs[worker[w].job].attempts < MaxAttempts

Retry(w) ==
  /\ worker[w].pc = "reporting"
  /\ ~Succeeded(worker[w].result)
  /\ MayRetry(w)
  /\ jobs' = [jobs EXCEPT ![worker[w].job] =
                [@ EXCEPT !.status = "pending", !.lease = "none", !.ready = FALSE]]
  /\ worker' = [worker EXCEPT ![w] = Idle]
  /\ retries' = [retries EXCEPT ![worker[w].job] = @ + 1]
  /\ UNCHANGED <<crashes, handled, fatal>>

DeadLetter(w) ==
  /\ worker[w].pc = "reporting"
  /\ ~Succeeded(worker[w].result)
  /\ ~MayRetry(w)
  /\ jobs' = [jobs EXCEPT ![worker[w].job] =
                [@ EXCEPT !.status = "dead_letter", !.lease = "none"]]
  /\ worker' = [worker EXCEPT ![w] = Idle]
  /\ fatal' = IF worker[w].result = "retryable" THEN fatal ELSE fatal \cup {worker[w].job}
  /\ UNCHANGED <<crashes, handled, retries>>

\* The worker dies, in the handler or before the report is committed; the
\* container is restarted and polls again.
Crash(w) ==
  /\ worker[w].pc # "idle"
  /\ crashes < MaxCrashes
  /\ crashes' = crashes + 1
  /\ worker' = [worker EXCEPT ![w] = Idle]
  /\ UNCHANGED <<jobs, handled, fatal, retries>>

-----------------------------------------------------------------------------
(* Time.                                                                   *)

BackoffElapses(j) ==
  /\ jobs[j].status = "pending"
  /\ ~jobs[j].ready
  /\ jobs' = [jobs EXCEPT ![j] = [@ EXCEPT !.ready = TRUE]]
  /\ UNCHANGED <<worker, crashes, handled, fatal, retries>>

LeaseLapses(j) ==
  /\ jobs[j].lease = "held"
  /\ j \in Timely => RunnersOf(j) = {}
  /\ jobs' = [jobs EXCEPT ![j] = [@ EXCEPT !.lease = "lapsed"]]
  /\ UNCHANGED <<worker, crashes, handled, fatal, retries>>

Report(w) == Complete(w) \/ Retry(w) \/ DeadLetter(w)

Next ==
  \/ \E j \in Jobs : Enqueue(j) \/ Cancel(j) \/ BackoffElapses(j) \/ LeaseLapses(j)
  \/ \E w \in Workers, j \in Jobs : Claim(w, j)
  \/ \E w \in Workers : HandlerEnds(w) \/ Complete(w) \/ Retry(w) \/ DeadLetter(w)
                          \/ Crash(w)

Spec == Init /\ [][Next]_vars

\* run_worker.py polls for ever, handlers return, and time passes.  A worker
\* need not claim any particular job, only some claimable one.
Fairness ==
  /\ \A w \in Workers : /\ WF_vars(\E j \in Jobs : Claim(w, j))
                        /\ WF_vars(HandlerEnds(w))
                        /\ WF_vars(Report(w))
  /\ \A j \in Jobs : WF_vars(BackoffElapses(j)) /\ WF_vars(LeaseLapses(j))

FairSpec == Spec /\ Fairness

-----------------------------------------------------------------------------
(* Properties.                                                             *)

\* However late the reports of workers that lost their lease arrive, a job is
\* put back for another attempt fewer than max_attempts times.
RetriesAreBounded == \A j \in Jobs : retries[j] < MaxAttempts

\* A job is dead-lettered only if its attempts are used up or a handler said
\* that retrying is pointless.
DeadLettersAreEarned ==
  \A j \in Jobs : jobs[j].status = "dead_letter" =>
    jobs[j].attempts >= MaxAttempts \/ j \in fatal

\* A job that is cancelled while no worker runs it is never run again.
CancelledIdleStays ==
  [][\A j \in Jobs : (jobs[j].status = "cancelled" /\ RunnersOf(j) = {}) =>
       (jobs'[j].status = "cancelled" /\ RunnersOf(j)' = {})]_vars

\* No two workers run one job at the same time, if its handler is timely.
OneRunnerPerJob ==
  \A j \in Timely : \A v, w \in RunnersOf(j) : v = w

\* A success and a dead letter are final, if the handler is timely.
SettledIsFinal ==
  [][\A j \in Timely : jobs[j].status \in {"succeeded", "dead_letter"} =>
       jobs'[j].status = jobs[j].status]_vars

\* The queue implements the ledger of job outcomes for the jobs whose handlers
\* are timely and that nobody cancels: an enqueued one is settled once, in spite
\* of crashes and of what late handlers do to other jobs.
OutcomeOf(status) ==
  IF status \in {"pending", "running", "failed"} THEN "open" ELSE status
Orderly == Timely \ Cancellable
Ledger == INSTANCE JobLedger
            WITH Jobs <- Orderly, outcome <- [j \in Orderly |-> OutcomeOf(jobs[j].status)]
ImplementsLedger == Ledger!Spec
LedgerSafety == Ledger!Safety

\* Late handlers can revise an outcome, but only finitely often: in the end
\* every enqueued job has one.
EveryJobSettles ==
  \A j \in Jobs : (jobs[j].status # "absent") ~> [](jobs[j].status \in Terminal)

=============================================================================
