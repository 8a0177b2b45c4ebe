------------------------ MODULE KnowledgePublication ------------------------
(***************************************************************************)
(* The publication of one knowledge item: modules/knowledge_publication.   *)
(* An operation of the store is one transaction, and on SQLite, whose      *)
(* transactions exclude each other, one action; what request_publication,  *)
(* delete, run_attempt and the retention sweep do between two transactions *)
(* can be overtaken or cut short by a crash.  PostgresPublicationStore     *)
(* runs the same statements without a lock: there begin_batch and          *)
(* begin_retirement, which decide from what they read and then write       *)
(* without a condition, are two steps; the others stay whole, so that this *)
(* is a part of what PostgreSQL lets happen.                               *)
(*                                                                         *)
(* A version is published by one attempt, which later requests resume, so  *)
(* an attempt is named by its version.  The artifact of an attempt is the  *)
(* set of index documents kp:<attempt>:<chunk>: building it again writes   *)
(* the same documents, and docs says whose content they hold.              *)
(***************************************************************************)
EXTENDS Naturals, FiniteSets

CONSTANTS
  MaxVersion,   \* bound on the versions of the item
  Admins,       \* requests of operators
  Workers,      \* worker processes
  MaxClaims,    \* max_attempts of knowledge.publication.index
  MaxFaults,    \* bound on crashes and on failing services
  Timely,       \* TRUE: a job has one run at a time
  Lossy,        \* TRUE: enqueue can raise although the job is in the queue
  Prompt,       \* TRUE: nobody overtakes a retry, a failed enqueue or a sweep
  Torn,         \* TRUE: a sweep can stop between an artifact and its reference
  OnSqlite      \* TRUE: SQLite, whose transactions begin with BEGIN IMMEDIATE

ASSUME KnowledgePublicationAssumption ==
  /\ MaxVersion \in Nat \ {0}
  /\ MaxClaims \in Nat \ {0}
  /\ MaxFaults \in Nat
  /\ {Timely, Lossy, Prompt, Torn, OnSqlite} \subseteq BOOLEAN

VARIABLES
  rev,       \* knowledge_items.row_revision, 0 once the item is purged
  status,    \* knowledge_versions.status
  attempt,   \* publication_attempts
  pointer,   \* published_knowledge_pointers: the published version or 0
  retiring,  \* knowledge_retirement_cleanups
  docs,      \* the index: whose content the documents of an attempt
             \* hold, 0 when some are missing
  job,       \* background_jobs of knowledge.publication.index
  admin,     \* requests between two transactions
  run,       \* run_attempt between two transactions
  sweep,     \* cleanup_expired_artifacts between two transactions
  faults,    \* number of faults so far
  newest     \* history: the newest version that was ever published

tables == <<rev, status, attempt, pointer, retiring>>
vars == <<tables, docs, job, admin, run, sweep, faults, newest>>

Versions == 1..MaxVersion
Failed == {"index_failed", "publication_failed"}
Running == {"in_progress", "cleanup_pending"}
Phases == {"build", "swap", "cleanup", "complete"}

Attempt == [phase : Phases, status : Running \cup Failed \cup {"none", "published"},
            ref : BOOLEAN, made : 0..MaxVersion, old : 0..MaxVersion]
Admin == [pc : {"idle", "batch", "retry", "resume", "enqueue", "fail_enqueue", "retire",
                "clean", "complete", "purge"},
          v : 0..MaxVersion, rev : Nat, reuse : BOOLEAN, purge : BOOLEAN]
Run == [pc : {"idle", "read", "item", "build", "transient", "record", "swap",
              "fail_swap", "cleanup", "complete", "report"},
        v : 0..MaxVersion, stage : 0..2, content : 0..MaxVersion,
        last : BOOLEAN, again : BOOLEAN]

TypeOK ==
  /\ rev \in Nat
  /\ status \in [Versions -> Failed \cup {"none", "draft", "indexing", "published", "retired"}]
  /\ attempt \in [Versions -> Attempt]
  /\ pointer \in 0..MaxVersion
  /\ retiring \in [Versions -> {"none", "pending", "complete"}]
  /\ docs \in [Versions -> 0..MaxVersion]
  /\ job \in [Versions -> [status : {"absent", "open", "settled"}, claims : Nat]]
  /\ admin \in [Admins -> Admin]
  /\ run \in [Workers -> Run]
  /\ sweep \in [todo : SUBSET Versions, at : 0..MaxVersion]
  /\ faults \in 0..MaxFaults
  /\ newest \in 0..MaxVersion

\* Mutant of NoAttempt: an attempt starts with a status that no query knows.
NoAttemptNew == [phase |-> "build", status |-> "pending", ref |-> FALSE, made |-> 0, old |-> 0]

NoAttempt == [phase |-> "build", status |-> "none", ref |-> FALSE, made |-> 0, old |-> 0]
NoRequest == [pc |-> "idle", v |-> 0, rev |-> 0, reuse |-> FALSE, purge |-> FALSE]
NoRun == [pc |-> "idle", v |-> 0, stage |-> 0, content |-> 0, last |-> FALSE, again |-> FALSE]
NoSweep == [todo |-> {}, at |-> 0]

\* create_draft: an item with one draft.
Init ==
  /\ rev = 1
  /\ status = [v \in Versions |-> IF v = 1 THEN "draft" ELSE "none"]
  /\ attempt = [v \in Versions |-> NoAttempt]
  /\ pointer = 0
  /\ retiring = [v \in Versions |-> "none"]
  /\ docs = [v \in Versions |-> 0]
  /\ job = [v \in Versions |-> [status |-> "absent", claims |-> 0]]
  /\ admin = [r \in Admins |-> NoRequest]
  /\ run = [w \in Workers |-> NoRun]
  /\ sweep = NoSweep
  /\ faults = 0
  /\ newest = 0

Exists == rev > 0
Latest == CHOOSE v \in Versions :
            status[v] # "none" /\ \A u \in Versions : status[u] # "none" => u <= v
ActiveAttempt == \E v \in Versions : attempt[v].status \in Running
Fault == faults < MaxFaults /\ faults' = faults + 1

AdminAt(r, pc) == admin[r].pc = pc
AdminGoes(r, fields) == admin' = [admin EXCEPT ![r] = fields]
AdminEnds(r) == AdminGoes(r, NoRequest)

-----------------------------------------------------------------------------
(* Authoring and requests.                                                 *)

\* revise_draft with the revision the operator saw.  It does not ask whether
\* an older version is being indexed.  It is one step on PostgreSQL too: what
\* two requests read does not decide more than the number of the version, whose
\* primary key refuses the second of them.
Revise ==
  /\ Exists
  /\ Latest < MaxVersion
  /\ status' = [status EXCEPT ![Latest + 1] = "draft"]
  /\ rev' = rev + 1
  /\ UNCHANGED <<attempt, pointer, retiring, docs, job, admin, run, sweep, faults, newest>>

\* Mutant of BatchAccepts: an active attempt does not stop a batch.
BatchAcceptsAlways(v) == status[v] \in Failed \cup {"draft"}

BatchAccepts(v) ==
  /\ status[v] \in Failed \cup {"draft"}
  /\ ~ActiveAttempt

\* A draft gets an attempt.
BatchWrites(r, v) ==
  /\ status' = [status EXCEPT ![v] = "indexing"]
  /\ rev' = rev + 1
  /\ attempt' = [attempt EXCEPT ![v] = [NoAttempt EXCEPT !.status = "in_progress"]]
  /\ AdminGoes(r, [NoRequest EXCEPT !.pc = "enqueue", !.v = v])

\* begin_batch on the latest version: a draft gets an attempt, the attempt of
\* a failed version is to be resumed and stays as it is.  On PostgreSQL the
\* draft it read may be neither the latest nor a draft when it writes; the
\* unique index refuses a second active attempt and the foreign key a purged
\* version (that it may also write a second attempt of one version is left out).
RequestPublication(r) ==
  /\ \/ /\ AdminAt(r, "idle")
        /\ Exists
        /\ BatchAccepts(Latest)
        /\ IF status[Latest] = "draft" /\ OnSqlite THEN BatchWrites(r, Latest)
             ELSE /\ AdminGoes(r, [NoRequest EXCEPT !.v = Latest,
                           !.pc = IF status[Latest] = "draft" THEN "batch" ELSE "retry"])
                  /\ UNCHANGED <<status, rev, attempt>>
     \/ /\ AdminAt(r, "batch")
        /\ IF /\ status[admin[r].v] # "none"
              /\ ~ActiveAttempt
              /\ attempt[admin[r].v].status = "none"
             THEN BatchWrites(r, admin[r].v)
             ELSE AdminEnds(r) /\ UNCHANGED <<status, rev, attempt>>
  /\ UNCHANGED <<pointer, retiring, docs, job, run, sweep, faults, newest>>

\* is_compatible compares the checksum in the manifest with the latest version.
Reusable(v) ==
  /\ attempt[v].status = "publication_failed"
  /\ attempt[v].ref
  /\ attempt[v].made = Latest

RetryRead(r) ==
  /\ AdminAt(r, "retry")
  /\ IF attempt[admin[r].v].status \in Failed
       THEN AdminGoes(r, [admin[r] EXCEPT !.pc = "resume", !.reuse = Reusable(admin[r].v)])
       ELSE AdminEnds(r)
  /\ UNCHANGED <<tables, docs, job, run, sweep, faults, newest>>

\* resume_attempt; the unique index refuses a second active attempt.
Resume(r) ==
  /\ AdminAt(r, "resume")
  /\ LET v == admin[r].v IN
       IF attempt[v].status \in Failed /\ ~ActiveAttempt
         THEN /\ attempt' = [attempt EXCEPT ![v] =
                   IF admin[r].reuse
                     THEN [@ EXCEPT !.phase = "swap", !.status = "in_progress"]
                     ELSE [@ EXCEPT !.phase = "build", !.status = "in_progress",
                                    !.ref = FALSE, !.made = 0]]
              /\ status' = [status EXCEPT ![v] = "indexing"]
              /\ AdminGoes(r, [NoRequest EXCEPT !.pc = "enqueue", !.v = v])
         ELSE AdminEnds(r) /\ UNCHANGED <<attempt, status>>
  /\ UNCHANGED <<rev, pointer, retiring, docs, job, run, sweep, faults, newest>>

\* ensure_attempt_enqueued, the resume endpoint.
EnsureEnqueued(r, v) ==
  /\ AdminAt(r, "idle")
  /\ attempt[v].status = "in_progress"
  /\ AdminGoes(r, [NoRequest EXCEPT !.pc = "enqueue", !.v = v])
  /\ UNCHANGED <<tables, docs, job, run, sweep, faults, newest>>

InsertJob(v) ==
  job' = IF job[v].status = "absent" THEN [job EXCEPT ![v].status = "open"] ELSE job

\* The key of the job is the attempt: a job that is already there is returned,
\* settled or not.  attach_job then writes a job_id that nothing reads.
Enqueue(r) ==
  /\ AdminAt(r, "enqueue")
  /\ InsertJob(admin[r].v)
  /\ AdminEnds(r)
  /\ UNCHANGED <<tables, docs, run, sweep, faults, newest>>

EnqueueRaises(r) ==
  /\ AdminAt(r, "enqueue")
  /\ Fault
  /\ \/ job[admin[r].v].status = "absent" /\ UNCHANGED job
     \/ Lossy /\ InsertJob(admin[r].v)
  /\ AdminGoes(r, [admin[r] EXCEPT !.pc = "fail_enqueue"])
  /\ UNCHANGED <<tables, docs, run, sweep, newest>>

\* fail_enqueue has no condition on the attempt, which only has to exist.
FailEnqueue(r) ==
  /\ AdminAt(r, "fail_enqueue")
  /\ LET v == admin[r].v IN
       IF attempt[v].status # "none"
         THEN /\ attempt' = [attempt EXCEPT ![v].status = "index_failed"]
              /\ status' = [status EXCEPT ![v] = "index_failed"]
         ELSE UNCHANGED <<attempt, status>>
  /\ AdminEnds(r)
  /\ UNCHANGED <<rev, pointer, retiring, docs, job, run, sweep, faults, newest>>

-----------------------------------------------------------------------------
(* Retirement and deletion.                                                *)

\* delete reads the item; only a published one is retired first.
Delete(r) ==
  /\ AdminAt(r, "idle")
  /\ Exists
  /\ AdminGoes(r, [NoRequest EXCEPT !.pc = IF pointer # 0 THEN "retire" ELSE "purge",
                                    !.rev = rev, !.purge = TRUE])
  /\ UNCHANGED <<tables, docs, job, run, sweep, faults, newest>>

Retire(r) ==
  /\ AdminAt(r, "idle")
  /\ Exists
  /\ AdminGoes(r, [NoRequest EXCEPT !.pc = "retire", !.rev = rev])
  /\ UNCHANGED <<tables, docs, job, run, sweep, faults, newest>>

ResumeRetirementCleanup(r, v) ==
  /\ AdminAt(r, "idle")
  /\ retiring[v] = "pending"
  /\ AdminGoes(r, [NoRequest EXCEPT !.pc = "clean", !.v = v])
  /\ UNCHANGED <<tables, docs, job, run, sweep, faults, newest>>

MayRetire(r) == rev = admin[r].rev /\ ~ActiveAttempt /\ pointer # 0

\* The pointer goes, whichever version it names by then.  The cleanup refers to
\* the version, so that a purge in between undoes it.
RetireWrites(r, v) ==
  /\ status' = [status EXCEPT ![v] = "retired"]
  /\ retiring' = [retiring EXCEPT ![v] = "pending"]
  /\ pointer' = 0
  /\ rev' = rev + 1
  /\ AdminGoes(r, [admin[r] EXCEPT !.pc = "clean", !.v = v])

\* begin_retirement: the pointer goes before the documents do.  On PostgreSQL
\* the version is read first and kept in the request.
BeginRetirement(r) ==
  /\ AdminAt(r, "retire")
  /\ IF admin[r].v = 0 /\ MayRetire(r) /\ OnSqlite THEN RetireWrites(r, pointer)
     ELSE IF admin[r].v # 0 /\ status[admin[r].v] # "none" THEN RetireWrites(r, admin[r].v)
     ELSE /\ IF admin[r].v = 0 /\ MayRetire(r)
               THEN AdminGoes(r, [admin[r] EXCEPT !.v = pointer]) ELSE AdminEnds(r)
          /\ UNCHANGED <<status, retiring, pointer, rev>>
  /\ UNCHANGED <<attempt, docs, job, run, sweep, faults, newest>>

AfterCleanup(r) ==
  IF admin[r].purge THEN AdminGoes(r, [admin[r] EXCEPT !.pc = "purge"]) ELSE AdminEnds(r)

\* A cleanup that fails leaves its row pending, and a delete goes on.
RetirementCleanup(r) ==
  /\ AdminAt(r, "clean")
  /\ \/ /\ docs' = [docs EXCEPT ![admin[r].v] = 0]
        /\ AdminGoes(r, [admin[r] EXCEPT !.pc = "complete"])
        /\ UNCHANGED faults
     \/ Fault /\ AfterCleanup(r) /\ UNCHANGED docs
  /\ UNCHANGED <<tables, job, run, sweep, newest>>

CompleteRetirement(r) ==
  /\ AdminAt(r, "complete")
  /\ IF retiring[admin[r].v] = "pending"
       THEN retiring' = [retiring EXCEPT ![admin[r].v] = "complete"] /\ AfterCleanup(r)
       ELSE AdminEnds(r) /\ UNCHANGED retiring
  /\ UNCHANGED <<rev, status, attempt, pointer, docs, job, run, sweep, faults, newest>>

\* purge_item deletes the rows; jobs and documents are not rows of the item.
Purge(r) ==
  /\ AdminAt(r, "purge")
  /\ rev' = 0
  /\ status' = [v \in Versions |-> "none"]
  /\ attempt' = [v \in Versions |-> NoAttempt]
  /\ pointer' = 0
  /\ retiring' = [v \in Versions |-> "none"]
  /\ AdminEnds(r)
  /\ UNCHANGED <<docs, job, run, sweep, faults, newest>>

RequestDies(r) ==
  /\ ~AdminAt(r, "idle")
  /\ Fault
  /\ AdminEnds(r)
  /\ UNCHANGED <<tables, docs, job, run, sweep, newest>>

-----------------------------------------------------------------------------
(* run_attempt, called by the handler of knowledge.publication.index.      *)

RunAt(w, pc) == run[w].pc = pc
RunGoes(w, fields) == run' = [run EXCEPT ![w] = fields]
RunStage(w, pc) == RunGoes(w, [run[w] EXCEPT !.pc = pc])
RunReports(w, again) == RunGoes(w, [run[w] EXCEPT !.pc = "report", !.again = again])
\* An exception: the handler asks for another run while the budget lasts.
RunRaises(w) == RunReports(w, ~run[w].last)

Deliver(w, v) ==
  /\ RunAt(w, "idle")
  /\ job[v].status = "open"
  /\ Timely => \A u \in Workers : run[u].v # v
  /\ job' = [job EXCEPT ![v].claims = @ + 1]
  /\ RunGoes(w, [NoRun EXCEPT !.pc = "read", !.v = v, !.last = job[v].claims + 1 >= MaxClaims])
  /\ UNCHANGED <<tables, docs, admin, sweep, faults, newest>>

\* get_attempt: the three phases are tried in order, and none again.
Read(w) ==
  /\ RunAt(w, "read")
  /\ LET a == attempt[run[w].v]
         done == run[w].stage IN
       IF a.status = "none" THEN RunRaises(w)
       ELSE IF a.phase = "build" /\ done = 0 THEN RunStage(w, "item")
       ELSE IF a.phase = "swap" /\ done <= 1 THEN RunStage(w, "swap")
       ELSE IF a.phase = "cleanup"
         THEN RunGoes(w, [run[w] EXCEPT !.pc = "cleanup", !.content = a.old])
       ELSE RunReports(w, a.status = "in_progress")
  /\ UNCHANGED <<tables, docs, job, admin, sweep, faults, newest>>

\* get_item gives the latest version, whatever the attempt is for.
ReadItem(w) ==
  /\ RunAt(w, "item")
  /\ IF Exists THEN RunGoes(w, [run[w] EXCEPT !.pc = "build", !.content = Latest])
               ELSE RunRaises(w)
  /\ UNCHANGED <<tables, docs, job, admin, sweep, faults, newest>>

\* A build that fails takes the documents of the attempt with it.
Build(w) ==
  /\ RunAt(w, "build")
  /\ \/ /\ docs' = [docs EXCEPT ![run[w].v] = run[w].content]
        /\ RunStage(w, "record")
        /\ UNCHANGED faults
     \/ /\ Fault
        /\ docs' = [docs EXCEPT ![run[w].v] = 0]
        /\ RunStage(w, "transient")
  /\ UNCHANGED <<tables, job, admin, sweep, newest>>

\* Mutant of BuildFails: the last run does not tell that it was the last.
BuildFailsNever(w) == FALSE

BuildFails(w) == run[w].last

\* record_retryable_error, or fail_build when the budget is used up.
TransientFailure(w) ==
  /\ RunAt(w, "transient")
  /\ LET v == run[w].v
         a == attempt[v] IN
       IF BuildFails(w)
         THEN /\ IF a.phase = "build" /\ a.status = "in_progress"
                   THEN /\ attempt' = [attempt EXCEPT ![v].status = "index_failed"]
                        /\ status' = [status EXCEPT ![v] = "index_failed"]
                   ELSE UNCHANGED <<attempt, status>>
              /\ RunReports(w, FALSE)
         ELSE /\ UNCHANGED <<attempt, status>>
              /\ IF a.status = "in_progress" THEN RunReports(w, TRUE) ELSE RunRaises(w)
  /\ UNCHANGED <<rev, pointer, retiring, docs, job, admin, sweep, faults, newest>>

RecordArtifact(w) ==
  /\ RunAt(w, "record")
  /\ LET v == run[w].v IN
       IF attempt[v].phase = "build" /\ attempt[v].status = "in_progress"
         THEN /\ attempt' = [attempt EXCEPT ![v].phase = "swap", ![v].ref = TRUE,
                                            ![v].made = run[w].content]
              /\ RunGoes(w, [run[w] EXCEPT !.pc = "read", !.stage = 1])
         ELSE RunRaises(w) /\ UNCHANGED attempt
  /\ UNCHANGED <<rev, status, pointer, retiring, docs, job, admin, sweep, faults, newest>>

\* Mutant of Superseded: the version that is replaced stays published.
SupersededNever(v) == 0

\* The version that gives way to v; 0 when none was published, or v itself.
Superseded(v) == IF pointer = v THEN 0 ELSE pointer

\* commit_publication.  The documents of the previous attempt are to be
\* cleaned up, also when the previous attempt is this one.
CommitPublication(w) ==
  LET v == run[w].v
      old == pointer IN
  /\ status' = [u \in Versions |-> IF u = v THEN "published"
                                   ELSE IF u = Superseded(v) THEN "retired" ELSE status[u]]
  /\ pointer' = v
  /\ attempt' = [attempt EXCEPT ![v] = [@ EXCEPT
       !.phase = IF old = 0 THEN "complete" ELSE "cleanup",
       !.status = IF old = 0 THEN "published" ELSE "cleanup_pending", !.old = old]]
  /\ newest' = IF v > newest THEN v ELSE newest
  /\ RunGoes(w, [run[w] EXCEPT !.pc = "read", !.stage = 2])
  /\ UNCHANGED <<rev, retiring, faults>>

Swapping(v) == attempt[v].phase = "swap" /\ attempt[v].status = "in_progress"

Swap(w) ==
  /\ RunAt(w, "swap")
  /\ \/ Swapping(run[w].v) /\ CommitPublication(w)
     \/ /\ \/ ~Swapping(run[w].v) /\ UNCHANGED faults
           \/ Fault
        /\ RunStage(w, "fail_swap")
        /\ UNCHANGED <<tables, newest>>
  /\ UNCHANGED <<docs, job, admin, sweep>>

FailSwap(w) ==
  /\ RunAt(w, "fail_swap")
  /\ LET v == run[w].v IN
       IF Swapping(v)
         THEN /\ attempt' = [attempt EXCEPT ![v].status = "publication_failed"]
              /\ status' = [status EXCEPT ![v] = "publication_failed"]
         ELSE UNCHANGED <<attempt, status>>
  /\ RunReports(w, FALSE)
  /\ UNCHANGED <<rev, pointer, retiring, docs, job, admin, sweep, faults, newest>>

Cleanup(w) ==
  /\ RunAt(w, "cleanup")
  /\ \/ /\ docs' = [docs EXCEPT ![run[w].content] = 0]
        /\ RunStage(w, "complete")
        /\ UNCHANGED faults
     \/ Fault /\ RunReports(w, TRUE) /\ UNCHANGED docs
  /\ UNCHANGED <<tables, job, admin, sweep, newest>>

CompleteCleanup(w) ==
  /\ RunAt(w, "complete")
  /\ LET v == run[w].v IN
       IF attempt[v].phase = "cleanup" /\ attempt[v].status = "cleanup_pending"
         THEN /\ attempt' = [attempt EXCEPT ![v].phase = "complete", ![v].status = "published"]
              /\ RunReports(w, FALSE)
         ELSE RunRaises(w) /\ UNCHANGED attempt
  /\ UNCHANGED <<rev, status, pointer, retiring, docs, job, admin, sweep, faults, newest>>

\* Completed, dead-lettered, or pending again while the budget lasts.
Report(w) ==
  /\ RunAt(w, "report")
  /\ LET v == run[w].v IN
       job' = IF run[w].again /\ job[v].claims < MaxClaims THEN job
              ELSE [job EXCEPT ![v].status = "settled"]
  /\ RunGoes(w, NoRun)
  /\ UNCHANGED <<tables, docs, admin, sweep, faults, newest>>

\* The lease of the job lapses and any worker may claim it.
WorkerDies(w) ==
  /\ ~RunAt(w, "idle")
  /\ Fault
  /\ RunGoes(w, NoRun)
  /\ UNCHANGED <<tables, docs, job, admin, sweep, newest>>

-----------------------------------------------------------------------------
(* Retention: cleanup_expired_artifacts.                                   *)

SweepList ==
  /\ sweep = NoSweep
  /\ LET expired == {v \in Versions : attempt[v].status \in Failed /\ attempt[v].ref} IN
       /\ expired # {}
       /\ sweep' = [todo |-> expired, at |-> 0]
  /\ UNCHANGED <<tables, docs, job, admin, run, faults, newest>>

\* The documents go before the attempt is asked whether it is still failed.
\* When a deletion or the statement after it fails, the next row has its turn.
SweepClean(v) ==
  /\ sweep.at = 0
  /\ v \in sweep.todo
  /\ \/ docs' = [docs EXCEPT ![v] = 0] /\ sweep' = [sweep EXCEPT !.at = v] /\ UNCHANGED faults
     \/ /\ Fault
        /\ sweep' = [sweep EXCEPT !.todo = @ \ {v}]
        /\ \/ UNCHANGED docs
           \/ Torn /\ docs' = [docs EXCEPT ![v] = 0]
  /\ UNCHANGED <<tables, job, admin, run, newest>>

SweepClear ==
  /\ sweep.at # 0
  /\ LET v == sweep.at IN
       /\ attempt' = IF attempt[v].status \in Failed
                       THEN [attempt EXCEPT ![v].ref = FALSE, ![v].made = 0] ELSE attempt
       /\ sweep' = [todo |-> sweep.todo \ {v}, at |-> 0]
  /\ UNCHANGED <<rev, status, pointer, retiring, docs, job, admin, run, faults, newest>>

SweepDies ==
  /\ sweep # NoSweep
  /\ sweep.at # 0 => Torn
  /\ Fault
  /\ sweep' = NoSweep
  /\ UNCHANGED <<tables, docs, job, admin, run, newest>>

-----------------------------------------------------------------------------
RunStep(w) ==
  \/ Read(w) \/ ReadItem(w) \/ Build(w) \/ TransientFailure(w) \/ RecordArtifact(w)
  \/ Swap(w) \/ FailSwap(w) \/ Cleanup(w) \/ CompleteCleanup(w) \/ Report(w)

AdminStep(r) ==
  \/ RetryRead(r) \/ Resume(r) \/ Enqueue(r) \/ EnqueueRaises(r) \/ FailEnqueue(r)
  \/ BeginRetirement(r) \/ RetirementCleanup(r) \/ CompleteRetirement(r) \/ Purge(r)

\* The windows that the code leaves open and that Prompt closes.
Unguarded(r) == admin[r].pc \in {"retry", "resume", "fail_enqueue"}
Held(others) == Prompt /\ (sweep # NoSweep \/ \E q \in others : Unguarded(q))

AdminNext(r) ==
  /\ ~Held(Admins \ {r})
  /\ \/ RequestPublication(r) \/ Delete(r) \/ Retire(r) \/ RequestDies(r) \/ AdminStep(r)
     \/ \E v \in Versions : EnsureEnqueued(r, v) \/ ResumeRetirementCleanup(r, v)

WorkerNext(w) ==
  /\ ~Held(Admins)
  /\ RunStep(w) \/ WorkerDies(w) \/ \E v \in Versions : Deliver(w, v)

SweepNext ==
  /\ Prompt => \A r \in Admins : ~Unguarded(r)
  /\ SweepList \/ SweepClear \/ SweepDies \/ \E v \in Versions : SweepClean(v)

Next ==
  \/ ~Held(Admins) /\ Revise
  \/ \E r \in Admins : AdminNext(r)
  \/ \E w \in Workers : WorkerNext(w)
  \/ SweepNext

\* Workers poll the queue and finish what they started; a request and a sweep
\* run to their end unless they die.
Fairness ==
  /\ \A w \in Workers : WF_vars(~Held(Admins) /\ RunStep(w))
  /\ \A w \in Workers, v \in Versions : WF_vars(~Held(Admins) /\ Deliver(w, v))
  /\ \A r \in Admins : WF_vars(~Held(Admins \ {r}) /\ AdminStep(r))
  /\ WF_vars(SweepClear \/ \E v \in Versions : SweepClean(v))

Spec == Init /\ [][Next]_vars
FairSpec == Spec /\ Fairness

-----------------------------------------------------------------------------
\* What an operator is shown is what retrieval and the worker act on: the
\* published version is the one the pointer names, a version is indexing
\* exactly while its attempt is in progress, and at most one attempt is.  What
\* is published is in the index.
StatusTellsPointer ==
  /\ \A v \in Versions :
       /\ status[v] = "published" <=> pointer = v
       /\ status[v] = "indexing" <=> attempt[v].status = "in_progress"
  /\ Cardinality({v \in Versions : attempt[v].status \in Running}) <= 1
  /\ pointer # 0 => docs[pointer] # 0

\* Retrieval joins the pointer with the index: what the pointer names is
\* served when its documents are there.
Live == IF pointer # 0 /\ docs[pointer] # 0 THEN pointer ELSE 0

Serving == INSTANCE KnowledgeServing WITH live <- Live, newest <- newest

\* One version at a time is served, a newer one replaces it in one step, and
\* none comes back, whatever builds, swaps, retirements, sweeps and crashes do
\* in between.
ImplementsServing == Serving!Spec

\* While a job is in the queue its attempt ends: published, or failed and
\* open to a retry, whatever fails or dies on the way.
OpenJobSettles ==
  \A v \in Versions :
    (attempt[v].status = "in_progress" /\ job[v].status = "open" /\ \A w \in Workers : run[w].v # v)
      ~> attempt[v].status # "in_progress"

\* "Idempotently restore queue delivery for an unfinished attempt": an attempt
\* whose enqueue was answered with a job ends.
RestoredAttemptSettles ==
  \A v \in Versions :
    (attempt[v].status = "in_progress" /\ job[v].status # "absent")
      ~> attempt[v].status # "in_progress"
=============================================================================
