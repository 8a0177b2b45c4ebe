--------------------------- MODULE SettlementProofs ---------------------------
(***************************************************************************)
(* What is taken up is settled.  Proofs about WorkerJobs, for any number   *)
(* of jobs, workers, attempts and crashes, with and without timely         *)
(* handlers; about CheckoutOutbox, for any number of events, threads,      *)
(* attempts and faults, with and without timely dispatches; about          *)
(* VoiceTurn on SQLite, where a transition locks the turn from its check   *)
(* to its write, for any turns, texts, threads, attempts and faults; and   *)
(* about the types of all three.                                           *)
(***************************************************************************)
EXTENDS MCSettlement, FiniteSetTheorems, TLAPS

-----------------------------------------------------------------------------
(* Background jobs.                                                         *)

\* A busy worker works on a job.
BusyHasJob == \A w \in Workers : worker[w].pc # "idle" => worker[w].job \in Jobs

\* A success that is about to be reported had its side effect.
SuccessWasHandled ==
  \A w \in Workers :
    (worker[w].pc = "reporting" /\ worker[w].result = "success")
      => worker[w].job \in handled

\* Every retry, and every run that can still lead to one, was paid for with a
\* claim of its own.
ClaimsPayForRetries ==
  \A j \in Jobs : retries[j] + Cardinality(RunnersOf(j)) <= jobs[j].attempts

AbsentIsUntouched == \A j \in Jobs : jobs[j].status = "absent" => jobs[j].attempts = 0

\* Only a running job has a lease, held or lapsed.
LeaseMeansRunning == \A j \in Jobs : jobs[j].lease # "none" => jobs[j].status = "running"

\* The lease of a job that a timely handler runs is still held, unless the job
\* was cancelled meanwhile.
RunnerHoldsLease ==
  \A w \in Workers : (worker[w].pc # "idle" /\ worker[w].job \in Timely) =>
    \/ jobs[worker[w].job].lease = "held"
    \/ jobs[worker[w].job].status = "cancelled"

\* A job that counts as succeeded did have its side effect.
SucceededWasHandled ==
  \A j \in Jobs : jobs[j].status = "succeeded" => j \in handled

\* The inductive invariant.
IInv ==
  /\ TypeOK
  /\ BusyHasJob
  /\ SuccessWasHandled
  /\ ClaimsPayForRetries
  /\ AbsentIsUntouched
  /\ LeaseMeansRunning
  /\ RunnerHoldsLease
  /\ OneRunnerPerJob
  /\ RetriesAreBounded
  /\ DeadLettersAreEarned
  /\ SucceededWasHandled

-----------------------------------------------------------------------------
(* What an update of one row, or of one worker, leaves as it is.           *)

LEMMA JobUpdate ==
  ASSUME TypeOK, NEW j \in Jobs, NEW row \in JobRow, jobs' = [jobs EXCEPT ![j] = row]
  PROVE  /\ jobs' \in [Jobs -> JobRow]
         /\ jobs'[j] = row
         /\ \A i \in Jobs : i # j => jobs'[i] = jobs[i]
  BY DEF TypeOK

LEMMA WorkerUpdate ==
  ASSUME TypeOK, NEW w \in Workers, NEW st \in WorkerState,
         worker' = [worker EXCEPT ![w] = st]
  PROVE  /\ worker' \in [Workers -> WorkerState]
         /\ worker'[w] = st
         /\ \A v \in Workers : v # w => worker'[v] = worker[v]
  BY DEF TypeOK

LEMMA IdleIsState == Idle \in WorkerState
  BY DEF Idle, WorkerState, Results

LEMMA RunnersFinite ==
  ASSUME NEW j \in Jobs
  PROVE  /\ IsFiniteSet(RunnersOf(j))
         /\ Cardinality(RunnersOf(j)) \in Nat
  <1>1. IsFiniteSet(Workers)
    BY WorkerJobsAssumption
  <1>2. RunnersOf(j) \subseteq Workers
    BY DEF RunnersOf
  <1>3. IsFiniteSet(RunnersOf(j))
    BY <1>1, <1>2, FS_Subset
  <1>4. QED
    BY <1>3, FS_CardinalityType

\* A claim adds at most one runner to the job, and none to the others.
LEMMA ClaimAddsRunner ==
  ASSUME TypeOK, NEW w \in Workers, NEW j \in Jobs, worker[w].pc = "idle",
         worker' = [worker EXCEPT ![w] = [Idle EXCEPT !.pc = "handling", !.job = j]]
  PROVE  /\ RunnersOf(j)' = RunnersOf(j) \cup {w}
         /\ Cardinality(RunnersOf(j)') = Cardinality(RunnersOf(j)) + 1
         /\ \A i \in Jobs : i # j => RunnersOf(i)' = RunnersOf(i)
  <1> DEFINE st == [Idle EXCEPT !.pc = "handling", !.job = j]
  <1>1. /\ st \in WorkerState
        /\ st.pc = "handling" /\ st.job = j
    BY DEF Idle, WorkerState, Results
  <1>2. /\ worker'[w] = st
        /\ \A v \in Workers : v # w => worker'[v] = worker[v]
    BY <1>1, WorkerUpdate
  <1>3. RunnersOf(j)' = RunnersOf(j) \cup {w}
    BY <1>1, <1>2 DEF RunnersOf
  <1>4. w \notin RunnersOf(j)
    BY DEF RunnersOf
  <1>5. Cardinality(RunnersOf(j)') = Cardinality(RunnersOf(j)) + 1
    BY <1>3, <1>4, RunnersFinite, FS_AddElement
  <1>6. \A i \in Jobs : i # j => RunnersOf(i)' = RunnersOf(i)
    BY <1>1, <1>2 DEF RunnersOf
  <1>7. QED
    BY <1>3, <1>5, <1>6

\* A report or a crash removes the worker from the runners of its job.
LEMMA ReportRemovesRunner ==
  ASSUME TypeOK, NEW w \in Workers, NEW j \in Jobs, worker[w].pc # "idle",
         worker[w].job = j, worker' = [worker EXCEPT ![w] = Idle]
  PROVE  /\ w \in RunnersOf(j)
         /\ RunnersOf(j)' = RunnersOf(j) \ {w}
         /\ Cardinality(RunnersOf(j)') = Cardinality(RunnersOf(j)) - 1
         /\ \A i \in Jobs : i # j => RunnersOf(i)' = RunnersOf(i)
  <1>1. /\ worker'[w] = Idle
        /\ \A v \in Workers : v # w => worker'[v] = worker[v]
    BY IdleIsState, WorkerUpdate
  <1>2. Idle.pc = "idle"
    BY DEF Idle
  <1>3. w \in RunnersOf(j)
    BY DEF RunnersOf
  <1>4. RunnersOf(j)' = RunnersOf(j) \ {w}
    BY <1>1, <1>2 DEF RunnersOf
  <1>5. Cardinality(RunnersOf(j)') = Cardinality(RunnersOf(j)) - 1
    BY <1>3, <1>4, RunnersFinite, FS_RemoveElement
  <1>6. \A i \in Jobs : i # j => RunnersOf(i)' = RunnersOf(i)
    BY <1>1, <1>2 DEF RunnersOf
  <1>7. QED
    BY <1>3, <1>4, <1>5, <1>6

-----------------------------------------------------------------------------
(* The invariant holds initially.                                          *)

\* Timely handlers are handlers of jobs.
LEMMA TimelyIsJobs == \A j \in Timely : j \in Jobs
  BY WorkerJobsAssumption

LEMMA InitInvariant == Init => IInv
  <1> SUFFICES ASSUME Init PROVE IInv
    OBVIOUS
  <1>1. NoJob \in JobRow /\ NoJob.status = "absent" /\ NoJob.attempts = 0 /\ NoJob.lease = "none"
    BY DEF NoJob, JobRow, JobStatus, Terminal
  <1>2. Idle \in WorkerState /\ Idle.pc = "idle"
    BY DEF Idle, WorkerState, Results
  <1>3. TypeOK
    BY <1>1, <1>2 DEF Init, TypeOK
  <1>4. \A j \in Jobs : RunnersOf(j) = {}
    BY <1>2 DEF Init, RunnersOf
  <1>5. ClaimsPayForRetries
    BY <1>1, <1>4, FS_EmptySet DEF Init, ClaimsPayForRetries
  <1>6. RetriesAreBounded
    BY WorkerJobsAssumption DEF Init, RetriesAreBounded
  <1>7. /\ BusyHasJob /\ SuccessWasHandled /\ AbsentIsUntouched /\ LeaseMeansRunning
        /\ RunnerHoldsLease /\ OneRunnerPerJob /\ DeadLettersAreEarned /\ SucceededWasHandled
    BY TimelyIsJobs, <1>1, <1>2, <1>4
    DEF Init, BusyHasJob, SuccessWasHandled, AbsentIsUntouched, LeaseMeansRunning,
        RunnerHoldsLease, OneRunnerPerJob, DeadLettersAreEarned,
        SucceededWasHandled
  <1>8. QED
    BY <1>3, <1>5, <1>6, <1>7 DEF IInv

-----------------------------------------------------------------------------
(* Steps that change the row of a job but neither a worker nor a counter.  *)

\* Such a step preserves the invariant if the row stays consistent.
LEMMA RowStep ==
  ASSUME IInv, NEW j \in Jobs, NEW row \in JobRow, jobs' = [jobs EXCEPT ![j] = row],
         UNCHANGED <<worker, crashes, handled, fatal, retries>>,
         row.attempts >= jobs[j].attempts,
         row.status = "absent" => row.attempts = 0,
         row.lease # "none" => row.status = "running",
         row.status \in {"succeeded", "dead_letter"} => row.status = jobs[j].status,
         j \in Timely => \/ RunnersOf(j) = {}
                         \/ row.lease = "held"
                         \/ row.status = "cancelled"
  PROVE  IInv'
  <1>1. /\ jobs' \in [Jobs -> JobRow]
        /\ jobs'[j] = row
        /\ \A i \in Jobs : i # j => jobs'[i] = jobs[i]
    BY JobUpdate DEF IInv
  <1>2. TypeOK'
    BY <1>1 DEF IInv, TypeOK
  <1>3. \A i \in Jobs : RunnersOf(i)' = RunnersOf(i)
    BY DEF RunnersOf
  <1>4. ClaimsPayForRetries'
    <2> SUFFICES ASSUME NEW i \in Jobs
                 PROVE  retries'[i] + Cardinality(RunnersOf(i)') <= jobs'[i].attempts
      BY DEF ClaimsPayForRetries
    <2>1. retries[i] + Cardinality(RunnersOf(i)) <= jobs[i].attempts
      BY DEF IInv, ClaimsPayForRetries
    <2>2. jobs'[i].attempts >= jobs[i].attempts
      BY <1>1 DEF IInv, TypeOK, JobRow
    <2>3. /\ retries[i] \in Nat /\ Cardinality(RunnersOf(i)) \in Nat
          /\ jobs[i].attempts \in Nat /\ jobs'[i].attempts \in Nat
      BY <1>1, RunnersFinite DEF IInv, TypeOK, JobRow
    <2>4. QED
      BY <1>3, <2>1, <2>2, <2>3
  <1>5. BusyHasJob' /\ SuccessWasHandled' /\ RetriesAreBounded'
    BY DEF IInv, BusyHasJob, SuccessWasHandled, RetriesAreBounded
  <1>6. AbsentIsUntouched' /\ LeaseMeansRunning'
    BY <1>1 DEF IInv, AbsentIsUntouched, LeaseMeansRunning
  <1>7. DeadLettersAreEarned'
    <2>1. \A i \in Jobs : jobs'[i].attempts >= jobs[i].attempts
      BY <1>1 DEF IInv, TypeOK, JobRow
    <2>2. \A i \in Jobs : jobs'[i].status = "dead_letter" => jobs[i].status = "dead_letter"
      BY <1>1
    <2>3. \A i \in Jobs : jobs[i].attempts \in Nat /\ jobs'[i].attempts \in Nat
      BY <1>1 DEF IInv, TypeOK, JobRow
    <2>4. QED
      BY <2>1, <2>2, <2>3, WorkerJobsAssumption DEF IInv, DeadLettersAreEarned
  <1>8. SucceededWasHandled'
    BY <1>1 DEF IInv, SucceededWasHandled
  <1>9. OneRunnerPerJob'
    BY TimelyIsJobs, <1>3 DEF IInv, OneRunnerPerJob
  <1>10. RunnerHoldsLease'
    <2> SUFFICES ASSUME NEW w \in Workers, worker[w].pc # "idle", worker[w].job \in Timely
                 PROVE  \/ jobs'[worker[w].job].lease = "held"
                        \/ jobs'[worker[w].job].status = "cancelled"
      BY DEF RunnerHoldsLease
    <2>1. worker[w].job \in Jobs
      BY DEF IInv, BusyHasJob
    <2>2. CASE worker[w].job = j
      BY <1>1, <2>2 DEF RunnersOf
    <2>3. CASE worker[w].job # j
      BY <1>1, <2>1, <2>3 DEF IInv, RunnerHoldsLease
    <2>4. QED
      BY <2>2, <2>3
  <1>11. QED
    BY <1>2, <1>4, <1>5, <1>6, <1>7, <1>8, <1>9, <1>10 DEF IInv

LEMMA EnqueueInvariant == ASSUME IInv, NEW j \in Jobs, Enqueue(j) PROVE IInv'
  <1> DEFINE row == [NoJob EXCEPT !.status = "pending", !.ready = TRUE]
  <1>1. /\ row \in JobRow /\ row.attempts = 0
        /\ row.status = "pending" /\ row.lease = "none"
    BY DEF NoJob, JobRow, JobStatus, Terminal
  <1>2. jobs[j].attempts = 0
    BY DEF IInv, AbsentIsUntouched, Enqueue
  <1>3. Cardinality(RunnersOf(j)) = 0
    <2>1. retries[j] + Cardinality(RunnersOf(j)) <= jobs[j].attempts
      BY DEF IInv, ClaimsPayForRetries
    <2>2. retries[j] \in Nat /\ Cardinality(RunnersOf(j)) \in Nat
      BY RunnersFinite DEF IInv, TypeOK
    <2>3. QED
      BY <1>2, <2>1, <2>2
  <1>4. RunnersOf(j) = {}
    BY <1>3, RunnersFinite, FS_EmptySet
  <1>5. QED
    <2>1. /\ jobs' = [jobs EXCEPT ![j] = row]
          /\ UNCHANGED <<worker, crashes, handled, fatal, retries>>
      BY DEF Enqueue
    <2>2. row.attempts >= jobs[j].attempts
      BY <1>1, <1>2
    <2> HIDE DEF row
    <2>3. QED
      BY <1>1, <1>2, <1>4, RowStep, <2>1, <2>2

LEMMA CancelInvariant == ASSUME IInv, NEW j \in Jobs, Cancel(j) PROVE IInv'
  <1> DEFINE row == [jobs[j] EXCEPT !.status = "cancelled", !.lease = "none"]
  <1>1. /\ row \in JobRow /\ row.attempts = jobs[j].attempts /\ row.attempts \in Nat
        /\ row.status = "cancelled" /\ row.lease = "none"
    BY DEF IInv, TypeOK, JobRow, JobStatus, Terminal
  <1>2. QED
    <2>1. /\ jobs' = [jobs EXCEPT ![j] = row]
          /\ UNCHANGED <<worker, crashes, handled, fatal, retries>>
      BY DEF Cancel
    <2>2. row.attempts >= jobs[j].attempts
      BY <1>1
    <2> HIDE DEF row
    <2>3. QED
      BY <1>1, RowStep, <2>1, <2>2

LEMMA BackoffInvariant == ASSUME IInv, NEW j \in Jobs, BackoffElapses(j) PROVE IInv'
  <1> DEFINE row == [jobs[j] EXCEPT !.ready = TRUE]
  <1>1. /\ row \in JobRow /\ row.attempts = jobs[j].attempts /\ row.attempts \in Nat
        /\ row.status = "pending" /\ row.lease = jobs[j].lease
    BY DEF IInv, TypeOK, JobRow, BackoffElapses
  <1>2. row.lease = "none"
    BY <1>1 DEF IInv, LeaseMeansRunning, BackoffElapses
  <1>3. j \in Timely => RunnersOf(j) = {}
    <2> SUFFICES ASSUME j \in Timely, NEW w \in RunnersOf(j) PROVE FALSE
      OBVIOUS
    <2>1. jobs[j].lease = "held" \/ jobs[j].status = "cancelled"
      BY DEF IInv, RunnerHoldsLease, RunnersOf
    <2>2. QED
      BY <1>1, <1>2, <2>1 DEF BackoffElapses
  <1>4. QED
    <2>1. /\ jobs' = [jobs EXCEPT ![j] = row]
          /\ UNCHANGED <<worker, crashes, handled, fatal, retries>>
      BY DEF BackoffElapses
    <2>2. row.attempts >= jobs[j].attempts
      BY <1>1
    <2> HIDE DEF row
    <2>3. QED
      BY <1>1, <1>2, <1>3, RowStep, <2>1, <2>2

LEMMA LapseInvariant == ASSUME IInv, NEW j \in Jobs, LeaseLapses(j) PROVE IInv'
  <1> DEFINE row == [jobs[j] EXCEPT !.lease = "lapsed"]
  <1>1. /\ row \in JobRow /\ row.attempts = jobs[j].attempts /\ row.attempts \in Nat
        /\ row.status = jobs[j].status
    BY DEF IInv, TypeOK, JobRow
  <1>2. row.status = "running"
    BY <1>1 DEF IInv, LeaseMeansRunning, LeaseLapses
  <1>3. j \in Timely => RunnersOf(j) = {}
    BY DEF LeaseLapses
  <1>4. QED
    <2>1. /\ jobs' = [jobs EXCEPT ![j] = row]
          /\ UNCHANGED <<worker, crashes, handled, fatal, retries>>
      BY DEF LeaseLapses
    <2>2. row.attempts >= jobs[j].attempts
      BY <1>1
    <2> HIDE DEF row
    <2>3. QED
      BY <1>1, <1>2, <1>3, RowStep, <2>1, <2>2

-----------------------------------------------------------------------------

(* Steps of a worker.                                                      *)

LEMMA ClaimInvariant == ASSUME IInv, NEW w \in Workers, NEW j \in Jobs, Claim(w, j) PROVE IInv'
  <1> DEFINE row == [jobs[j] EXCEPT !.status = "running", !.lease = "held",
                                    !.attempts = jobs[j].attempts + 1]
             st == [Idle EXCEPT !.pc = "handling", !.job = j]
  <1>1. /\ row \in JobRow /\ row.attempts = jobs[j].attempts + 1
        /\ jobs[j].attempts \in Nat
        /\ row.status = "running" /\ row.lease = "held"
    <2>1. jobs[j] \in JobRow /\ jobs[j].attempts \in Nat /\ jobs[j].attempts + 1 \in Nat
      BY DEF IInv, TypeOK, JobRow
    <2>2. QED
      BY <2>1 DEF JobRow, JobStatus, Terminal
  <1>2. st \in WorkerState /\ st.pc = "handling" /\ st.job = j
    BY DEF Idle, WorkerState, Results
  <1>3. /\ jobs' = [jobs EXCEPT ![j] = row]
        /\ worker' = [worker EXCEPT ![w] = st]
        /\ UNCHANGED <<crashes, handled, fatal, retries>>
        /\ worker[w].pc = "idle"
        /\ Claimable(j)
    BY DEF Claim
  <1>4. /\ RunnersOf(j)' = RunnersOf(j) \cup {w}
        /\ Cardinality(RunnersOf(j)') = Cardinality(RunnersOf(j)) + 1
        /\ \A i \in Jobs : i # j => RunnersOf(i)' = RunnersOf(i)
    BY <1>3, ClaimAddsRunner DEF IInv
  <1> HIDE DEF row, st
  <1>5. /\ jobs' \in [Jobs -> JobRow] /\ jobs'[j] = row
        /\ \A i \in Jobs : i # j => jobs'[i] = jobs[i]
    BY <1>1, <1>3, JobUpdate DEF IInv
  <1>6. /\ worker' \in [Workers -> WorkerState] /\ worker'[w] = st
        /\ \A v \in Workers : v # w => worker'[v] = worker[v]
    BY <1>2, <1>3, WorkerUpdate DEF IInv
  <1>7. j \in Timely => RunnersOf(j) = {}
    <2> SUFFICES ASSUME j \in Timely, NEW v \in RunnersOf(j) PROVE FALSE
      OBVIOUS
    <2>1. jobs[j].lease = "held" \/ jobs[j].status = "cancelled"
      BY DEF IInv, RunnerHoldsLease, RunnersOf
    <2>2. QED
      BY <1>3, <2>1 DEF Claimable
  <1>8. TypeOK'
    BY <1>3, <1>5, <1>6 DEF IInv, TypeOK
  <1>9. BusyHasJob' /\ SuccessWasHandled'
    BY <1>2, <1>3, <1>6 DEF IInv, BusyHasJob, SuccessWasHandled
  <1>10. ClaimsPayForRetries'
    <2> SUFFICES ASSUME NEW i \in Jobs
                 PROVE  retries'[i] + Cardinality(RunnersOf(i)') <= jobs'[i].attempts
      BY DEF ClaimsPayForRetries
    <2>1. /\ retries[i] + Cardinality(RunnersOf(i)) <= jobs[i].attempts
          /\ retries[i] \in Nat /\ Cardinality(RunnersOf(i)) \in Nat
          /\ jobs[i].attempts \in Nat
      BY RunnersFinite DEF IInv, ClaimsPayForRetries, TypeOK, JobRow
    <2>2. CASE i = j
      <3>1. /\ retries[j] + Cardinality(RunnersOf(j)) <= jobs[j].attempts
            /\ retries[j] \in Nat /\ Cardinality(RunnersOf(j)) \in Nat
        BY <2>1, <2>2
      <3>2. retries'[j] = retries[j] /\ jobs'[j].attempts = jobs[j].attempts + 1
        BY <1>1, <1>3, <1>5
      <3>3. retries'[j] + Cardinality(RunnersOf(j)') <= jobs'[j].attempts
        BY <1>1, <1>4, <3>1, <3>2
      <3>4. QED
        BY <2>2, <3>3
    <2>3. CASE i # j
      BY <1>3, <1>4, <1>5, <2>1, <2>3
    <2>4. QED
      BY <2>2, <2>3
  <1>11. AbsentIsUntouched' /\ LeaseMeansRunning' /\ SucceededWasHandled'
    BY <1>1, <1>3, <1>5 DEF IInv, AbsentIsUntouched, LeaseMeansRunning, SucceededWasHandled
  <1>12. DeadLettersAreEarned' /\ RetriesAreBounded'
    BY <1>1, <1>3, <1>5 DEF IInv, DeadLettersAreEarned, RetriesAreBounded
  <1>13. RunnerHoldsLease'
    <2> SUFFICES ASSUME NEW v \in Workers, worker'[v].pc # "idle", worker'[v].job \in Timely
                 PROVE  \/ jobs'[worker'[v].job].lease = "held"
                        \/ jobs'[worker'[v].job].status = "cancelled"
      BY DEF RunnerHoldsLease
    <2>1. CASE v = w
      BY <1>1, <1>2, <1>5, <1>6, <2>1
    <2>2. CASE v # w
      <3>1. worker'[v] = worker[v] /\ worker[v].job \in Jobs /\ worker[v].job # j
        BY <1>6, <1>7, <2>2 DEF IInv, BusyHasJob, RunnersOf
      <3>2. QED
        BY <1>5, <3>1 DEF IInv, RunnerHoldsLease
    <2>3. QED
      BY <2>1, <2>2
  <1>14. OneRunnerPerJob'
    <2> SUFFICES ASSUME NEW i \in Timely, NEW u \in RunnersOf(i)', NEW v \in RunnersOf(i)'
                 PROVE  u = v
      BY DEF OneRunnerPerJob
    <2>1. CASE i = j
      BY <1>4, <1>7, <2>1
    <2>2. CASE i # j
      BY TimelyIsJobs, <1>4, <2>2 DEF IInv, OneRunnerPerJob
    <2>3. QED
      BY <2>1, <2>2
  <1>15. QED
    BY <1>8, <1>9, <1>10, <1>11, <1>12, <1>13, <1>14 DEF IInv

LEMMA HandlerInvariant == ASSUME IInv, NEW w \in Workers, HandlerEnds(w) PROVE IInv'
  <1> DEFINE j == worker[w].job
  <1>1. j \in Jobs /\ worker[w].pc = "handling"
    BY DEF IInv, BusyHasJob, HandlerEnds
  <1>2. PICK r \in Results :
          /\ worker' = [worker EXCEPT ![w] = [@ EXCEPT !.pc = "reporting", !.result = r]]
          /\ handled' = IF r = "success" THEN handled \cup {worker[w].job} ELSE handled
    BY DEF HandlerEnds
  <1> DEFINE st == [worker[w] EXCEPT !.pc = "reporting", !.result = r]
  <1>3. st \in WorkerState /\ st.pc = "reporting" /\ st.job = j /\ st.result = r
    BY <1>1 DEF IInv, TypeOK, WorkerState
  <1>4. /\ worker' = [worker EXCEPT ![w] = st]
        /\ UNCHANGED <<jobs, crashes, fatal, retries>>
    BY <1>2 DEF HandlerEnds
  <1> HIDE DEF st
  <1>5. /\ worker' \in [Workers -> WorkerState] /\ worker'[w] = st
        /\ \A v \in Workers : v # w => worker'[v] = worker[v]
    BY <1>3, <1>4, WorkerUpdate DEF IInv
  <1>6. handled \subseteq handled' /\ handled' \subseteq Jobs /\ (r = "success" => j \in handled')
    BY <1>1, <1>2 DEF IInv, TypeOK
  <1>7. /\ \A v \in Workers : worker'[v].job = worker[v].job
        /\ \A v \in Workers : (worker'[v].pc # "idle") <=> (worker[v].pc # "idle")
    BY <1>1, <1>3, <1>5
  <1>8. \A i \in Jobs : RunnersOf(i)' = RunnersOf(i)
    BY <1>7 DEF RunnersOf
  <1>9. TypeOK'
    BY <1>4, <1>5, <1>6 DEF IInv, TypeOK
  <1>10. BusyHasJob' /\ RunnerHoldsLease'
    BY <1>4, <1>7 DEF IInv, BusyHasJob, RunnerHoldsLease
  <1>11. SuccessWasHandled'
    BY <1>3, <1>5, <1>6 DEF IInv, SuccessWasHandled
  <1>12. ClaimsPayForRetries' /\ OneRunnerPerJob'
    BY TimelyIsJobs, <1>4, <1>8 DEF IInv, ClaimsPayForRetries, OneRunnerPerJob
  <1>13. /\ AbsentIsUntouched' /\ LeaseMeansRunning' /\ RetriesAreBounded'
         /\ DeadLettersAreEarned' /\ SucceededWasHandled'
    BY <1>4, <1>6 DEF IInv, AbsentIsUntouched, LeaseMeansRunning, RetriesAreBounded,
                      DeadLettersAreEarned, SucceededWasHandled
  <1>14. QED
    BY <1>9, <1>10, <1>11, <1>12, <1>13 DEF IInv

\* A worker leaves its job, by a report or a crash, with a consistent row.
LEMMA LeaveStep ==
  ASSUME IInv, NEW w \in Workers, NEW j \in Jobs, NEW row \in JobRow,
         worker[w].pc # "idle", worker[w].job = j,
         worker' = [worker EXCEPT ![w] = Idle],
         jobs' = [jobs EXCEPT ![j] = row],
         row.attempts = jobs[j].attempts,
         row.status = "absent" => row.attempts = 0,
         row.lease # "none" => row.status = "running",
         row.status = "succeeded" => j \in handled,
         row.status = "dead_letter" => row.attempts >= MaxAttempts \/ j \in fatal',
         crashes' \in Nat, handled' = handled,
         fatal \subseteq fatal', fatal' \subseteq Jobs,
         retries' \in [Jobs -> Nat],
         \A i \in Jobs : i # j => retries'[i] = retries[i],
         retries'[j] + Cardinality(RunnersOf(j)) - 1 <= row.attempts,
         retries'[j] < MaxAttempts
  PROVE  IInv'
  <1>1. /\ jobs' \in [Jobs -> JobRow] /\ jobs'[j] = row
        /\ \A i \in Jobs : i # j => jobs'[i] = jobs[i]
    BY JobUpdate DEF IInv
  <1>2. /\ worker' \in [Workers -> WorkerState] /\ worker'[w] = Idle
        /\ \A v \in Workers : v # w => worker'[v] = worker[v]
    BY IdleIsState, WorkerUpdate DEF IInv
  <1>3. Idle.pc = "idle"
    BY DEF Idle
  <1>4. /\ w \in RunnersOf(j)
        /\ RunnersOf(j)' = RunnersOf(j) \ {w}
        /\ Cardinality(RunnersOf(j)') = Cardinality(RunnersOf(j)) - 1
        /\ \A i \in Jobs : i # j => RunnersOf(i)' = RunnersOf(i)
    BY ReportRemovesRunner DEF IInv
  <1>5. TypeOK'
    BY <1>1, <1>2 DEF IInv, TypeOK
  <1>6. BusyHasJob' /\ SuccessWasHandled'
    BY <1>2, <1>3 DEF IInv, BusyHasJob, SuccessWasHandled
  <1>7. ClaimsPayForRetries'
    <2> SUFFICES ASSUME NEW i \in Jobs
                 PROVE  retries'[i] + Cardinality(RunnersOf(i)') <= jobs'[i].attempts
      BY DEF ClaimsPayForRetries
    <2>1. CASE i = j
      <3>1. retries'[j] \in Nat /\ Cardinality(RunnersOf(j)) \in Nat /\ row.attempts \in Nat
        BY RunnersFinite DEF JobRow
      <3>2. QED
        BY <1>1, <1>4, <2>1, <3>1
    <2>2. CASE i # j
      BY <1>1, <1>4, <2>2 DEF IInv, ClaimsPayForRetries
    <2>3. QED
      BY <2>1, <2>2
  <1>8. AbsentIsUntouched' /\ LeaseMeansRunning' /\ SucceededWasHandled'
    BY <1>1 DEF IInv, AbsentIsUntouched, LeaseMeansRunning, SucceededWasHandled
  <1>9. DeadLettersAreEarned'
    BY <1>1 DEF IInv, DeadLettersAreEarned
  <1>10. RetriesAreBounded'
    BY DEF IInv, RetriesAreBounded
  <1>11. OneRunnerPerJob'
    <2> SUFFICES ASSUME NEW i \in Timely, NEW u \in RunnersOf(i)', NEW v \in RunnersOf(i)'
                 PROVE  u = v
      BY DEF OneRunnerPerJob
    <2>1. u \in RunnersOf(i) /\ v \in RunnersOf(i)
      BY TimelyIsJobs, <1>4
    <2>2. QED
      BY <2>1 DEF IInv, OneRunnerPerJob
  <1>12. RunnerHoldsLease'
    <2> SUFFICES ASSUME NEW v \in Workers, worker'[v].pc # "idle", worker'[v].job \in Timely
                 PROVE  \/ jobs'[worker'[v].job].lease = "held"
                        \/ jobs'[worker'[v].job].status = "cancelled"
      BY DEF RunnerHoldsLease
    <2>1. v # w /\ worker'[v] = worker[v] /\ worker[v].job \in Jobs
      BY <1>2, <1>3 DEF IInv, BusyHasJob
    <2>2. worker[v].job # j
      BY <1>4, <2>1 DEF IInv, OneRunnerPerJob, RunnersOf
    <2>3. QED
      BY <1>1, <2>1, <2>2 DEF IInv, RunnerHoldsLease
  <1>13. QED
    BY <1>5, <1>6, <1>7, <1>8, <1>9, <1>10, <1>11, <1>12 DEF IInv

\* A busy worker has a job, and the job was claimed.
LEMMA BusyFacts ==
  ASSUME IInv, NEW w \in Workers, worker[w].pc # "idle", NEW j, j = worker[w].job
  PROVE  /\ j \in Jobs /\ jobs[j] \in JobRow
         /\ jobs[j].attempts \in Nat /\ retries[j] \in Nat
         /\ Cardinality(RunnersOf(j)) \in Nat
         /\ Cardinality(RunnersOf(j)) >= 1
         /\ retries[j] + Cardinality(RunnersOf(j)) <= jobs[j].attempts
         /\ retries[j] < MaxAttempts
         /\ jobs[j].status # "absent"
  <1>1. j \in Jobs
    BY DEF IInv, BusyHasJob
  <1>2. /\ jobs[j] \in JobRow /\ jobs[j].attempts \in Nat /\ retries[j] \in Nat
        /\ retries[j] < MaxAttempts
        /\ retries[j] + Cardinality(RunnersOf(j)) <= jobs[j].attempts
    BY <1>1 DEF IInv, TypeOK, JobRow, RetriesAreBounded, ClaimsPayForRetries
  <1>3. w \in RunnersOf(j)
    BY DEF RunnersOf
  <1>4. IsFiniteSet(RunnersOf(j)) /\ Cardinality(RunnersOf(j)) \in Nat
    BY <1>1, RunnersFinite
  <1>5. Cardinality(RunnersOf(j)) # 0
    BY <1>3, <1>4, FS_EmptySet
  <1>6. Cardinality(RunnersOf(j)) >= 1
    BY <1>4, <1>5
  <1>7. jobs[j].status # "absent"
    BY <1>1, <1>2, <1>4, <1>6 DEF IInv, AbsentIsUntouched
  <1>8. QED
    BY <1>1, <1>2, <1>4, <1>6, <1>7

LEMMA CompleteInvariant == ASSUME IInv, NEW w \in Workers, Complete(w) PROVE IInv'
  <1> DEFINE j == worker[w].job
             row == [jobs[j] EXCEPT !.status = "succeeded", !.lease = "none"]
  <1>1. worker[w].pc = "reporting" /\ worker[w].result = "success"
    BY DEF Complete, Succeeded
  <1>2. /\ j \in Jobs /\ jobs[j] \in JobRow
        /\ jobs[j].attempts \in Nat /\ retries[j] \in Nat
        /\ Cardinality(RunnersOf(j)) \in Nat
        /\ retries[j] + Cardinality(RunnersOf(j)) <= jobs[j].attempts
        /\ retries[j] < MaxAttempts
    BY <1>1, BusyFacts
  <1>3. /\ row \in JobRow /\ row.attempts = jobs[j].attempts
        /\ row.status = "succeeded" /\ row.lease = "none"
    BY <1>2 DEF JobRow, JobStatus, Terminal
  <1>4. j \in handled
    BY <1>1 DEF IInv, SuccessWasHandled
  <1>5. /\ jobs' = [jobs EXCEPT ![j] = row]
        /\ worker' = [worker EXCEPT ![w] = Idle]
        /\ UNCHANGED <<crashes, handled, fatal, retries>>
    BY DEF Complete
  <1>6. crashes' \in Nat /\ fatal' \subseteq Jobs /\ retries' \in [Jobs -> Nat]
    BY <1>5 DEF IInv, TypeOK
  <1>7. retries'[j] + Cardinality(RunnersOf(j)) - 1 <= row.attempts
    BY <1>2, <1>3, <1>5
  <1> HIDE DEF j, row
  <1>8. QED
    BY <1>1, <1>2, <1>3, <1>4, <1>5, <1>6, <1>7, LeaveStep DEF j

LEMMA RetryInvariant == ASSUME IInv, NEW w \in Workers, Retry(w) PROVE IInv'
  <1> DEFINE j == worker[w].job
             row == [jobs[j] EXCEPT !.status = "pending", !.lease = "none", !.ready = FALSE]
  <1>1. worker[w].pc = "reporting" /\ jobs[j].attempts < MaxAttempts
    BY DEF Retry, MayRetry
  <1>2. /\ j \in Jobs /\ jobs[j] \in JobRow
        /\ jobs[j].attempts \in Nat /\ retries[j] \in Nat
        /\ Cardinality(RunnersOf(j)) \in Nat
        /\ Cardinality(RunnersOf(j)) >= 1
        /\ retries[j] + Cardinality(RunnersOf(j)) <= jobs[j].attempts
    BY <1>1, BusyFacts
  <1>3. /\ row \in JobRow /\ row.attempts = jobs[j].attempts
        /\ row.status = "pending" /\ row.lease = "none"
    BY <1>2 DEF JobRow, JobStatus, Terminal
  <1>4. /\ jobs' = [jobs EXCEPT ![j] = row]
        /\ worker' = [worker EXCEPT ![w] = Idle]
        /\ retries' = [retries EXCEPT ![j] = @ + 1]
        /\ UNCHANGED <<crashes, handled, fatal>>
    BY DEF Retry
  <1>5. /\ crashes' \in Nat /\ fatal' \subseteq Jobs
        /\ retries' \in [Jobs -> Nat]
        /\ retries'[j] = retries[j] + 1
        /\ \A i \in Jobs : i # j => retries'[i] = retries[i]
    BY <1>2, <1>4 DEF IInv, TypeOK
  <1>6. /\ retries'[j] + Cardinality(RunnersOf(j)) - 1 <= row.attempts
        /\ retries'[j] < MaxAttempts
    BY <1>1, <1>2, <1>3, <1>5, WorkerJobsAssumption
  <1> HIDE DEF j, row
  <1>7. QED
    BY <1>1, <1>2, <1>3, <1>4, <1>5, <1>6, LeaveStep DEF j

LEMMA DeadLetterInvariant == ASSUME IInv, NEW w \in Workers, DeadLetter(w) PROVE IInv'
  <1> DEFINE j == worker[w].job
             row == [jobs[j] EXCEPT !.status = "dead_letter", !.lease = "none"]
  <1>1. worker[w].pc = "reporting" /\ ~MayRetry(w)
    BY DEF DeadLetter
  <1>2. /\ j \in Jobs /\ jobs[j] \in JobRow
        /\ jobs[j].attempts \in Nat /\ retries[j] \in Nat
        /\ Cardinality(RunnersOf(j)) \in Nat
        /\ retries[j] + Cardinality(RunnersOf(j)) <= jobs[j].attempts
        /\ retries[j] < MaxAttempts
    BY <1>1, BusyFacts
  <1>3. /\ row \in JobRow /\ row.attempts = jobs[j].attempts
        /\ row.status = "dead_letter" /\ row.lease = "none"
    BY <1>2 DEF JobRow, JobStatus, Terminal
  <1>4. /\ jobs' = [jobs EXCEPT ![j] = row]
        /\ worker' = [worker EXCEPT ![w] = Idle]
        /\ fatal' = IF worker[w].result = "retryable" THEN fatal ELSE fatal \cup {j}
        /\ UNCHANGED <<crashes, handled, retries>>
    BY DEF DeadLetter
  <1>5. /\ crashes' \in Nat /\ fatal \subseteq fatal' /\ fatal' \subseteq Jobs
        /\ retries' \in [Jobs -> Nat]
    BY <1>2, <1>4 DEF IInv, TypeOK
  <1>6. row.attempts >= MaxAttempts \/ j \in fatal'
    <2>1. CASE worker[w].result = "retryable"
      BY <1>1, <1>2, <1>3, <2>1, WorkerJobsAssumption DEF MayRetry
    <2>2. CASE worker[w].result # "retryable"
      BY <1>4, <2>2
    <2>3. QED
      BY <2>1, <2>2
  <1>7. retries'[j] + Cardinality(RunnersOf(j)) - 1 <= row.attempts
    BY <1>2, <1>3, <1>4
  <1> HIDE DEF j, row
  <1>8. QED
    BY <1>1, <1>2, <1>3, <1>4, <1>5, <1>6, <1>7, LeaveStep DEF j

LEMMA CrashInvariant == ASSUME IInv, NEW w \in Workers, Crash(w) PROVE IInv'
  <1> DEFINE j == worker[w].job
             row == jobs[j]
  <1>1. worker[w].pc # "idle"
    BY DEF Crash
  <1>2. /\ j \in Jobs /\ jobs[j] \in JobRow
        /\ jobs[j].attempts \in Nat /\ retries[j] \in Nat
        /\ Cardinality(RunnersOf(j)) \in Nat
        /\ retries[j] + Cardinality(RunnersOf(j)) <= jobs[j].attempts
        /\ retries[j] < MaxAttempts
        /\ jobs[j].status # "absent"
    BY <1>1, BusyFacts
  <1>3. /\ jobs' = [jobs EXCEPT ![j] = row]
        /\ worker' = [worker EXCEPT ![w] = Idle]
        /\ UNCHANGED <<jobs, handled, fatal, retries>>
        /\ crashes' \in Nat /\ fatal' \subseteq Jobs /\ retries' \in [Jobs -> Nat]
    BY DEF Crash, IInv, TypeOK
  <1>4. /\ row.lease # "none" => row.status = "running"
        /\ row.status = "succeeded" => j \in handled
        /\ row.status = "dead_letter" => row.attempts >= MaxAttempts \/ j \in fatal'
    BY <1>2, <1>3 DEF IInv, LeaseMeansRunning, SucceededWasHandled, DeadLettersAreEarned
  <1>5. retries'[j] + Cardinality(RunnersOf(j)) - 1 <= row.attempts
    BY <1>2, <1>3
  <1>6. /\ row \in JobRow /\ row.attempts = jobs[j].attempts /\ row.status # "absent"
    BY <1>2
  <1> HIDE DEF j, row
  <1>7. QED
    BY <1>1, <1>2, <1>3, <1>4, <1>5, <1>6, LeaveStep DEF j

LEMMA StutterInvariant == ASSUME IInv, UNCHANGED vars PROVE IInv'
  BY DEF IInv, vars, TypeOK, BusyHasJob, SuccessWasHandled, ClaimsPayForRetries,
         AbsentIsUntouched, LeaseMeansRunning, RunnerHoldsLease, OneRunnerPerJob,
         OneRunnerPerJob, RetriesAreBounded, DeadLettersAreEarned, SucceededWasHandled,
         RunnersOf

LEMMA NextInvariant == IInv /\ [Next]_vars => IInv'
  <1> SUFFICES ASSUME IInv, [Next]_vars PROVE IInv'
    OBVIOUS
  <1>1. CASE \E j \in Jobs : Enqueue(j)
    BY <1>1, EnqueueInvariant
  <1>2. CASE \E j \in Jobs : Cancel(j)
    BY <1>2, CancelInvariant
  <1>3. CASE \E j \in Jobs : BackoffElapses(j)
    BY <1>3, BackoffInvariant
  <1>4. CASE \E j \in Jobs : LeaseLapses(j)
    BY <1>4, LapseInvariant
  <1>5. CASE \E w \in Workers, j \in Jobs : Claim(w, j)
    BY <1>5, ClaimInvariant
  <1>6. CASE \E w \in Workers : HandlerEnds(w)
    BY <1>6, HandlerInvariant
  <1>7. CASE \E w \in Workers : Complete(w)
    BY <1>7, CompleteInvariant
  <1>8. CASE \E w \in Workers : Retry(w)
    BY <1>8, RetryInvariant
  <1>9. CASE \E w \in Workers : DeadLetter(w)
    BY <1>9, DeadLetterInvariant
  <1>10. CASE \E w \in Workers : Crash(w)
    BY <1>10, CrashInvariant
  <1>11. CASE UNCHANGED vars
    BY <1>11, StutterInvariant
  <1>12. QED
    BY <1>1, <1>2, <1>3, <1>4, <1>5, <1>6, <1>7, <1>8, <1>9, <1>10, <1>11 DEF Next

LEMMA Invariance == Spec => []IInv
  <1>1. Init => IInv
    BY InitInvariant
  <1>2. IInv /\ [Next]_vars => IInv'
    BY NextInvariant
  <1>3. QED
    BY <1>1, <1>2, PTL DEF Spec

-----------------------------------------------------------------------------
(* The theorems.                                                           *)

\* The rows and the worker locals keep their types.
THEOREM TypeCorrect == Spec => []TypeOK
  <1>1. IInv => TypeOK
    BY DEF IInv
  <1>2. QED
    BY <1>1, Invariance, PTL

\* fail_job puts a job back fewer than max_attempts times, with any number of
\* workers that report late.
THEOREM RetriesBounded == Spec => []RetriesAreBounded
  <1>1. IInv => RetriesAreBounded
    BY DEF IInv
  <1>2. QED
    BY <1>1, Invariance, PTL

\* fail_job dead-letters only on an exhausted budget or a final failure.
THEOREM DeadLettersEarned == Spec => []DeadLettersAreEarned
  <1>1. IInv => DeadLettersAreEarned
    BY DEF IInv
  <1>2. QED
    BY <1>1, Invariance, PTL

\* complete_job is only ever reached after a side effect.
THEOREM SuccessesHandled == Spec => []SucceededWasHandled
  <1>1. IInv => SucceededWasHandled
    BY DEF IInv
  <1>2. QED
    BY <1>1, Invariance, PTL

\* If handlers end within their visibility timeout the lease of claim_next_job
\* is exclusive.
THEOREM LeaseIsExclusive == Spec => []OneRunnerPerJob
  <1>1. IInv => OneRunnerPerJob
    BY DEF IInv
  <1>2. QED
    BY <1>1, Invariance, PTL

-----------------------------------------------------------------------------
(* What a single step may do to the row of a job.                          *)

\* The actions that can be behind a changed row.
LEMMA WhoWrites ==
  ASSUME IInv, Next, NEW j \in Jobs, jobs'[j] # jobs[j]
  PROVE  \/ Enqueue(j) \/ Cancel(j) \/ BackoffElapses(j) \/ LeaseLapses(j)
         \/ \E w \in Workers : Claim(w, j)
         \/ \E w \in RunnersOf(j) : Complete(w) \/ Retry(w) \/ DeadLetter(w)
  <1> USE DEF IInv, TypeOK
  <1>1. CASE \E i \in Jobs : Enqueue(i)
    BY <1>1 DEF Enqueue
  <1>2. CASE \E i \in Jobs : Cancel(i)
    BY <1>2 DEF Cancel
  <1>3. CASE \E i \in Jobs : BackoffElapses(i)
    BY <1>3 DEF BackoffElapses
  <1>4. CASE \E i \in Jobs : LeaseLapses(i)
    BY <1>4 DEF LeaseLapses
  <1>5. CASE \E w \in Workers, i \in Jobs : Claim(w, i)
    BY <1>5 DEF Claim
  <1>6. CASE \E w \in Workers : HandlerEnds(w)
    BY <1>6 DEF HandlerEnds
  <1>7. CASE \E w \in Workers : Complete(w)
    <2>1. PICK w \in Workers : Complete(w)
      BY <1>7
    <2>2. worker[w].job = j
      BY <2>1 DEF Complete
    <2>3. w \in RunnersOf(j)
      BY <2>1, <2>2 DEF Complete, RunnersOf
    <2>4. QED
      BY <2>1, <2>3
  <1>8. CASE \E w \in Workers : Retry(w)
    <2>1. PICK w \in Workers : Retry(w)
      BY <1>8
    <2>2. worker[w].job = j
      BY <2>1 DEF Retry
    <2>3. w \in RunnersOf(j)
      BY <2>1, <2>2 DEF Retry, RunnersOf
    <2>4. QED
      BY <2>1, <2>3
  <1>9. CASE \E w \in Workers : DeadLetter(w)
    <2>1. PICK w \in Workers : DeadLetter(w)
      BY <1>9
    <2>2. worker[w].job = j
      BY <2>1 DEF DeadLetter
    <2>3. w \in RunnersOf(j)
      BY <2>1, <2>2 DEF DeadLetter, RunnersOf
    <2>4. QED
      BY <2>1, <2>3
  <1>10. CASE \E w \in Workers : Crash(w)
    BY <1>10 DEF Crash
  <1>11. QED
    BY <1>1, <1>2, <1>3, <1>4, <1>5, <1>6, <1>7, <1>8, <1>9, <1>10 DEF Next

\* The status that each of them leaves.
LEMMA StatusAfter ==
  ASSUME IInv, NEW j \in Jobs
  PROVE  /\ Enqueue(j) => jobs[j].status = "absent" /\ jobs'[j].status = "pending"
         /\ Cancel(j) => j \in Cancellable /\ jobs[j].status \notin Terminal
         /\ BackoffElapses(j) => jobs'[j].status = jobs[j].status
         /\ LeaseLapses(j) => jobs'[j].status = jobs[j].status
         /\ \A w \in Workers : Claim(w, j) =>
              /\ jobs[j].status \in {"pending", "running", "failed"}
              /\ jobs'[j].status = "running"
         /\ \A w \in RunnersOf(j) : Complete(w) => jobs'[j].status = "succeeded"
         /\ \A w \in RunnersOf(j) : Retry(w) => jobs'[j].status = "pending"
         /\ \A w \in RunnersOf(j) : DeadLetter(w) => jobs'[j].status = "dead_letter"
  <1>1. jobs \in [Jobs -> JobRow] /\ jobs[j] \in JobRow
    BY DEF IInv, TypeOK
  <1>2. Enqueue(j) => jobs[j].status = "absent" /\ jobs'[j].status = "pending"
    BY <1>1 DEF Enqueue, NoJob
  <1>3. Cancel(j) => j \in Cancellable /\ jobs[j].status \notin Terminal
    BY DEF Cancel
  <1>4. BackoffElapses(j) => jobs'[j].status = jobs[j].status
    BY <1>1 DEF BackoffElapses, JobRow
  <1>5. LeaseLapses(j) => jobs'[j].status = jobs[j].status
    BY <1>1 DEF LeaseLapses, JobRow
  <1>6. \A w \in Workers : Claim(w, j) =>
          /\ jobs[j].status \in {"pending", "running", "failed"}
          /\ jobs'[j].status = "running"
    BY <1>1 DEF Claim, Claimable, JobRow
  <1>7. \A w \in RunnersOf(j) : Complete(w) => jobs'[j].status = "succeeded"
    BY <1>1 DEF Complete, RunnersOf, JobRow
  <1>8. \A w \in RunnersOf(j) : Retry(w) => jobs'[j].status = "pending"
    BY <1>1 DEF Retry, RunnersOf, JobRow
  <1>9. \A w \in RunnersOf(j) : DeadLetter(w) => jobs'[j].status = "dead_letter"
    BY <1>1 DEF DeadLetter, RunnersOf, JobRow
  <1>10. QED
    BY <1>2, <1>3, <1>4, <1>5, <1>6, <1>7, <1>8, <1>9

\* Nobody runs a job with a timely handler that succeeded or is dead.
LEMMA SettledHasNoRunner ==
  ASSUME IInv, NEW j \in Timely, jobs[j].status \in {"succeeded", "dead_letter"}
  PROVE  RunnersOf(j) = {}
  <1> SUFFICES ASSUME NEW w \in RunnersOf(j) PROVE FALSE
    OBVIOUS
  <1>1. jobs[j].lease = "held" \/ jobs[j].status = "cancelled"
    BY DEF IInv, RunnerHoldsLease, RunnersOf
  <1>2. QED
    BY TimelyIsJobs, <1>1 DEF IInv, LeaseMeansRunning

\* If handlers end within their visibility timeout, complete_job and fail_job,
\* which put no condition on the row, never revise a success or a dead letter.
THEOREM SettledFinal == Spec => SettledIsFinal
  <1> DEFINE A == \A j \in Timely : jobs[j].status \in {"succeeded", "dead_letter"} =>
                    jobs'[j].status = jobs[j].status
  <1>1. IInv /\ [Next]_vars => [A]_vars
    <2> SUFFICES ASSUME IInv, Next, NEW j \in Timely,
                        jobs[j].status \in {"succeeded", "dead_letter"},
                        jobs'[j].status # jobs[j].status
                 PROVE  FALSE
      BY DEF vars
    <2>1. RunnersOf(j) = {}
      BY SettledHasNoRunner
    <2>2. \/ Enqueue(j) \/ Cancel(j) \/ BackoffElapses(j) \/ LeaseLapses(j)
          \/ \E w \in Workers : Claim(w, j)
      BY TimelyIsJobs, <2>1, WhoWrites
    <2>3. QED
      BY TimelyIsJobs, <2>2, StatusAfter DEF Terminal
  <1>2. QED
    BY <1>1, Invariance, PTL DEF Spec, SettledIsFinal

\* A job cancelled while idle stays cancelled and idle, however the handlers
\* behave.
THEOREM CancelledStays == Spec => CancelledIdleStays
  <1> DEFINE A == \A j \in Jobs :
                    (jobs[j].status = "cancelled" /\ RunnersOf(j) = {}) =>
                       (jobs'[j].status = "cancelled" /\ RunnersOf(j)' = {})
  <1>1. IInv /\ [Next]_vars => [A]_vars
    <2> SUFFICES ASSUME IInv, Next, NEW j \in Jobs,
                        jobs[j].status = "cancelled", RunnersOf(j) = {}
                 PROVE  jobs'[j].status = "cancelled" /\ RunnersOf(j)' = {}
      BY DEF vars
    <2>1. jobs'[j].status = "cancelled"
      <3> SUFFICES ASSUME jobs'[j].status # "cancelled" PROVE FALSE
        OBVIOUS
      <3>1. \/ Enqueue(j) \/ Cancel(j) \/ BackoffElapses(j) \/ LeaseLapses(j)
            \/ \E w \in Workers : Claim(w, j)
        BY WhoWrites
      <3>2. QED
        BY <3>1, StatusAfter DEF Terminal
    <2>2. RunnersOf(j)' = {}
      <3> SUFFICES ASSUME NEW v \in Workers, worker'[v].pc # "idle", worker'[v].job = j
                   PROVE  FALSE
        BY DEF RunnersOf
      <3>1. worker[v].pc = "idle" \/ worker[v].job # j
        BY DEF RunnersOf
      <3>2. \A w \in Workers : ~ Claim(w, j)
        BY StatusAfter
      <3>3. worker \in [Workers -> WorkerState] /\ Idle.pc = "idle"
        BY DEF IInv, TypeOK, Idle
      <3>4. CASE \E w \in Workers, i \in Jobs : Claim(w, i)
        <4>1. PICK w \in Workers, i \in Jobs : Claim(w, i)
          BY <3>4
        <4>2. i # j /\ worker[w].pc = "idle"
          BY <3>2, <4>1 DEF Claim
        <4>3. RunnersOf(j)' = RunnersOf(j)
          BY <4>1, <4>2, ClaimAddsRunner DEF Claim, IInv
        <4>4. QED
          BY <3>1, <4>3 DEF RunnersOf
      <3>5. CASE \E w \in Workers : HandlerEnds(w)
        BY <3>1, <3>3, <3>5 DEF HandlerEnds, WorkerState
      <3>6. CASE worker' = worker
        BY <3>1, <3>6
      <3>7. CASE \E w \in Workers : worker' = [worker EXCEPT ![w] = Idle]
        BY <3>1, <3>3, <3>7
      <3>8. QED
        BY <3>4, <3>5, <3>6, <3>7
        DEF Next, Enqueue, Cancel, BackoffElapses, LeaseLapses, Complete, Retry,
            DeadLetter, Crash
    <2>3. QED
      BY <2>1, <2>2
  <1>2. QED
    BY <1>1, Invariance, PTL DEF Spec, CancelledIdleStays

-----------------------------------------------------------------------------
(* The queue implements the ledger, as far as safety goes.                 *)

\* A step of the queue changes the outcome of one job at most.
LEMMA OneRowAtATime ==
  ASSUME IInv, Next, NEW i \in Jobs, NEW j \in Jobs,
         jobs'[i] # jobs[i], jobs'[j] # jobs[j]
  PROVE  i = j
  BY DEF IInv, TypeOK, Next, Enqueue, Cancel, BackoffElapses, LeaseLapses, Claim,
         HandlerEnds, Complete, Retry, DeadLetter, Crash

NothingCancelled == \A j \in Jobs \ Cancellable : jobs[j].status # "cancelled"

LEMMA NeverCancelled == Spec => []NothingCancelled
  <1>1. Init => NothingCancelled
    BY DEF Init, NothingCancelled, NoJob
  <1>2. IInv /\ NothingCancelled /\ [Next]_vars => NothingCancelled'
    <2> SUFFICES ASSUME IInv, NothingCancelled, Next, NEW j \in Jobs \ Cancellable,
                        jobs'[j].status = "cancelled"
                 PROVE  FALSE
      BY DEF vars, NothingCancelled
    <2>1. jobs[j].status # "cancelled"
      BY DEF NothingCancelled
    <2>2. QED
      BY <2>1, WhoWrites, StatusAfter
  <1>3. QED
    BY <1>1, <1>2, Invariance, PTL DEF Spec

\* A job whose handler ends within its visibility timeout and that is not to be
\* cancelled is open until it is settled, once.
THEOREM QueueImplementsLedger == Spec => LedgerSafety
  <1> DEFINE o == [j \in Orderly |-> OutcomeOf(jobs[j].status)]
  <1>1. Init => Ledger!Init
    BY TimelyIsJobs DEF Init, Ledger!Init, NoJob, OutcomeOf, Orderly
  <1>2. IInv /\ NothingCancelled /\ [Next]_vars => [Ledger!Next]_o
    <2> SUFFICES ASSUME IInv, NothingCancelled, Next, o' # o PROVE Ledger!Next
      BY DEF vars, OutcomeOf
    <2>0. \A j \in Orderly : j \in Jobs /\ j \in Timely /\ j \notin Cancellable
      BY WorkerJobsAssumption DEF Orderly
    <2>1. PICK j \in Orderly : OutcomeOf(jobs'[j].status) # OutcomeOf(jobs[j].status)
      OBVIOUS
    <2>2. \A i \in Orderly : i # j => jobs'[i] = jobs[i]
      BY <2>0, <2>1, OneRowAtATime
    <2>3. o' = [o EXCEPT ![j] = OutcomeOf(jobs'[j].status)]
      BY <2>2
    <2>4. ~ Cancel(j) /\ ~ BackoffElapses(j) /\ ~ LeaseLapses(j)
      BY <2>0, <2>1, StatusAfter
    <2>5. \A w \in Workers : ~ Claim(w, j)
      BY <2>0, <2>1, StatusAfter DEF OutcomeOf
    <2>6. CASE Enqueue(j)
      <3>1. o[j] = "absent" /\ OutcomeOf(jobs'[j].status) = "open"
        BY <2>0, <2>6, StatusAfter DEF OutcomeOf
      <3>2. Ledger!Open(j)
        BY <2>3, <3>1 DEF Ledger!Open
      <3>3. QED
        BY <3>2 DEF Ledger!Next
    <2>7. CASE \E w \in RunnersOf(j) : Complete(w) \/ Retry(w) \/ DeadLetter(w)
      <3>1. PICK w \in RunnersOf(j) : Complete(w) \/ Retry(w) \/ DeadLetter(w)
        BY <2>7
      <3>2. jobs[j].status \notin {"absent", "cancelled", "succeeded", "dead_letter"}
        BY <2>0, <3>1, BusyFacts, SettledHasNoRunner DEF RunnersOf, NothingCancelled
      <3>3. jobs[j].status \in JobStatus
        BY <2>0 DEF IInv, TypeOK, JobRow
      <3>4. o[j] = "open"
        BY <3>2, <3>3 DEF JobStatus, Terminal, OutcomeOf
      <3>5. jobs'[j].status \in {"succeeded", "dead_letter", "pending"}
        BY <2>0, <3>1, StatusAfter
      <3>6. OutcomeOf(jobs'[j].status) \in {"succeeded", "dead_letter"}
        BY <2>1, <3>4, <3>5 DEF OutcomeOf
      <3>7. Ledger!Settle(j)
        BY <2>3, <3>4, <3>6 DEF Ledger!Settle, Ledger!Settled
      <3>8. QED
        BY <3>7 DEF Ledger!Next
    <2>8. QED
      BY <2>0, <2>1, <2>4, <2>5, <2>6, <2>7, WhoWrites
  <1>3. QED
    BY <1>1, <1>2, Invariance, NeverCancelled, PTL DEF Spec, LedgerSafety, Ledger!Safety

-----------------------------------------------------------------------------
(* OrderConfirmed events.                                                   *)

\* A thread has an event exactly while it delivers it, and that event has left
\* the rest of its batch.
Shape ==
  \A d \in Dispatchers :
    /\ thread[d].event = NoEvent <=> thread[d].pc \in {"idle", "next"}
    /\ thread[d].event \notin thread[d].batch
    /\ thread[d].pc = "idle" => thread[d].batch = {}

\* What the consumer has done so far for the event it is at.
Progress ==
  \A d \in Dispatchers :
    /\ thread[d].pc = "unbind" => history[thread[d].event] >= 1
    /\ thread[d].pc \in {"attribute", "ack"} => thread[d].event \notin bound
    /\ thread[d].pc = "ack" => thread[d].event \in attributed

\* A session is unbound only after the order of its member was credited.
UnboundIsCredited == \A e \in Members : e \notin bound => history[e] >= 1

PublishedIsDone ==
  \A e \in Events : outbox[e].published => e \notin bound /\ e \in attributed

\* With timely dispatches, what a thread has is leased and not settled.
HeldIsLeased ==
  \A d \in Dispatchers : \A e \in Events :
    (e \in thread[d].batch \/ thread[d].event = e) =>
      /\ outbox[e].state = "pending"
      /\ outbox[e].lease = "held"
      /\ ~Settled(e)

\* With timely dispatches, the records a thread read are still those of now.
CreditsAreFresh ==
  \A d \in Dispatchers :
    /\ thread[d].pc \in {"credit", "unbind"} => thread[d].event \in bound
    /\ thread[d].pc = "credit" => thread[d].credits = history[thread[d].event]

\* An order is credited beyond its torn deliveries only from the credit on.
CreditsAreBounded ==
  \A e \in Events :
    /\ history[e] <= torn[e] + 1
    /\ (e \in bound /\ ~Torn(e)) => history[e] <= torn[e]

Done ==
  /\ Progress
  /\ UnboundIsCredited
  /\ PublishedIsDone
  /\ DeadEventsAreEarned

Exclusive ==
  /\ HeldIsLeased
  /\ OneHolder
  /\ PublishedOrDead
  /\ CreditsAreFresh
  /\ CreditsAreBounded

\* The inductive invariant.
EventsInv ==
  /\ OutboxTypeOK
  /\ Shape
  /\ Done
  /\ Punctual => Exclusive

-----------------------------------------------------------------------------
(* Types.                                                                  *)

LEMMA Constants ==
  /\ NoRow \in Row
  /\ IdleThread \in Thread
  /\ IdleThread.pc = "idle" /\ IdleThread.event = NoEvent /\ IdleThread.batch = {}
  /\ NoEvent \notin Events
  /\ Members \subseteq Events
  /\ MaxDeliveries \in Nat
  BY CheckoutOutboxAssumption DEF NoRow, Row, IdleThread, Thread, Labels

\* A step of one thread leaves the others as they are.
LEMMA ThreadUpdate ==
  ASSUME OutboxTypeOK, NEW d \in Dispatchers, NEW st \in Thread,
         thread' = [thread EXCEPT ![d] = st]
  PROVE  /\ thread' \in [Dispatchers -> Thread]
         /\ thread'[d] = st
         /\ \A c \in Dispatchers : c # d => thread'[c] = thread[c]
  BY DEF OutboxTypeOK

\* What a thread has after the outcome of a delivery.
LEMMA NextThread ==
  ASSUME OutboxTypeOK, NEW d \in Dispatchers, NextEvent(d)
  PROVE  /\ thread' \in [Dispatchers -> Thread]
         /\ thread'[d].pc = "next"
         /\ thread'[d].event = NoEvent
         /\ thread'[d].batch = thread[d].batch
         /\ \A c \in Dispatchers : c # d => thread'[c] = thread[c]
  <1> DEFINE st == [thread[d] EXCEPT !.pc = "next", !.event = NoEvent]
  <1>1. thread[d] \in Thread
    BY DEF OutboxTypeOK
  <1>2. /\ st \in Thread
        /\ st.pc = "next" /\ st.event = NoEvent /\ st.batch = thread[d].batch
    BY <1>1 DEF Thread, Labels
  <1>3. thread' = [thread EXCEPT ![d] = st]
    BY DEF NextEvent
  <1> HIDE DEF st
  <1>4. QED
    BY <1>2, <1>3, ThreadUpdate

LEMMA RowUpdate ==
  ASSUME OutboxTypeOK, NEW e \in Events, NEW row \in Row, outbox' = [outbox EXCEPT ![e] = row]
  PROVE  /\ outbox' \in [Events -> Row]
         /\ outbox'[e] = row
         /\ \A g \in Events : g # e => outbox'[g] = outbox[g]
  BY DEF OutboxTypeOK

\* The three outcomes of a delivery write the row of the event of the thread,
\* and nothing but that row and the thread.
LEMMA Outcome ==
  ASSUME OutboxTypeOK, Shape, NEW d \in Dispatchers, Ack(d) \/ NackRetry(d) \/ NackDead(d)
  PROVE  LET e == thread[d].event
         IN /\ e \in Events
            /\ outbox' \in [Events -> Row]
            /\ \A g \in Events : g # e => outbox'[g] = outbox[g]
            /\ outbox'[e].attempts = outbox[e].attempts
            /\ outbox'[e].state = outbox[e].state
            /\ Ack(d) => /\ thread[d].pc = "ack"
                         /\ outbox'[e].published
                         /\ outbox'[e].dead = outbox[e].dead
            /\ ~Ack(d) => outbox'[e].published = outbox[e].published
            /\ outbox'[e].dead => outbox[e].dead \/ outbox[e].attempts >= MaxDeliveries
            /\ thread' \in [Dispatchers -> Thread]
            /\ thread'[d].pc = "next"
            /\ thread'[d].event = NoEvent
            /\ thread'[d].batch = thread[d].batch
            /\ \A c \in Dispatchers : c # d => thread'[c] = thread[c]
            /\ UNCHANGED <<bound, history, attributed, spawned, faults, torn>>
  <1> DEFINE e == thread[d].event
  <1>1. thread[d] \in Thread /\ e \in Events
    BY DEF OutboxTypeOK, Thread, Shape, Ack, NackRetry, NackDead
  <1>2. outbox[e] \in Row
    BY <1>1 DEF OutboxTypeOK
  <1>3. NextEvent(d)
    BY DEF Ack, NackRetry, NackDead
  <1>4. UNCHANGED <<bound, history, attributed, spawned, faults, torn>>
    BY DEF Ack, NackRetry, NackDead
  <1>5. /\ outbox' \in [Events -> Row]
        /\ \A g \in Events : g # e => outbox'[g] = outbox[g]
        /\ outbox'[e].attempts = outbox[e].attempts
        /\ outbox'[e].state = outbox[e].state
        /\ Ack(d) => outbox'[e].published /\ outbox'[e].dead = outbox[e].dead
        /\ ~Ack(d) => outbox'[e].published = outbox[e].published
        /\ outbox'[e].dead => outbox[e].dead \/ outbox[e].attempts >= MaxDeliveries
    <2> DEFINE done == [outbox[e] EXCEPT !.published = TRUE, !.lease = "none"]
               again == [outbox[e] EXCEPT !.ready = FALSE, !.lease = "none"]
               lost == [outbox[e] EXCEPT !.dead = TRUE, !.lease = "none"]
    <2>1. /\ done \in Row /\ done.published /\ done.dead = outbox[e].dead
          /\ done.attempts = outbox[e].attempts /\ done.state = outbox[e].state
      BY <1>2 DEF Row
    <2>2. /\ again \in Row /\ again.published = outbox[e].published
          /\ again.dead = outbox[e].dead
          /\ again.attempts = outbox[e].attempts /\ again.state = outbox[e].state
      BY <1>2 DEF Row
    <2>3. /\ lost \in Row /\ lost.published = outbox[e].published
          /\ lost.attempts = outbox[e].attempts /\ lost.state = outbox[e].state
      BY <1>2 DEF Row
    <2>4. CASE Ack(d) /\ outbox[e].published
      BY <1>1, <1>2, <2>4 DEF Ack, OutboxTypeOK
    <2>5. CASE Ack(d) /\ ~outbox[e].published
      <3>1. outbox' = [outbox EXCEPT ![e] = done]
        BY <2>5 DEF Ack
      <3> HIDE DEF done
      <3>2. /\ outbox' \in [Events -> Row]
            /\ outbox'[e] = done
            /\ \A g \in Events : g # e => outbox'[g] = outbox[g]
        BY <1>1, <2>1, <3>1, RowUpdate
      <3>3. QED
        BY <2>1, <2>5, <3>2
    <2>6. CASE NackRetry(d)
      <3>1. outbox' = [outbox EXCEPT ![e] = again] /\ ~Ack(d)
        BY <2>6 DEF NackRetry, Ack
      <3> HIDE DEF again
      <3>2. /\ outbox' \in [Events -> Row]
            /\ outbox'[e] = again
            /\ \A g \in Events : g # e => outbox'[g] = outbox[g]
        BY <1>1, <2>2, <3>1, RowUpdate
      <3>3. QED
        BY <2>2, <3>1, <3>2
    <2>7. CASE NackDead(d)
      <3>1. outbox' = [outbox EXCEPT ![e] = lost] /\ ~Ack(d)
        BY <2>7 DEF NackDead, Ack
      <3>2. outbox[e].attempts >= MaxDeliveries
        BY <1>2, <2>7, Constants DEF NackDead, MayRedeliver, Row
      <3> HIDE DEF lost
      <3>3. /\ outbox' \in [Events -> Row]
            /\ outbox'[e] = lost
            /\ \A g \in Events : g # e => outbox'[g] = outbox[g]
        BY <1>1, <2>3, <3>1, RowUpdate
      <3>4. QED
        BY <2>3, <3>1, <3>2, <3>3
    <2>8. QED
      BY <2>4, <2>5, <2>6, <2>7
  <1>6. Ack(d) => thread[d].pc = "ack"
    BY DEF Ack
  <1>7. /\ thread' \in [Dispatchers -> Thread]
        /\ thread'[d].pc = "next"
        /\ thread'[d].event = NoEvent
        /\ thread'[d].batch = thread[d].batch
        /\ \A c \in Dispatchers : c # d => thread'[c] = thread[c]
    BY <1>3, NextThread
  <1>8. QED
    BY <1>1, <1>4, <1>5, <1>6, <1>7, Zenon

LEMMA InitEvents == OutboxInit => EventsInv
  <1> SUFFICES ASSUME OutboxInit PROVE EventsInv
    OBVIOUS
  <1>1. OutboxTypeOK
    BY Constants DEF OutboxInit, OutboxTypeOK
  <1>2. Shape
    BY Constants DEF OutboxInit, Shape
  <1>3. Done
    BY Constants DEF OutboxInit, Done, Progress, UnboundIsCredited, PublishedIsDone,
       DeadEventsAreEarned, NoRow, IdleThread
  <1>4. Exclusive
    BY Constants DEF OutboxInit, Exclusive, HeldIsLeased, OneHolder, HoldersOf, PublishedOrDead,
       CreditsAreFresh, CreditsAreBounded, NoRow, IdleThread
  <1>5. QED
    BY <1>1, <1>2, <1>3, <1>4 DEF EventsInv

\* The thread of every action that moves one thread, and what that thread has.
LEMMA TypeNext == OutboxTypeOK /\ Shape /\ [OutboxNext]_outboxVars => OutboxTypeOK'
  <1> SUFFICES ASSUME OutboxTypeOK, Shape, [OutboxNext]_outboxVars PROVE OutboxTypeOK'
    OBVIOUS
  <1>1. ASSUME NEW e \in Events, ConfirmOrder(e) PROVE OutboxTypeOK'
    <2>1. [NoRow EXCEPT !.state = "pending", !.ready = TRUE] \in Row
      BY DEF NoRow, Row
    <2>2. QED
      BY <1>1, <2>1 DEF ConfirmOrder, OutboxTypeOK
  <1>2. ASSUME NEW e \in Events, EventBackoffElapses(e) \/ BatchLeaseLapses(e) PROVE OutboxTypeOK'
    <2>1. \E row \in Row : outbox' = [outbox EXCEPT ![e] = row]
      <3>1. outbox[e] \in Row
        BY DEF OutboxTypeOK
      <3>2. /\ [outbox[e] EXCEPT !.ready = TRUE] \in Row
            /\ [outbox[e] EXCEPT !.lease = "lapsed"] \in Row
        BY <3>1 DEF Row
      <3>3. QED
        BY <1>2, <3>2 DEF EventBackoffElapses, BatchLeaseLapses
    <2>2. QED
      BY <1>2, <2>1, RowUpdate DEF EventBackoffElapses, BatchLeaseLapses, OutboxTypeOK
  <1>3. CASE OtherOrder
    BY <1>3 DEF OtherOrder, OutboxTypeOK
  <1>4. ASSUME NEW d \in Dispatchers, Dispatch(d) PROVE OutboxTypeOK'
    <2>1. PICK batch \in SUBSET DueEvents :
            /\ outbox' = [e \in Events |->
                            IF e \in batch
                            THEN [outbox[e] EXCEPT !.attempts = outbox[e].attempts + 1,
                                                   !.lease = "held"]
                            ELSE outbox[e]]
            /\ thread' = [thread EXCEPT ![d] = [IdleThread EXCEPT !.pc = "next", !.batch = batch]]
      BY <1>4 DEF Dispatch
    <2>2. [IdleThread EXCEPT !.pc = "next", !.batch = batch] \in Thread
      BY DEF IdleThread, Thread, Labels, DueEvents
    <2>3. thread' \in [Dispatchers -> Thread]
      BY <2>1, <2>2, ThreadUpdate
    <2>4. \A e \in Events :
            [outbox[e] EXCEPT !.attempts = outbox[e].attempts + 1, !.lease = "held"] \in Row
      <3>1. TAKE e \in Events
      <3>2. outbox[e] \in Row /\ outbox[e].attempts + 1 \in Nat
        BY DEF OutboxTypeOK, Row
      <3>3. QED
        BY <3>2 DEF Row
    <2>5. outbox' \in [Events -> Row]
      <3>1. \A e \in Events : outbox[e] \in Row
        BY DEF OutboxTypeOK
      <3>2. QED
        BY <2>1, <2>4, <3>1
    <2>6. spawned' \in Nat
      <3>1. spawned > 0 /\ spawned' = spawned - 1
        BY <1>4 DEF Dispatch
      <3>2. QED
        BY <3>1 DEF OutboxTypeOK
    <2>7. QED
      BY <1>4, <2>3, <2>5, <2>6 DEF Dispatch, OutboxTypeOK
  <1>5. ASSUME NEW d \in Dispatchers, DispatchFails(d) PROVE OutboxTypeOK'
    BY <1>5 DEF DispatchFails, OutboxTypeOK
  <1>6. ASSUME NEW d \in Dispatchers, Deliver(d) PROVE OutboxTypeOK'
    <2>1. PICK e \in thread[d].batch :
            thread' = [thread EXCEPT ![d] =
              [thread[d] EXCEPT !.batch = thread[d].batch \ {e}, !.event = e,
                                !.credits = history[e],
                                !.pc = IF e \in bound THEN "credit" ELSE "attribute"]]
      BY <1>6 DEF Deliver, OutboxTypeOK
    <2>2. thread[d] \in Thread /\ e \in Events /\ history[e] \in Nat
      BY DEF OutboxTypeOK, Thread
    <2>3. QED
      BY <1>6, <2>1, <2>2, ThreadUpdate DEF Deliver, OutboxTypeOK, Thread, Labels
  <1>7. ASSUME NEW d \in Dispatchers,
               Credit(d) \/ Unbind(d) \/ Attribute(d) \/ Raise(d) \/ Return(d) \/ NackFails(d)
        PROVE  OutboxTypeOK'
    <2>1. thread[d] \in Thread
      BY DEF OutboxTypeOK
    <2>2. thread[d].pc \in {"credit", "unbind", "attribute"} => thread[d].event \in Events
      BY <2>1 DEF Shape, Thread
    <2>3. QED
      BY <1>7, <2>1, <2>2, Constants
         DEF Credit, Unbind, Attribute, Raise, Return, NackFails, OutboxTypeOK, Thread, Labels
  <1>8. ASSUME NEW d \in Dispatchers, Ack(d) \/ NackRetry(d) \/ NackDead(d) PROVE OutboxTypeOK'
    BY <1>8, Outcome DEF Ack, NackRetry, NackDead, OutboxTypeOK
  <1>9. CASE ProcessDies
    BY <1>9, Constants DEF ProcessDies, OutboxTypeOK
  <1>10. CASE UNCHANGED outboxVars
    BY <1>10 DEF outboxVars, OutboxTypeOK
  <1>11. QED
    BY <1>1, <1>2, <1>3, <1>4, <1>5, <1>6, <1>7, <1>8, <1>9, <1>10 DEF OutboxNext

\* The steps that a thread takes, as a change of its record.
LEMMA ShapeNext == OutboxTypeOK /\ Shape /\ [OutboxNext]_outboxVars => Shape'
  <1> SUFFICES ASSUME OutboxTypeOK, Shape, [OutboxNext]_outboxVars PROVE Shape'
    OBVIOUS
  <1>1. CASE UNCHANGED thread
    BY <1>1 DEF Shape
  <1>2. ASSUME NEW d \in Dispatchers, Dispatch(d) PROVE Shape'
    <2>1. PICK batch \in SUBSET DueEvents :
            thread' = [thread EXCEPT ![d] = [IdleThread EXCEPT !.pc = "next", !.batch = batch]]
      BY <1>2 DEF Dispatch
    <2>2. [IdleThread EXCEPT !.pc = "next", !.batch = batch] \in Thread
      BY DEF IdleThread, Thread, Labels, DueEvents
    <2>3. QED
      BY <2>1, <2>2, ThreadUpdate, Constants DEF Shape, IdleThread, DueEvents
  <1>3. ASSUME NEW d \in Dispatchers, Deliver(d) PROVE Shape'
    BY <1>3, Constants DEF Deliver, Shape, OutboxTypeOK, Thread
  <1>4. ASSUME NEW d \in Dispatchers,
               Credit(d) \/ Unbind(d) \/ Attribute(d) \/ Raise(d)
        PROVE  Shape'
    BY <1>4 DEF Credit, Unbind, Attribute, Raise, Shape, OutboxTypeOK, Thread
  <1>5. ASSUME NEW d \in Dispatchers, Return(d) \/ NackFails(d) PROVE Shape'
    BY <1>5, Constants DEF Return, NackFails, Shape, OutboxTypeOK
  <1>6. ASSUME NEW d \in Dispatchers, Ack(d) \/ NackRetry(d) \/ NackDead(d) PROVE Shape'
    <2>1. /\ thread'[d].pc = "next" /\ thread'[d].event = NoEvent
          /\ thread'[d].batch = thread[d].batch
          /\ \A c \in Dispatchers : c # d => thread'[c] = thread[c]
      BY <1>6, Outcome
    <2>2. NoEvent \notin thread[d].batch
      BY Constants DEF OutboxTypeOK, Thread
    <2>3. QED
      BY <2>1, <2>2 DEF Shape
  <1>7. CASE ProcessDies
    BY <1>7, Constants DEF ProcessDies, Shape
  <1>8. QED
    BY <1>1, <1>2, <1>3, <1>4, <1>5, <1>6, <1>7
       DEF OutboxNext, ConfirmOrder, EventBackoffElapses, BatchLeaseLapses, OtherOrder, DispatchFails, outboxVars

-----------------------------------------------------------------------------
(* What the steps do, in the form the invariants are about.                *)

\* A claim takes events that are neither settled nor leased.
LEMMA ClaimStep ==
  ASSUME OutboxTypeOK, NEW d \in Dispatchers, Dispatch(d)
  PROVE  \E batch \in SUBSET Events :
           /\ \A e \in batch : /\ outbox[e].state = "pending"
                               /\ outbox[e].lease # "held"
                               /\ ~Settled(e)
                               /\ outbox'[e].lease = "held"
           /\ \A e \in Events : /\ outbox'[e].state = outbox[e].state
                                /\ outbox'[e].published = outbox[e].published
                                /\ outbox'[e].dead = outbox[e].dead
                                /\ outbox'[e].attempts >= outbox[e].attempts
           /\ \A e \in Events \ batch : outbox'[e] = outbox[e]
           /\ thread[d].pc = "idle"
           /\ thread'[d].pc = "next" /\ thread'[d].event = NoEvent /\ thread'[d].batch = batch
           /\ \A c \in Dispatchers : c # d => thread'[c] = thread[c]
           /\ UNCHANGED <<bound, history, attributed, torn>>
  <1>1. PICK batch \in SUBSET DueEvents :
          /\ outbox' = [e \in Events |->
                          IF e \in batch
                          THEN [outbox[e] EXCEPT !.attempts = outbox[e].attempts + 1,
                                                 !.lease = "held"]
                          ELSE outbox[e]]
          /\ thread' = [thread EXCEPT ![d] = [IdleThread EXCEPT !.pc = "next", !.batch = batch]]
    BY DEF Dispatch
  <1>2. batch \subseteq Events
    BY DEF DueEvents
  <1>3. \A e \in batch : /\ outbox[e].state = "pending"
                         /\ outbox[e].lease # "held"
                         /\ ~Settled(e)
    BY DEF DueEvents
  <1>4. \A e \in Events : outbox[e] \in Row /\ outbox[e].attempts \in Nat
    BY DEF OutboxTypeOK, Row
  <1>5. \A e \in batch : /\ outbox'[e].lease = "held"
                         /\ outbox'[e].state = outbox[e].state
                         /\ outbox'[e].published = outbox[e].published
                         /\ outbox'[e].dead = outbox[e].dead
                         /\ outbox'[e].attempts = outbox[e].attempts + 1
    BY <1>1, <1>2, <1>4 DEF Row
  <1>6. \A e \in Events \ batch : outbox'[e] = outbox[e]
    BY <1>1
  <1>7. [IdleThread EXCEPT !.pc = "next", !.batch = batch] \in Thread
    BY <1>2 DEF IdleThread, Thread, Labels
  <1>8. /\ thread'[d].pc = "next" /\ thread'[d].event = NoEvent /\ thread'[d].batch = batch
        /\ \A c \in Dispatchers : c # d => thread'[c] = thread[c]
    BY <1>1, <1>7, ThreadUpdate DEF IdleThread
  <1>9. thread[d].pc = "idle" /\ UNCHANGED <<bound, history, attributed, torn>>
    BY DEF Dispatch
  <1>10. QED
    BY <1>2, <1>3, <1>4, <1>5, <1>6, <1>8, <1>9

\* A delivery moves one event of the batch to the consumer.
LEMMA DeliverStep ==
  ASSUME OutboxTypeOK, NEW d \in Dispatchers, Deliver(d)
  PROVE  \E e \in thread[d].batch :
           /\ e \in Events
           /\ thread[d].pc = "next"
           /\ thread'[d].pc = IF e \in bound THEN "credit" ELSE "attribute"
           /\ thread'[d].event = e
           /\ thread'[d].batch = thread[d].batch \ {e}
           /\ thread'[d].credits = history[e]
           /\ \A c \in Dispatchers : c # d => thread'[c] = thread[c]
           /\ UNCHANGED <<outbox, bound, history, attributed, torn>>
  <1>1. PICK e \in thread[d].batch :
          thread' = [thread EXCEPT ![d] =
            [thread[d] EXCEPT !.batch = thread[d].batch \ {e}, !.event = e,
                              !.credits = history[e],
                              !.pc = IF e \in bound THEN "credit" ELSE "attribute"]]
    BY DEF Deliver, OutboxTypeOK
  <1> DEFINE st == [thread[d] EXCEPT !.batch = thread[d].batch \ {e}, !.event = e,
                              !.credits = history[e],
                              !.pc = IF e \in bound THEN "credit" ELSE "attribute"]
  <1>2. thread[d] \in Thread /\ e \in Events /\ history[e] \in Nat
    BY DEF OutboxTypeOK, Thread
  <1>3. /\ st \in Thread
        /\ st.pc = IF e \in bound THEN "credit" ELSE "attribute"
        /\ st.event = e /\ st.batch = thread[d].batch \ {e} /\ st.credits = history[e]
    BY <1>2 DEF Thread, Labels
  <1>4. thread' = [thread EXCEPT ![d] = st]
    BY <1>1
  <1> HIDE DEF st
  <1>5. /\ thread'[d] = st
        /\ \A c \in Dispatchers : c # d => thread'[c] = thread[c]
    BY <1>3, <1>4, ThreadUpdate
  <1>6. thread[d].pc = "next" /\ UNCHANGED <<outbox, bound, history, attributed, torn>>
    BY DEF Deliver
  <1>7. QED
    BY <1>2, <1>3, <1>5, <1>6

\* The other steps of the consumer only move its label.
LEMMA LabelStep ==
  ASSUME OutboxTypeOK, Shape, NEW d \in Dispatchers,
         Credit(d) \/ Unbind(d) \/ Attribute(d) \/ Raise(d)
  PROVE  /\ thread[d].event \in Events
         /\ thread'[d].event = thread[d].event
         /\ thread'[d].batch = thread[d].batch
         /\ thread'[d].credits = thread[d].credits
         /\ \A c \in Dispatchers : c # d => thread'[c] = thread[c]
         /\ UNCHANGED outbox
  <1>1. thread[d] \in Thread /\ thread[d].event \in Events
    BY DEF OutboxTypeOK, Thread, Shape, Credit, Unbind, Attribute, Raise
  <1>2. \E label \in Labels : thread' = [thread EXCEPT ![d] = [thread[d] EXCEPT !.pc = label]]
    BY DEF Credit, Unbind, Attribute, Raise, Labels
  <1>3. PICK label \in Labels : thread' = [thread EXCEPT ![d] = [thread[d] EXCEPT !.pc = label]]
    BY <1>2
  <1> DEFINE st == [thread[d] EXCEPT !.pc = label]
  <1>4. /\ st \in Thread /\ st.event = thread[d].event
        /\ st.batch = thread[d].batch /\ st.credits = thread[d].credits
    BY <1>1 DEF Thread
  <1> HIDE DEF st
  <1>5. thread' = [thread EXCEPT ![d] = st]
    BY <1>3 DEF st
  <1>6. UNCHANGED outbox
    BY DEF Credit, Unbind, Attribute, Raise
  <1>7. QED
    BY <1>1, <1>4, <1>5, <1>6, ThreadUpdate

\* A thread that gives up or is done has nothing any more.
LEMMA ThreadLeaves ==
  ASSUME OutboxTypeOK, NEW d \in Dispatchers, Return(d) \/ NackFails(d)
  PROVE  /\ thread'[d].pc = "idle" /\ thread'[d].event = NoEvent /\ thread'[d].batch = {}
         /\ \A c \in Dispatchers : c # d => thread'[c] = thread[c]
         /\ UNCHANGED <<outbox, bound, history, attributed, torn>>
  <1>1. thread' = [thread EXCEPT ![d] = IdleThread]
    BY DEF Return, NackFails
  <1>2. UNCHANGED <<outbox, bound, history, attributed, torn>>
    BY DEF Return, NackFails
  <1>3. QED
    BY <1>1, <1>2, ThreadUpdate, Constants

\* A step of the clock changes ready or lease of one event, nothing else.
LEMMA ClockStep ==
  ASSUME OutboxTypeOK, NEW e \in Events, EventBackoffElapses(e) \/ BatchLeaseLapses(e)
  PROVE  /\ \A g \in Events : g # e => outbox'[g] = outbox[g]
         /\ \A g \in Events : /\ outbox'[g].state = outbox[g].state
                              /\ outbox'[g].published = outbox[g].published
                              /\ outbox'[g].dead = outbox[g].dead
                              /\ outbox'[g].attempts = outbox[g].attempts
         /\ EventBackoffElapses(e) => outbox'[e].lease = outbox[e].lease
         /\ UNCHANGED <<bound, history, attributed, thread, torn>>
  <1> DEFINE ready == [outbox[e] EXCEPT !.ready = TRUE]
             lapsed == [outbox[e] EXCEPT !.lease = "lapsed"]
  <1>1. outbox[e] \in Row
    BY DEF OutboxTypeOK
  <1>2. /\ ready \in Row /\ ready.lease = outbox[e].lease
        /\ ready.state = outbox[e].state /\ ready.published = outbox[e].published
        /\ ready.dead = outbox[e].dead /\ ready.attempts = outbox[e].attempts
    BY <1>1 DEF Row
  <1>3. /\ lapsed \in Row
        /\ lapsed.state = outbox[e].state /\ lapsed.published = outbox[e].published
        /\ lapsed.dead = outbox[e].dead /\ lapsed.attempts = outbox[e].attempts
    BY <1>1 DEF Row
  <1>4. UNCHANGED <<bound, history, attributed, thread, torn>>
    BY DEF EventBackoffElapses, BatchLeaseLapses
  <1>5. /\ EventBackoffElapses(e) => outbox' = [outbox EXCEPT ![e] = ready]
        /\ BatchLeaseLapses(e) => outbox' = [outbox EXCEPT ![e] = lapsed]
    BY DEF EventBackoffElapses, BatchLeaseLapses
  <1> HIDE DEF ready, lapsed
  <1>6. CASE EventBackoffElapses(e)
    BY <1>2, <1>4, <1>5, <1>6, RowUpdate
  <1>7. CASE ~EventBackoffElapses(e)
    BY <1>3, <1>4, <1>5, <1>7, RowUpdate
  <1>8. QED
    BY <1>6, <1>7

\* A confirmation adds the row of an event that had none.
LEMMA ConfirmStep ==
  ASSUME OutboxTypeOK, NEW e \in Events, ConfirmOrder(e)
  PROVE  /\ outbox[e].state = "absent"
         /\ \A g \in Events : g # e => outbox'[g] = outbox[g]
         /\ ~outbox'[e].published /\ ~outbox'[e].dead
         /\ UNCHANGED <<bound, history, attributed, thread, torn>>
  <1> DEFINE row == [NoRow EXCEPT !.state = "pending", !.ready = TRUE]
  <1>1. row \in Row /\ ~row.published /\ ~row.dead
    BY DEF NoRow, Row
  <1>2. outbox' = [outbox EXCEPT ![e] = row]
    BY DEF ConfirmOrder
  <1>3. outbox[e].state = "absent" /\ UNCHANGED <<bound, history, attributed, thread, torn>>
    BY DEF ConfirmOrder
  <1> HIDE DEF row
  <1>4. QED
    BY <1>1, <1>2, <1>3, RowUpdate

-----------------------------------------------------------------------------
(* The consumer is done before an event is published.                      *)

LEMMA DoneNext == OutboxTypeOK /\ Shape /\ Done /\ [OutboxNext]_outboxVars => Done'
  <1> SUFFICES ASSUME OutboxTypeOK, Shape, Done, [OutboxNext]_outboxVars PROVE Done'
    OBVIOUS
  <1> USE DEF Done, Progress, UnboundIsCredited, PublishedIsDone, DeadEventsAreEarned
  <1>0. /\ MaxDeliveries \in Nat
        /\ Members \subseteq Events
        /\ \A e \in Events : history[e] \in Nat /\ outbox[e].attempts \in Nat
        /\ \A e \in Events : outbox'[e].attempts \in Nat
    BY Constants, TypeNext DEF OutboxTypeOK, Row
  <1>1. ASSUME NEW e \in Events, ConfirmOrder(e) PROVE Done'
    BY <1>1, ConfirmStep
  <1>2. ASSUME NEW e \in Events, EventBackoffElapses(e) \/ BatchLeaseLapses(e) PROVE Done'
    BY <1>2, ClockStep
  <1>3. CASE OtherOrder
    BY <1>3 DEF OtherOrder
  <1>4. ASSUME NEW d \in Dispatchers, Dispatch(d) PROVE Done'
    BY <1>0, <1>4, ClaimStep
  <1>5. ASSUME NEW d \in Dispatchers, DispatchFails(d) PROVE Done'
    BY <1>5 DEF DispatchFails
  <1>6. ASSUME NEW d \in Dispatchers, Deliver(d) PROVE Done'
    BY <1>6, DeliverStep
  <1>7. ASSUME NEW d \in Dispatchers, Credit(d) PROVE Done'
    <2>1. /\ thread'[d].pc = "unbind"
          /\ history'[thread[d].event] >= 1
          /\ \A e \in Events : e # thread[d].event => history'[e] = history[e]
          /\ UNCHANGED <<bound, attributed>>
      <3>1. thread[d] \in Thread /\ thread[d].event \in Events
        BY <1>7, LabelStep DEF OutboxTypeOK
      <3>2. history' = [history EXCEPT ![thread[d].event] = thread[d].credits + 1]
        BY <1>7 DEF Credit
      <3>3. thread[d].credits + 1 >= 1
        BY <3>1 DEF Thread
      <3>4. thread'[d].pc = "unbind" /\ UNCHANGED <<bound, attributed>>
        BY <1>7, <3>1 DEF Credit, OutboxTypeOK, Thread
      <3>5. QED
        BY <3>1, <3>2, <3>3, <3>4 DEF OutboxTypeOK
    <2>2. \A e \in Events : history[e] >= 1 => history'[e] >= 1
      BY <2>1
    <2>3. \A c \in Dispatchers : thread[c].pc = "unbind" => thread[c].event \in Events
      BY DEF OutboxTypeOK, Thread, Shape
    <2>4. QED
      BY <1>0, <1>7, <2>1, <2>2, <2>3, LabelStep
  <1>8. ASSUME NEW d \in Dispatchers, Unbind(d) PROVE Done'
    <2>1. /\ thread[d].pc = "unbind" /\ thread'[d].pc = "attribute"
          /\ bound' = bound \ {thread[d].event}
          /\ UNCHANGED <<history, attributed>>
      BY <1>8 DEF Unbind, OutboxTypeOK, Thread
    <2>2. QED
      BY <1>8, <2>1, LabelStep
  <1>9. ASSUME NEW d \in Dispatchers, Attribute(d) PROVE Done'
    <2>1. /\ thread[d].pc = "attribute" /\ thread'[d].pc = "ack"
          /\ attributed' = attributed \cup {thread[d].event}
          /\ UNCHANGED <<history, bound>>
      BY <1>9 DEF Attribute, OutboxTypeOK, Thread
    <2>2. QED
      BY <1>9, <2>1, LabelStep
  <1>10. ASSUME NEW d \in Dispatchers, Raise(d) PROVE Done'
    <2>1. thread'[d].pc = "nack" /\ UNCHANGED <<history, bound, attributed>>
      BY <1>10 DEF Raise, OutboxTypeOK, Thread
    <2>2. QED
      BY <1>10, <2>1, LabelStep
  <1>11. ASSUME NEW d \in Dispatchers, Return(d) \/ NackFails(d) PROVE Done'
    BY <1>11, ThreadLeaves
  <1>12. ASSUME NEW d \in Dispatchers, Ack(d) PROVE Done'
    BY <1>0, <1>12, Outcome
  <1>13. ASSUME NEW d \in Dispatchers, NackRetry(d) \/ NackDead(d) PROVE Done'
    <2>1. ~Ack(d)
      BY <1>13 DEF NackRetry, NackDead, Ack
    <2>2. QED
      BY <1>0, <1>13, <2>1, Outcome
  <1>14. CASE ProcessDies
    BY <1>14, Constants DEF ProcessDies
  <1>15. CASE UNCHANGED outboxVars
    BY <1>15 DEF outboxVars
  <1>16. QED
    BY <1>1, <1>2, <1>3, <1>4, <1>5, <1>6, <1>7, <1>8, <1>9, <1>10, <1>11, <1>12, <1>13,
       <1>14, <1>15 DEF OutboxNext

-----------------------------------------------------------------------------
(* With timely dispatches an event has one holder and one outcome.          *)

LEMMA HeldNext ==
  ASSUME OutboxTypeOK, Shape, Exclusive, Punctual, [OutboxNext]_outboxVars
  PROVE  HeldIsLeased' /\ OneHolder' /\ PublishedOrDead'
  <1> USE DEF Exclusive, HeldIsLeased, OneHolder, HoldersOf, PublishedOrDead, Settled
  <1> DEFINE Goal == HeldIsLeased /\ OneHolder /\ PublishedOrDead
  <1>1. ASSUME NEW e \in Events, ConfirmOrder(e) PROVE Goal'
    BY <1>1, ConfirmStep
  <1>2. ASSUME NEW e \in Events, EventBackoffElapses(e) PROVE Goal'
    BY <1>2, ClockStep
  <1>3. ASSUME NEW e \in Events, BatchLeaseLapses(e) PROVE Goal'
    <2>1. HoldersOf(e) = {}
      BY <1>3 DEF BatchLeaseLapses
    <2>2. QED
      BY <1>3, <2>1, ClockStep
  <1>4. CASE OtherOrder
    BY <1>4 DEF OtherOrder
  <1>5. ASSUME NEW d \in Dispatchers, Dispatch(d) PROVE Goal'
    BY <1>5, ClaimStep, Constants
  <1>6. ASSUME NEW d \in Dispatchers, DispatchFails(d) PROVE Goal'
    BY <1>6 DEF DispatchFails
  <1>7. ASSUME NEW d \in Dispatchers, Deliver(d) PROVE Goal'
    BY <1>7, DeliverStep
  <1>8. ASSUME NEW d \in Dispatchers, Credit(d) \/ Unbind(d) \/ Attribute(d) \/ Raise(d)
        PROVE  Goal'
    BY <1>8, LabelStep
  <1>9. ASSUME NEW d \in Dispatchers, Return(d) \/ NackFails(d) PROVE Goal'
    BY <1>9, ThreadLeaves, Constants
  <1>10. ASSUME NEW d \in Dispatchers, Ack(d) \/ NackRetry(d) \/ NackDead(d) PROVE Goal'
    <2> DEFINE e == thread[d].event
    <2>1. /\ e \in Events
          /\ e \notin thread[d].batch
          /\ \A c \in Dispatchers : c # d => e \notin thread[c].batch /\ thread[c].event # e
          /\ ~outbox[e].published /\ ~outbox[e].dead
      BY <1>10, Outcome DEF Shape
    <2>2. ~(outbox'[e].published /\ outbox'[e].dead)
      BY <1>10, <2>1, Outcome, Zenon
    <2>3. /\ \A g \in Events : g # e => outbox'[g] = outbox[g]
          /\ thread'[d].event = NoEvent
          /\ thread'[d].batch = thread[d].batch
          /\ \A c \in Dispatchers : c # d => thread'[c] = thread[c]
      BY <1>10, Outcome, Zenon
    <2>4. QED
      BY <2>1, <2>2, <2>3, Constants
  <1>11. CASE ProcessDies
    BY <1>11, Constants DEF ProcessDies
  <1>12. CASE UNCHANGED outboxVars
    BY <1>12 DEF outboxVars
  <1>13. QED
    BY <1>1, <1>2, <1>3, <1>4, <1>5, <1>6, <1>7, <1>8, <1>9, <1>10, <1>11, <1>12 DEF OutboxNext

\* With timely dispatches the other threads have another event.
LEMMA Alone ==
  ASSUME OutboxTypeOK, Exclusive, NEW d \in Dispatchers, NEW c \in Dispatchers, c # d,
         thread[d].event \in Events
  PROVE  thread[c].event # thread[d].event
  BY DEF Exclusive, OneHolder, HoldersOf

\* The deliveries between credit and unbinding are those of the threads.
LEMMA TornMoves ==
  ASSUME OutboxTypeOK, NEW d \in Dispatchers,
         \A c \in Dispatchers : c # d => thread'[c] = thread[c],
         NEW e \in Events,
         (thread'[d].pc = "unbind" /\ thread'[d].event = e)
            <=> (thread[d].pc = "unbind" /\ thread[d].event = e)
  PROVE  Torn(e)' <=> Torn(e)
  BY DEF Torn

\* A step that neither credits, unbinds nor tears keeps the credits explained.
LEMMA CreditsKept ==
  ASSUME OutboxTypeOK, Exclusive, UNCHANGED <<bound, history, torn>>,
         NEW d \in Dispatchers,
         \A c \in Dispatchers : c # d => thread'[c] = thread[c],
         thread[d].pc # "unbind", thread'[d].pc # "unbind",
         thread'[d].pc = "credit" => /\ thread'[d].event \in bound
                                     /\ thread'[d].credits = history[thread'[d].event]
  PROVE  CreditsAreFresh' /\ CreditsAreBounded'
  <1>1. \A e \in Events : Torn(e)' <=> Torn(e)
    BY DEF Torn
  <1>2. CreditsAreFresh'
    BY DEF Exclusive, CreditsAreFresh
  <1>3. CreditsAreBounded'
    BY <1>1 DEF Exclusive, CreditsAreBounded
  <1>4. QED
    BY <1>2, <1>3

\* Nor does a step that leaves the threads alone.
LEMMA CreditsUnmoved ==
  ASSUME Exclusive, UNCHANGED <<bound, history, torn, thread>>
  PROVE  CreditsAreFresh' /\ CreditsAreBounded'
  BY DEF Exclusive, CreditsAreFresh, CreditsAreBounded, Torn

\* The credit is what the thread read plus one, and its session still bound.
LEMMA CreditStep ==
  ASSUME OutboxTypeOK, Shape, Exclusive, NEW d \in Dispatchers, Credit(d)
  PROVE  CreditsAreFresh' /\ CreditsAreBounded'
  <1> DEFINE e == thread[d].event
  <1>1. /\ e \in Events /\ thread'[d].event = e
        /\ \A c \in Dispatchers : c # d => thread'[c] = thread[c]
    BY LabelStep
  <1>2. /\ thread[d].pc = "credit" /\ thread'[d].pc = "unbind"
        /\ e \in bound /\ thread[d].credits = history[e]
        /\ UNCHANGED <<bound, torn>>
    BY DEF Credit, OutboxTypeOK, Thread, Exclusive, CreditsAreFresh
  <1>3. history'[e] = history[e] + 1 /\ \A g \in Events : g # e => history'[g] = history[g]
    BY <1>1, <1>2 DEF Credit, OutboxTypeOK
  <1>4. \A c \in Dispatchers : c # d => thread[c].event # e
    BY <1>1, Alone
  <1>5. \A g \in Events : g = e => ~Torn(g) /\ Torn(g)'
    BY <1>1, <1>2, <1>4 DEF Torn
  <1>6. \A g \in Events : g # e => (Torn(g)' <=> Torn(g))
    BY <1>1, <1>2, TornMoves
  <1>7. CreditsAreFresh'
    <2>1. \A c \in Dispatchers : c # d /\ thread[c].pc = "credit" => thread[c].event \in Events
      BY DEF OutboxTypeOK, Thread, Shape
    <2>2. QED
      BY <1>1, <1>2, <1>3, <1>4, <2>1 DEF Exclusive, CreditsAreFresh
  <1>8. CreditsAreBounded'
    <2>1. history[e] <= torn[e] /\ history[e] \in Nat /\ torn[e] \in Nat
      BY <1>1, <1>2, <1>5 DEF Exclusive, CreditsAreBounded, OutboxTypeOK
    <2>2. history'[e] <= torn'[e] + 1
      BY <1>2, <1>3, <2>1
    <2>3. ASSUME NEW g \in Events
          PROVE  /\ history'[g] <= torn'[g] + 1
                 /\ (g \in bound' /\ ~Torn(g)') => history'[g] <= torn'[g]
      <3>1. CASE g = e
        BY <1>5, <2>2, <3>1
      <3>2. CASE g # e
        <4>1. /\ history[g] <= torn[g] + 1
              /\ (g \in bound /\ ~Torn(g)) => history[g] <= torn[g]
          BY DEF Exclusive, CreditsAreBounded
        <4>2. QED
          BY <1>2, <1>3, <1>6, <3>2, <4>1
      <3>3. QED
        BY <3>1, <3>2
    <2>4. QED
      BY <2>3 DEF CreditsAreBounded
  <1>9. QED
    BY <1>7, <1>8

LEMMA UnbindStep ==
  ASSUME OutboxTypeOK, Shape, Exclusive, NEW d \in Dispatchers, Unbind(d)
  PROVE  CreditsAreFresh' /\ CreditsAreBounded'
  <1> DEFINE e == thread[d].event
  <1>1. /\ e \in Events /\ thread'[d].event = e
        /\ \A c \in Dispatchers : c # d => thread'[c] = thread[c]
    BY LabelStep
  <1>2. /\ thread'[d].pc = "attribute"
        /\ bound' = bound \ {e}
        /\ UNCHANGED <<history, torn>>
    BY DEF Unbind, OutboxTypeOK, Thread
  <1>3. \A c \in Dispatchers : c # d => thread[c].event # e
    BY <1>1, Alone
  <1>4. \A g \in Events : g # e => (Torn(g)' <=> Torn(g))
    BY <1>1, <1>2, TornMoves
  <1>5. CreditsAreFresh'
    BY <1>1, <1>2, <1>3 DEF Exclusive, CreditsAreFresh
  <1>6. CreditsAreBounded'
    BY <1>2, <1>4 DEF Exclusive, CreditsAreBounded
  <1>7. QED
    BY <1>5, <1>6

\* A delivery that ends after the credit is counted as torn.
LEMMA RaiseStep ==
  ASSUME OutboxTypeOK, Shape, Exclusive, NEW d \in Dispatchers, Raise(d)
  PROVE  CreditsAreFresh' /\ CreditsAreBounded'
  <1> DEFINE e == thread[d].event
  <1>1. /\ e \in Events /\ thread'[d].event = e
        /\ \A c \in Dispatchers : c # d => thread'[c] = thread[c]
    BY LabelStep
  <1>2. thread'[d].pc = "nack" /\ UNCHANGED <<bound, history>>
    BY DEF Raise, OutboxTypeOK, Thread
  <1>3. CASE thread[d].pc # "unbind"
    <2>1. UNCHANGED torn
      BY <1>3 DEF Raise
    <2>2. QED
      BY <1>1, <1>2, <1>3, <2>1, CreditsKept
  <1>4. CASE thread[d].pc = "unbind"
    <2>1. torn[e] \in Nat /\ history[e] \in Nat
      BY <1>1 DEF OutboxTypeOK
    <2>2. torn'[e] = torn[e] + 1 /\ \A g \in Events : g # e => torn'[g] = torn[g]
      BY <1>1, <1>4 DEF Raise, OutboxTypeOK
    <2>3. \A g \in Events : g # e => (Torn(g)' <=> Torn(g))
      BY <1>1, <1>2, TornMoves
    <2>4. CreditsAreFresh'
      BY <1>1, <1>2 DEF Exclusive, CreditsAreFresh
    <2>5. history'[e] <= torn'[e] /\ history'[e] <= torn'[e] + 1
      BY <1>1, <1>2, <2>1, <2>2 DEF Exclusive, CreditsAreBounded
    <2>6. CreditsAreBounded'
      BY <1>2, <2>2, <2>3, <2>5 DEF Exclusive, CreditsAreBounded
    <2>7. QED
      BY <2>4, <2>6
  <1>5. QED
    BY <1>3, <1>4

LEMMA CrashStep ==
  ASSUME OutboxTypeOK, Exclusive, ProcessDies
  PROVE  CreditsAreFresh' /\ CreditsAreBounded'
  <1>1. /\ thread' = [d \in Dispatchers |-> IdleThread]
        /\ UNCHANGED <<bound, history>>
    BY DEF ProcessDies
  <1>2. CreditsAreFresh'
    BY <1>1, Constants DEF CreditsAreFresh
  <1>3. ASSUME NEW e \in Events
        PROVE  /\ history'[e] <= torn'[e] + 1
               /\ e \in bound' => history'[e] <= torn'[e]
    <2>1. history[e] \in Nat /\ torn[e] \in Nat
      BY DEF OutboxTypeOK
    <2>2. torn'[e] = torn[e] + IF Torn(e) THEN 1 ELSE 0
      BY DEF ProcessDies
    <2>3. /\ history[e] <= torn[e] + 1
          /\ (e \in bound /\ ~Torn(e)) => history[e] <= torn[e]
      BY DEF Exclusive, CreditsAreBounded
    <2>4. CASE Torn(e)
      BY <1>1, <2>1, <2>2, <2>3, <2>4
    <2>5. CASE ~Torn(e)
      BY <1>1, <2>1, <2>2, <2>3, <2>5
    <2>6. QED
      BY <2>4, <2>5
  <1>4. QED
    BY <1>2, <1>3 DEF CreditsAreBounded

LEMMA CreditsNext ==
  ASSUME OutboxTypeOK, Shape, Exclusive, [OutboxNext]_outboxVars
  PROVE  CreditsAreFresh' /\ CreditsAreBounded'
  <1> DEFINE Goal == CreditsAreFresh' /\ CreditsAreBounded'
  <1>1. ASSUME NEW e \in Events, ConfirmOrder(e) \/ EventBackoffElapses(e) \/ BatchLeaseLapses(e)
        PROVE  Goal
    BY <1>1, CreditsUnmoved DEF ConfirmOrder, EventBackoffElapses, BatchLeaseLapses
  <1>2. CASE OtherOrder
    BY <1>2, CreditsUnmoved DEF OtherOrder
  <1>3. ASSUME NEW d \in Dispatchers, DispatchFails(d) PROVE Goal
    BY <1>3, CreditsUnmoved DEF DispatchFails
  <1>4. ASSUME NEW d \in Dispatchers, Dispatch(d) PROVE Goal
    BY <1>4, ClaimStep, CreditsKept
  <1>5. ASSUME NEW d \in Dispatchers, Deliver(d) PROVE Goal
    BY <1>5, DeliverStep, CreditsKept
  <1>6. ASSUME NEW d \in Dispatchers, Credit(d) PROVE Goal
    BY <1>6, CreditStep
  <1>7. ASSUME NEW d \in Dispatchers, Unbind(d) PROVE Goal
    BY <1>7, UnbindStep
  <1>8. ASSUME NEW d \in Dispatchers, Attribute(d) PROVE Goal
    <2>1. /\ thread[d].pc = "attribute" /\ thread'[d].pc = "ack"
          /\ UNCHANGED <<bound, history, torn>>
      BY <1>8 DEF Attribute, OutboxTypeOK, Thread
    <2>2. QED
      BY <1>8, <2>1, LabelStep, CreditsKept
  <1>9. ASSUME NEW d \in Dispatchers, Raise(d) PROVE Goal
    BY <1>9, RaiseStep
  <1>10. ASSUME NEW d \in Dispatchers, Return(d) \/ NackFails(d) PROVE Goal
    <2>1. thread[d].pc # "unbind"
      BY <1>10 DEF Return, NackFails
    <2>2. QED
      BY <1>10, <2>1, ThreadLeaves, CreditsKept
  <1>11. ASSUME NEW d \in Dispatchers, Ack(d) \/ NackRetry(d) \/ NackDead(d) PROVE Goal
    <2>1. thread[d].pc # "unbind"
      BY <1>11 DEF Ack, NackRetry, NackDead
    <2>2. /\ thread'[d].pc = "next"
          /\ \A c \in Dispatchers : c # d => thread'[c] = thread[c]
          /\ UNCHANGED <<bound, history, torn>>
      BY <1>11, Outcome, Zenon
    <2>3. QED
      BY <2>1, <2>2, CreditsKept
  <1>12. CASE ProcessDies
    BY <1>12, CrashStep
  <1>13. CASE UNCHANGED outboxVars
    BY <1>13, CreditsUnmoved DEF outboxVars
  <1>14. QED
    BY <1>1, <1>2, <1>3, <1>4, <1>5, <1>6, <1>7, <1>8, <1>9, <1>10, <1>11, <1>12, <1>13
       DEF OutboxNext

-----------------------------------------------------------------------------
(* The theorems.                                                           *)

LEMMA EventsInvariance == OutboxSpec => []EventsInv
  <1>1. EventsInv /\ [OutboxNext]_outboxVars => EventsInv'
    <2> SUFFICES ASSUME EventsInv, [OutboxNext]_outboxVars PROVE EventsInv'
      OBVIOUS
    <2>1. OutboxTypeOK' /\ Shape' /\ Done'
      BY TypeNext, ShapeNext, DoneNext DEF EventsInv
    <2>2. Punctual => Exclusive'
      BY HeldNext, CreditsNext DEF EventsInv, Exclusive
    <2>3. QED
      BY <2>1, <2>2 DEF EventsInv
  <1>2. QED
    BY InitEvents, <1>1, PTL DEF OutboxSpec

\* Rows, threads and counters stay well formed, for any number of events and
\* threads: what dispatch_outbox and the store may assume of each other.
THEOREM EventTypesCorrect == OutboxSpec => []OutboxTypeOK
  <1>1. EventsInv => OutboxTypeOK
    BY DEF EventsInv
  <1>2. QED
    BY <1>1, EventsInvariance, PTL

\* However dispatches overlap, outlive their leases, raise or crash, an event
\* dispatch_outbox has published was consumed to the end.
THEOREM PublishedWasConsumed == OutboxSpec => []PublishedIsConsumed
  <1>1. EventsInv => PublishedIsConsumed
    BY DEF EventsInv, Done, UnboundIsCredited, PublishedIsDone, PublishedIsConsumed
  <1>2. QED
    BY <1>1, EventsInvariance, PTL

\* mark_outbox_failed dead-letters no event that has attempts left.
THEOREM DeadEventsEarned == OutboxSpec => []DeadEventsAreEarned
  <1>1. EventsInv => DeadEventsAreEarned
    BY DEF EventsInv, Done
  <1>2. QED
    BY <1>1, EventsInvariance, PTL

\* If every dispatch works off its batch within the lease, pending_outbox never
\* gives an event to two of them.
THEOREM DeliveryIsExclusive == ASSUME Punctual PROVE OutboxSpec => []OneHolder
  <1>1. EventsInv => OneHolder
    BY DEF EventsInv, Exclusive
  <1>2. QED
    BY <1>1, EventsInvariance, PTL

\* Under the same assumption no event is both published and a dead letter.
THEOREM OneOutcome == ASSUME Punctual PROVE OutboxSpec => []PublishedOrDead
  <1>1. EventsInv => PublishedOrDead
    BY DEF EventsInv, Exclusive
  <1>2. QED
    BY <1>1, EventsInvariance, PTL

\* Under the same assumption finalize_checkout credits an order once, and once
\* more for each delivery that ended before the session was unbound.
THEOREM CreditsExplained == ASSUME Punctual PROVE OutboxSpec => []CreditsAreExplained
  <1>1. EventsInv => CreditsAreExplained
    BY DEF EventsInv, Exclusive, CreditsAreBounded, CreditsAreExplained, OutboxTypeOK
  <1>2. QED
    BY <1>1, EventsInvariance, PTL

\* Under the same assumption a published event is never delivered again.
THEOREM PublishedStaysDelivered == ASSUME Punctual PROVE OutboxSpec => NotDeliveredAgain
  <1>1. EventsInv /\ [OutboxNext]_outboxVars =>
          [\A d \in Dispatchers :
             (thread[d].event = NoEvent /\ thread'[d].event # NoEvent) =>
               ~outbox[thread'[d].event].published]_outboxVars
    <2> SUFFICES ASSUME EventsInv, [OutboxNext]_outboxVars, NEW d \in Dispatchers,
                        thread[d].event = NoEvent, thread'[d].event # NoEvent
                 PROVE  ~outbox[thread'[d].event].published
      OBVIOUS
    <2>1. OutboxTypeOK /\ Shape /\ HeldIsLeased
      BY DEF EventsInv, Exclusive
    <2>2. CASE Deliver(d)
      BY <2>1, <2>2, DeliverStep DEF HeldIsLeased, Settled
    <2>3. CASE ~Deliver(d)
      <3>1. thread[d].pc \in {"idle", "next"}
        BY <2>1 DEF Shape
      <3>2. \A c \in Dispatchers : c # d /\ Deliver(c) => thread'[d] = thread[d]
        BY <2>1, DeliverStep
      <3>3. \A c \in Dispatchers : Dispatch(c) => thread'[d].event = NoEvent
        BY <2>1, ClaimStep
      <3>4. \A c \in Dispatchers :
              Credit(c) \/ Unbind(c) \/ Attribute(c) \/ Raise(c) => thread'[d].event = NoEvent
        BY <2>1, LabelStep
      <3>5. \A c \in Dispatchers : Return(c) \/ NackFails(c) => thread'[d].event = NoEvent
        BY <2>1, ThreadLeaves
      <3>6. \A c \in Dispatchers :
              Ack(c) \/ NackRetry(c) \/ NackDead(c) => thread'[d].event = NoEvent
        BY <2>1, Outcome, Zenon
      <3>7. ~ProcessDies
        BY Constants DEF ProcessDies
      <3>8. thread' # thread
        OBVIOUS
      <3>9. QED
        BY <2>3, <3>2, <3>3, <3>4, <3>5, <3>6, <3>7, <3>8
           DEF OutboxNext, ConfirmOrder, EventBackoffElapses, BatchLeaseLapses, OtherOrder, DispatchFails, outboxVars
    <2>4. QED
      BY <2>2, <2>3
  <1>2. QED
    BY <1>1, EventsInvariance, PTL DEF OutboxSpec, NotDeliveredAgain

-----------------------------------------------------------------------------
(* Voice turns.                                                             *)

OnSqlite ==
  Locking = TRUE /\ Nil \notin Texts \cup Turns /\ Attempts \in Nat \ {0} /\ MaxVoiceFaults \in Nat

\* A row has the text of every phase that it has been through.
Shaped(row) ==
  /\ row.status \in {"assisting", "assistant_failed", "synthesizing", "completed",
                     "playback_failed"} <=> row.transcript # Nil
  /\ row.status \in {"synthesizing", "completed", "playback_failed"} <=> row.reply # Nil

\* What a run read of its turn is still so, or was not there yet.
Snapshot(r) ==
  /\ Shaped(r.copy)
  /\ r.copy.transcript \in {Nil, turn[r.turn].transcript}
  /\ r.copy.reply \in {Nil, turn[r.turn].reply}

\* The run that committed the reply, until it has remembered the turn.
Remembers(r) == r.pc = "remember" \/ (r.pc = "reread" /\ r.target = "synthesizing")

RunSound(r) ==
  /\ r.pc = "idle" <=> r.turn = Nil
  /\ r.pc # "idle" => turn[r.turn].status \in Statuses
  /\ r.pc \notin {"idle", "spawn", "get"} => Snapshot(r)
  /\ r.pc \in {"check", "write"} =>
       /\ r.target \in {"assisting", "synthesizing"} => r.text # Nil
       /\ r.target = "completed" => r.copy.status = "synthesizing"
  /\ r.pc = "tts" => r.copy.status = "synthesizing"
  /\ r.pc = "write" => turn[r.turn].status \in Expected(r.target)
  /\ r.pc = "reread" => /\ r.target # "accepted"
                        /\ r.target \in TerminalStatuses => turn[r.turn].status = r.target
  /\ r.pc = "enqueue" => r.copy.status = turn[r.turn].status /\ r.copy.status \in TerminalStatuses
  /\ Remembers(r) => turn[r.turn].reply # Nil /\ memory[r.turn] = 0

\* One run at a time holds the lock, and one remembers a turn.
OneTransition ==
  \A v, w \in Runs :
    /\ run[v].pc = "write" /\ run[w].pc = "write" => v = w
    /\ Remembers(run[v]) /\ Remembers(run[w]) /\ run[v].turn = run[w].turn => v = w

JournalIsThere ==
  \A t \in Turns : journal[t] = <<>> <=> turn[t].status \in {"absent", "gone"}

Tables ==
  /\ \A t \in Turns : Shaped(turn[t])
  /\ JournalIsThere /\ JournalTellsTurn /\ EvidenceTellsOutcome /\ RememberedOnce

\* The inductive invariant.
TurnInv == VoiceTurnTypeOK /\ (\A w \in Runs : RunSound(run[w])) /\ OneTransition /\ Tables

-----------------------------------------------------------------------------
(* Transitions.                                                            *)

\* What may precede the target of a transition.
LEMMA LegalFacts ==
  ASSUME NEW target, NEW status \in Expected(target)
  PROVE  /\ status \in Statuses \ TerminalStatuses
         /\ <<status, target>> \in Legal
         /\ target \in Statuses \ {"accepted"}
         /\ target = "transcribing" => status = "accepted"
         /\ target \in {"assisting", "transcription_failed"} => status = "transcribing"
         /\ target \in {"synthesizing", "assistant_failed"} => status = "assisting"
         /\ target \in {"completed", "playback_failed"} => status = "synthesizing"
  <1>1. <<status, target>> \in Legal /\ status \in Statuses
    BY DEF Expected
  <1>2. \A step \in Legal :
          /\ step[1] \notin TerminalStatuses /\ step[2] \in Statuses \ {"accepted"}
          /\ step[2] = "transcribing" => step[1] = "accepted"
          /\ step[2] \in {"assisting", "transcription_failed"} => step[1] = "transcribing"
          /\ step[2] \in {"synthesizing", "assistant_failed"} => step[1] = "assisting"
          /\ step[2] \in {"completed", "playback_failed"} => step[1] = "synthesizing"
    BY DEF Legal, TerminalStatuses, Statuses
  <1> QED BY <1>1, <1>2

LEMMA RunFacts ==
  ASSUME OnSqlite, TurnInv, NEW w \in Runs
  PROVE  /\ run[w] \in Run /\ RunSound(run[w])
         /\ run[w].pc # "idle" => run[w].turn \in Turns
  BY DEF OnSqlite, TurnInv, VoiceTurnTypeOK, Run, RunSound

\* A step of which only the thread's own record is the outcome.
LEMMA RunReplaced ==
  ASSUME OnSqlite, TurnInv, NEW w \in Runs, NEW p \in Run, RunSound(p),
         p.pc = "write" => \A v \in Runs \ {w} : run[v].pc # "write",
         Remembers(p) => Remembers(run[w]) /\ run[w].turn = p.turn,
         run' = [run EXCEPT ![w] = p],
         UNCHANGED <<turn, journal, enqueued, memory>>, voiceFaults' \in Nat
  PROVE  TurnInv'
  <1>1. /\ run' \in [Runs -> Run] /\ run'[w] = p
        /\ \A v \in Runs \ {w} : run'[v] = run[v]
    BY DEF TurnInv, VoiceTurnTypeOK
  <1>2. VoiceTurnTypeOK'
    BY <1>1 DEF TurnInv, VoiceTurnTypeOK
  <1>3. \A v \in Runs : RunSound(run'[v])
    BY <1>1 DEF TurnInv
  <1>4. \A v \in Runs : RunSound(run[v])'
    BY <1>3 DEF RunSound, Snapshot, Remembers
  <1>5. OneTransition'
    BY <1>1 DEF TurnInv, OneTransition, Remembers
  <1>6. Tables'
    BY DEF TurnInv, Tables, JournalIsThere, JournalTellsTurn, EvidenceTellsOutcome, RememberedOnce, Last
  <1> QED BY <1>2, <1>4, <1>5, <1>6 DEF TurnInv

\* A thread that has nothing to do.
LEMMA FreeSound ==
  ASSUME OnSqlite
  PROVE  /\ Free \in Run /\ Free.pc = "idle" /\ Free.turn = Nil
         /\ NoTurn \in TurnRow /\ Shaped(NoTurn)
         /\ RunSound(Free) /\ ~ Remembers(Free)
  <1>1. NoTurn \in TurnRow /\ NoTurn.status = "absent" /\ NoTurn.transcript = Nil
        /\ NoTurn.reply = Nil
    BY DEF NoTurn, TurnRow
  <1>2. Free \in Run /\ Free.pc = "idle" /\ Free.turn = Nil
    <2>1. 0 \in 0..Attempts - 1
      BY DEF OnSqlite
    <2> HIDE DEF NoTurn
    <2> QED BY <1>1, <2>1 DEF Free, Run, RunLabels, Statuses
  <1>3. Shaped(NoTurn)
    BY <1>1 DEF Shaped
  <1> QED BY <1>1, <1>2, <1>3 DEF RunSound, Remembers

LEMMA FinishSound ==
  ASSUME OnSqlite, TurnInv, NEW w \in Runs, Finish(w),
         UNCHANGED <<turn, journal, enqueued, memory>>, voiceFaults' \in Nat
  PROVE  TurnInv'
  BY FreeSound, RunReplaced DEF Finish

\* Rows of threads that go on, field by field.
LEMMA GoesOn ==
  ASSUME NEW r \in Run, NEW label \in RunLabels, NEW p, p = [r EXCEPT !.pc = label]
  PROVE  /\ p \in Run /\ p.pc = label /\ p.turn = r.turn /\ p.task = r.task /\ p.left = r.left
         /\ p.copy = r.copy /\ p.target = r.target /\ p.text = r.text
  BY DEF Run

LEMMA SpawnSound ==
  ASSUME OnSqlite, TurnInv, NEW w \in Runs, Spawn(w)
  PROVE  TurnInv'
  <1>1. PICK r : r = run[w]
    OBVIOUS
  <1>2. PICK p : p = [r EXCEPT !.pc = "get", !.left = Attempts - 1]
    OBVIOUS
  <1>3. r \in Run /\ RunSound(r) /\ r.pc = "spawn"
    BY <1>1, RunFacts DEF Spawn
  <1>4. p \in Run /\ p.pc = "get" /\ p.turn = r.turn
    <2>1. "get" \in RunLabels /\ Attempts - 1 \in 0..Attempts - 1
      BY DEF OnSqlite, RunLabels
    <2> QED BY <1>2, <1>3, <2>1 DEF Run
  <1>5. RunSound(p) /\ ~ Remembers(p)
    BY <1>3, <1>4 DEF RunSound, Remembers
  <1>6. run' = [run EXCEPT ![w] = p]
    BY <1>1, <1>2 DEF Spawn
  <1>7. voiceFaults' \in Nat /\ UNCHANGED <<turn, journal, enqueued, memory>>
    BY DEF Spawn, TurnInv, VoiceTurnTypeOK
  <1> QED BY <1>4, <1>5, <1>6, <1>7, RunReplaced

LEMMA ReplaySound ==
  ASSUME OnSqlite, TurnInv, NEW w \in Runs, NEW t \in Turns, Replay(w, t)
  PROVE  TurnInv'
  <1>1. PICK p : p = [Free EXCEPT !.pc = "get", !.turn = t]
    OBVIOUS
  <1>2. p \in Run /\ p.pc = "get" /\ p.turn = t
    <2>1. "get" \in RunLabels
      BY DEF RunLabels
    <2> HIDE DEF Free
    <2> QED BY <1>1, <2>1, FreeSound DEF Run
  <1>3. RunSound(p) /\ ~ Remembers(p)
    BY <1>2 DEF RunSound, Remembers, Replay, OnSqlite
  <1>4. run' = [run EXCEPT ![w] = p] /\ UNCHANGED <<turn, journal, enqueued, memory>>
        /\ voiceFaults' \in Nat
    BY <1>1 DEF Replay, TurnInv, VoiceTurnTypeOK
  <1> QED BY <1>2, <1>3, <1>4, RunReplaced

\* A run that has read its turn goes on with what it read.
LEMMA ReadSound ==
  ASSUME OnSqlite, TurnInv, NEW w \in Runs, NEW p \in Run,
         p.turn = run[w].turn, p.turn \in Turns,
         p.copy = turn[p.turn], p.copy.status \in Statuses,
         p.pc \notin {"idle", "write", "reread"},
         p.pc = "check" => p.target \in {"transcribing", "playback_failed"},
         p.pc = "tts" => p.copy.status = "synthesizing",
         p.pc = "enqueue" => p.copy.status \in TerminalStatuses,
         p.pc = "remember" => Remembers(run[w]),
         run' = [run EXCEPT ![w] = p],
         UNCHANGED <<turn, journal, enqueued, memory>>, voiceFaults' \in Nat
  PROVE  TurnInv'
  <1>1. RunSound(run[w]) /\ Shaped(p.copy)
    BY RunFacts DEF TurnInv, Tables
  <1>2. Remembers(p) => Remembers(run[w])
    BY DEF Remembers
  <1>3. Snapshot(p)
    BY <1>1 DEF Snapshot
  <1>4. RunSound(p)
    BY <1>1, <1>2, <1>3 DEF RunSound, OnSqlite
  <1> QED BY <1>2, <1>4, RunReplaced

\* The stage of a row, when there is one.
LEMMA StageFacts ==
  ASSUME NEW status
  PROVE  /\ Stage(status) \in {"stt", "assist", "tts", "idle"}
         /\ Stage(status) = "tts" => status = "synthesizing"
         /\ status = "accepted" => Stage(status) = "idle"
  BY DEF Stage

LEMMA GetSound ==
  ASSUME OnSqlite, TurnInv, NEW w \in Runs, Get(w)
  PROVE  TurnInv'
  <1> DEFINE row == turn[run[w].turn]
  <1>1. /\ run[w] \in Run /\ run[w].pc = "get" /\ run[w].turn \in Turns
        /\ row.status \in Statuses /\ run[w].text \in Texts \cup {Nil}
        /\ UNCHANGED <<turn, journal, enqueued, memory>> /\ voiceFaults' \in Nat
    BY RunFacts DEF Get, RunSound, TurnInv, VoiceTurnTypeOK, Run
  <1>2. ASSUME NEW label \in {"check", "stt", "assist", "tts"},
               label = "tts" => row.status = "synthesizing",
               run' = [run EXCEPT ![w] =
                        [@ EXCEPT !.copy = row, !.pc = label, !.target = "transcribing"]]
        PROVE  TurnInv'
    <2>1. PICK p : p = [run[w] EXCEPT !.copy = row, !.pc = label, !.target = "transcribing"]
      OBVIOUS
    <2>2. label \in RunLabels /\ "transcribing" \in Statuses /\ row \in TurnRow
      BY <1>1 DEF RunLabels, Statuses, TurnInv, VoiceTurnTypeOK
    <2>3. /\ p \in Run /\ p.turn = run[w].turn /\ p.copy = row /\ p.pc = label
          /\ p.target = "transcribing"
      BY <1>1, <2>1, <2>2 DEF Run
    <2>4. run' = [run EXCEPT ![w] = p]
      BY <1>2, <2>1
    <2>5. /\ p.pc \notin {"idle", "write", "reread", "enqueue", "remember"}
          /\ p.target \in {"transcribing", "playback_failed"}
          /\ p.turn \in Turns /\ p.copy = turn[p.turn] /\ p.copy.status \in Statuses
          /\ p.pc = "tts" => p.copy.status = "synthesizing"
      BY <1>1, <1>2, <2>3
    <2> HIDE DEF row
    <2> QED BY <1>1, <2>3, <2>4, <2>5, ReadSound
  <1>3. CASE row.status = "accepted"
    <2>1. run' = [run EXCEPT ![w] =
                   [@ EXCEPT !.copy = row, !.pc = "check", !.target = "transcribing"]]
      BY <1>3, StageFacts DEF Get
    <2> QED BY <1>2, <2>1
  <1>4. CASE row.status # "accepted" /\ Stage(row.status) = "idle"
    <2>1. Finish(w)
      BY <1>4 DEF Get
    <2> QED BY <1>1, <2>1, FinishSound
  <1>5. CASE row.status # "accepted" /\ Stage(row.status) # "idle"
    <2>1. PICK label \in {"stt", "assist", "tts"} : label = Stage(row.status)
      BY <1>5, StageFacts
    <2>2. run' = [run EXCEPT ![w] =
                   [@ EXCEPT !.copy = row, !.pc = label, !.target = "transcribing"]]
      BY <1>5, <2>1 DEF Get
    <2> QED BY <1>2, <2>1, <2>2, StageFacts
  <1> QED BY <1>3, <1>4, <1>5

LEMMA RetrySound ==
  ASSUME OnSqlite, TurnInv, NEW w \in Runs, RetryPhase(w)
  PROVE  TurnInv'
  <1>1. PICK r : r = run[w]
    OBVIOUS
  <1>2. r \in Run /\ RunSound(r) /\ r.pc \in Services
        /\ UNCHANGED <<turn, journal, enqueued, memory>> /\ voiceFaults' \in Nat
    BY <1>1, RunFacts DEF RetryPhase, TurnInv, VoiceTurnTypeOK
  <1>3. CASE r.left > 0
    <2>1. PICK p : p = [r EXCEPT !.pc = "get", !.left = r.left - 1]
      OBVIOUS
    <2>2. p \in Run /\ p.pc = "get" /\ p.turn = r.turn
      <3>1. "get" \in RunLabels /\ r.left - 1 \in 0..Attempts - 1
        BY <1>2, <1>3 DEF OnSqlite, RunLabels, Run
      <3> QED BY <1>2, <2>1, <3>1 DEF Run
    <2>3. RunSound(p) /\ ~ Remembers(p)
      BY <1>2, <2>2 DEF RunSound, Remembers, Services
    <2>4. run' = [run EXCEPT ![w] = p]
      <3>1. run' = [run EXCEPT ![w] = [run[w] EXCEPT !.pc = "get", !.left = run[w].left - 1]]
        <4>1. run[w].left > 0
          BY <1>1, <1>3
        <4> QED BY <4>1, Zenon DEF RetryPhase
      <3> QED BY <1>1, <2>1, <3>1
    <2> QED BY <1>2, <2>2, <2>3, <2>4, RunReplaced
  <1>4. CASE ~ (r.left > 0)
    BY <1>1, <1>2, <1>4, FinishSound DEF RetryPhase
  <1> QED BY <1>3, <1>4

LEMMA AnswerSound ==
  ASSUME OnSqlite, TurnInv, NEW w \in Runs, Answer(w)
  PROVE  TurnInv'
  <1>1. PICK r : r = run[w]
    OBVIOUS
  <1>2. r \in Run /\ RunSound(r) /\ r.pc \in Services
        /\ UNCHANGED <<turn, journal, enqueued, memory>> /\ voiceFaults' \in Nat
    BY <1>1, RunFacts DEF Answer, TurnInv, VoiceTurnTypeOK
  <1>3. PICK text \in IF r.pc = "tts" THEN {Nil} ELSE Texts :
          run' = [run EXCEPT ![w] = [@ EXCEPT !.pc = "check", !.target = PhaseSucceeded(r.pc),
                                              !.text = text]]
    BY <1>1 DEF Answer
  <1>4. PICK target : target = PhaseSucceeded(r.pc)
    OBVIOUS
  <1>5. /\ target \in {"assisting", "synthesizing", "completed"}
        /\ target = "completed" <=> r.pc = "tts"
    BY <1>2, <1>4 DEF PhaseSucceeded, Services
  <1>6. PICK p : p = [r EXCEPT !.pc = "check", !.target = target, !.text = text]
    OBVIOUS
  <1>7. /\ p \in Run /\ p.pc = "check" /\ p.turn = r.turn /\ p.copy = r.copy
        /\ p.target = target /\ p.text = text
    <2>1. "check" \in RunLabels /\ target \in Statuses /\ text \in Texts \cup {Nil}
      BY <1>3, <1>5 DEF RunLabels, Statuses, TerminalStatuses
    <2> QED BY <1>2, <1>6, <2>1 DEF Run
  <1>8. r.pc \notin {"idle", "spawn", "get"} /\ Snapshot(r)
    BY <1>2 DEF RunSound, Services
  <1>9. Snapshot(p)
    BY <1>7, <1>8 DEF Snapshot
  <1>10. target \in {"assisting", "synthesizing"} => text # Nil
    BY <1>3, <1>5 DEF OnSqlite
  <1>11. RunSound(p) /\ ~ Remembers(p)
    BY <1>2, <1>5, <1>7, <1>8, <1>9, <1>10 DEF RunSound, Remembers
  <1>12. run' = [run EXCEPT ![w] = p]
    BY <1>1, <1>3, <1>4, <1>6
  <1> QED BY <1>2, <1>7, <1>11, <1>12, RunReplaced

LEMMA FailSound ==
  ASSUME OnSqlite, TurnInv, NEW w \in Runs, Fail(w)
  PROVE  TurnInv'
  <1>1. PICK r : r = run[w]
    OBVIOUS
  <1>2. r \in Run /\ RunSound(r) /\ r.pc \in Services
        /\ UNCHANGED <<turn, journal, enqueued, memory>> /\ voiceFaults' \in Nat
    BY <1>1, RunFacts DEF Fail, TurnInv, VoiceTurnTypeOK
  <1>3. r.turn \in Turns /\ turn[r.turn].status \in Statuses /\ Nil \in Texts \cup {Nil}
    BY <1>1, <1>2, RunFacts DEF RunSound, Services
  <1>4. CASE r.pc = "tts"
    <2>1. PICK row : row = turn[r.turn]
      OBVIOUS
    <2>2. PICK p : p = [r EXCEPT !.pc = "check", !.target = "playback_failed", !.text = Nil,
                                 !.copy = row]
      OBVIOUS
    <2>3. "check" \in RunLabels /\ "playback_failed" \in Statuses /\ row \in TurnRow
      BY <1>3, <2>1 DEF RunLabels, Statuses, TerminalStatuses, TurnInv, VoiceTurnTypeOK
    <2>4. /\ p \in Run /\ p.turn = r.turn /\ p.copy = row /\ p.pc = "check"
          /\ p.target = "playback_failed"
      BY <1>2, <1>3, <2>2, <2>3 DEF Run
    <2>5. run' = [run EXCEPT ![w] = p]
      BY <1>1, <1>4, <2>1, <2>2 DEF Fail, Failed
    <2> QED BY <1>1, <1>2, <1>3, <2>1, <2>4, <2>5, ReadSound
  <1>5. CASE r.pc # "tts"
    <2>1. PICK target : target = Failed(r.pc)
      OBVIOUS
    <2>2. target \in {"transcription_failed", "assistant_failed"}
      BY <1>2, <1>5, <2>1 DEF Failed, Services
    <2>3. PICK p : p = [r EXCEPT !.pc = "check", !.target = target, !.text = Nil]
      OBVIOUS
    <2>4. /\ p \in Run /\ p.pc = "check" /\ p.turn = r.turn /\ p.copy = r.copy
          /\ p.target = target
      <3>1. "check" \in RunLabels /\ target \in Statuses
        BY <2>2 DEF RunLabels, Statuses, TerminalStatuses
      <3> QED BY <1>2, <1>3, <2>3, <3>1 DEF Run
    <2>5. r.pc \notin {"idle", "spawn", "get"} /\ Snapshot(r)
      BY <1>2 DEF RunSound, Services
    <2>6. Snapshot(p)
      BY <2>4, <2>5 DEF Snapshot
    <2>7. RunSound(p) /\ ~ Remembers(p)
      BY <1>2, <2>2, <2>4, <2>5, <2>6 DEF RunSound, Remembers
    <2>8. run' = [run EXCEPT ![w] = p]
      BY <1>1, <1>2, <1>5, <2>1, <2>3 DEF Fail, Run
    <2> QED BY <1>2, <2>4, <2>7, <2>8, RunReplaced
  <1> QED BY <1>4, <1>5

\* The lock is taken: nobody else is between its check and its write.
LEMMA CheckSound ==
  ASSUME OnSqlite, TurnInv, NEW w \in Runs, Check(w)
  PROVE  TurnInv'
  <1>1. PICK r : r = run[w]
    OBVIOUS
  <1>2. r \in Run /\ RunSound(r) /\ r.pc = "check"
        /\ UNCHANGED <<turn, journal, enqueued, memory>> /\ voiceFaults' \in Nat
    BY <1>1, RunFacts DEF Check, TurnInv, VoiceTurnTypeOK
  <1>3. /\ turn[r.turn].status \in Expected(r.target)
        /\ \A v \in Runs : run[v].pc # "write"
    BY <1>1 DEF Check, Unlocked, OnSqlite
  <1>4. PICK p : p = [r EXCEPT !.pc = "write"]
    OBVIOUS
  <1>5. /\ p \in Run /\ p.pc = "write" /\ p.turn = r.turn /\ p.copy = r.copy
        /\ p.target = r.target /\ p.text = r.text
    <2>1. "write" \in RunLabels
      BY DEF RunLabels
    <2> QED BY <1>2, <1>4, <2>1, GoesOn
  <1>6. Snapshot(p)
    BY <1>2, <1>5 DEF RunSound, Snapshot
  <1>7. RunSound(p) /\ ~ Remembers(p)
    BY <1>2, <1>3, <1>5, <1>6 DEF RunSound, Remembers
  <1>8. run' = [run EXCEPT ![w] = p]
    BY <1>1, <1>4 DEF Check, Goto
  <1> QED BY <1>2, <1>3, <1>5, <1>7, <1>8, RunReplaced

LEMMA RereadSound ==
  ASSUME OnSqlite, TurnInv, NEW w \in Runs, Reread(w)
  PROVE  TurnInv'
  <1> DEFINE row == turn[run[w].turn]
  <1>1. /\ run[w] \in Run /\ RunSound(run[w]) /\ run[w].pc = "reread" /\ run[w].turn \in Turns
        /\ row.status \in Statuses /\ run[w].text \in Texts \cup {Nil}
        /\ run[w].target \in Statuses
        /\ UNCHANGED <<turn, journal, enqueued, memory>> /\ voiceFaults' \in Nat
    BY RunFacts DEF Reread, RunSound, TurnInv, VoiceTurnTypeOK, Run
  <1>2. ASSUME NEW label \in {"stt", "assist", "tts", "remember", "enqueue"},
               label = "tts" => row.status = "synthesizing",
               label = "remember" => run[w].target = "synthesizing",
               label = "enqueue" => row.status \in TerminalStatuses,
               run' = [run EXCEPT ![w] = [@ EXCEPT !.copy = row, !.pc = label]]
        PROVE  TurnInv'
    <2>1. PICK p : p = [run[w] EXCEPT !.copy = row, !.pc = label]
      OBVIOUS
    <2>2. label \in RunLabels /\ row \in TurnRow
      BY <1>1 DEF RunLabels, TurnInv, VoiceTurnTypeOK
    <2>3. p \in Run /\ p.turn = run[w].turn /\ p.copy = row /\ p.pc = label
      BY <1>1, <2>1, <2>2 DEF Run
    <2>4. run' = [run EXCEPT ![w] = p]
      BY <1>2, <2>1
    <2>5. label = "remember" => Remembers(run[w])
      BY <1>1, <1>2 DEF Remembers
    <2> QED BY <1>1, <1>2, <2>3, <2>4, <2>5, ReadSound
  <1>3. CASE run[w].target = "transcribing"
    <2>1. run' = [run EXCEPT ![w] = [@ EXCEPT !.copy = row, !.pc = "stt"]]
      BY <1>3 DEF Reread
    <2> QED BY <1>2, <2>1
  <1>4. CASE run[w].target = "assisting"
    <2>1. CASE Stage(row.status) = "idle"
      <3>1. Finish(w)
        BY <1>4, <2>1 DEF Reread
      <3> QED BY <1>1, <3>1, FinishSound
    <2>2. CASE Stage(row.status) # "idle"
      <3>1. PICK label \in {"stt", "assist", "tts"} : label = Stage(row.status)
        BY <2>2, StageFacts
      <3>2. run' = [run EXCEPT ![w] = [@ EXCEPT !.copy = row, !.pc = label]]
        BY <1>4, <2>2, <3>1 DEF Reread
      <3> QED BY <1>2, <3>1, <3>2, StageFacts
    <2> QED BY <2>1, <2>2
  <1>5. CASE run[w].target = "synthesizing"
    <2>1. run' = [run EXCEPT ![w] = [@ EXCEPT !.copy = row, !.pc = "remember"]]
      BY <1>5 DEF Reread
    <2> QED BY <1>2, <1>5, <2>1
  <1>6. CASE run[w].target \notin {"transcribing", "assisting", "synthesizing"}
    <2>1. run' = [run EXCEPT ![w] = [@ EXCEPT !.copy = row, !.pc = "enqueue"]]
      BY <1>6 DEF Reread
    <2>2. run[w].target \in TerminalStatuses /\ row.status = run[w].target
      BY <1>1, <1>6 DEF RunSound, Statuses
    <2> QED BY <1>2, <2>1, <2>2
  <1> QED BY <1>3, <1>4, <1>5, <1>6

\* Steps after which the thread has nothing to do.
LEMMA EndSound ==
  ASSUME OnSqlite, TurnInv, NEW w \in Runs, CheckRefused(w) \/ RunRaises(w)
  PROVE  TurnInv'
  <1>1. Finish(w) /\ UNCHANGED <<turn, journal, enqueued, memory>> /\ voiceFaults' \in Nat
    BY DEF CheckRefused, RunRaises, TurnInv, VoiceTurnTypeOK
  <1> QED BY <1>1, FinishSound

-----------------------------------------------------------------------------
(* Steps that write the tables.                                            *)

LEMMA AcceptSound ==
  ASSUME OnSqlite, TurnInv, NEW w \in Runs, Accept(w)
  PROVE  TurnInv'
  <1>1. PICK t \in Turns :
          /\ turn[t].status = "absent"
          /\ turn' = [turn EXCEPT ![t] = [@ EXCEPT !.status = "accepted"]]
          /\ journal' = [journal EXCEPT ![t] =
                           Append(@, [status |-> "accepted", heard |-> Nil, said |-> Nil])]
          /\ run' = [run EXCEPT ![w] = [Free EXCEPT !.pc = "spawn", !.turn = t, !.task = TRUE]]
    BY DEF Accept
  <1>2. PICK row : row = [turn[t] EXCEPT !.status = "accepted"]
    OBVIOUS
  <1>3. PICK event : event = [status |-> "accepted", heard |-> Nil, said |-> Nil]
    OBVIOUS
  <1>4. PICK p : p = [Free EXCEPT !.pc = "spawn", !.turn = t, !.task = TRUE]
    OBVIOUS
  <1>5. /\ turn[t] \in TurnRow /\ turn[t].transcript = Nil /\ turn[t].reply = Nil
        /\ row \in TurnRow /\ row.status = "accepted" /\ row.transcript = Nil /\ row.reply = Nil
    <2>1. turn[t] \in TurnRow /\ Shaped(turn[t])
      BY DEF TurnInv, VoiceTurnTypeOK, Tables
    <2>2. turn[t].transcript = Nil /\ turn[t].reply = Nil
      BY <1>1, <2>1 DEF Shaped
    <2> QED BY <1>2, <2>1, <2>2 DEF TurnRow, Statuses
  <1>6. event \in Event
    BY <1>3 DEF Event, Statuses
  <1>7. p \in Run /\ p.pc = "spawn" /\ p.turn = t
    <2>1. "spawn" \in RunLabels /\ TRUE \in BOOLEAN
      BY DEF RunLabels
    <2> HIDE DEF Free
    <2> QED BY <1>4, <2>1, FreeSound DEF Run
  <1>8. journal[t] = <<>> /\ journal' = [journal EXCEPT ![t] = <<event>>]
    <2>1. journal[t] = <<>>
      BY <1>1 DEF TurnInv, Tables, JournalIsThere
    <2>2. Append(journal[t], event) = <<event>>
      BY <2>1
    <2> QED BY <1>1, <1>3, <2>1, <2>2
  <1>9. /\ turn' = [turn EXCEPT ![t] = row] /\ run' = [run EXCEPT ![w] = p]
        /\ UNCHANGED <<enqueued, memory, voiceFaults>>
    BY <1>1, <1>2, <1>4 DEF Accept
  <1>10. VoiceTurnTypeOK'
    <2>1. <<event>> \in Seq(Event)
      BY <1>6
    <2> QED BY <1>5, <1>7, <1>8, <1>9, <2>1 DEF TurnInv, VoiceTurnTypeOK
  <1>11. /\ turn'[t] = row /\ \A u \in Turns \ {t} : turn'[u] = turn[u] /\ journal'[u] = journal[u]
         /\ journal'[t] = <<event>> /\ run'[w] = p /\ \A v \in Runs \ {w} : run'[v] = run[v]
    BY <1>8, <1>9 DEF TurnInv, VoiceTurnTypeOK
  <1>12. \A v \in Runs : RunSound(run[v])'
    <2>1. \A v \in Runs : run[v].pc # "idle" => run[v].turn # t
      BY <1>1, RunFacts DEF RunSound, Statuses, TerminalStatuses
    <2>2. ASSUME NEW v \in Runs \ {w}
          PROVE  RunSound(run[v])'
      <3>1. run'[v] = run[v] /\ RunSound(run[v])
        BY <1>11, RunFacts
      <3>2. CASE run[v].pc = "idle"
        BY <1>9, <3>1, <3>2 DEF RunSound, Snapshot, Remembers
      <3>3. CASE run[v].pc # "idle"
        <4>1. turn'[run[v].turn] = turn[run[v].turn]
          BY <1>11, <2>1, <3>3, RunFacts
        <4> QED BY <1>9, <3>1, <4>1 DEF RunSound, Snapshot, Remembers
      <3> QED BY <3>2, <3>3
    <2>3. RunSound(run[w])'
      BY <1>5, <1>7, <1>11 DEF RunSound, Remembers, Statuses, OnSqlite
    <2> QED BY <2>2, <2>3
  <1>13. OneTransition'
    BY <1>7, <1>11 DEF TurnInv, OneTransition, Remembers
  <1>14. JournalIsThere' /\ (\A u \in Turns : Shaped(turn[u])')
    <2>1. <<event>> # <<>> /\ Shaped(row)
      BY <1>5 DEF Shaped
    <2> QED BY <1>5, <1>11, <2>1 DEF TurnInv, Tables, JournalIsThere, Shaped
  <1>15. JournalTellsTurn'
    <2>1. /\ Len(<<event>>) = 1 /\ <<event>>[1] = event /\ DOMAIN <<event>> = {1}
          /\ event.status = "accepted" /\ event.heard = Nil /\ event.said = Nil
      BY <1>3
    <2>2. ASSUME NEW u \in Turns, u # t
          PROVE  turn'[u] = turn[u] /\ journal'[u] = journal[u]
      BY <1>11, <2>2
    <2> QED BY <1>5, <1>11, <2>1, <2>2 DEF TurnInv, Tables, JournalTellsTurn, Last
  <1>16. EvidenceTellsOutcome' /\ RememberedOnce'
    <2>1. enqueued[t] = Nil /\ ~ (memory[t] > 0)
      <3>1. enqueued[t] \in TerminalStatuses \cup {Nil}
        BY DEF TurnInv, VoiceTurnTypeOK
      <3> QED BY <1>1, <1>5, <3>1
              DEF TurnInv, Tables, EvidenceTellsOutcome, RememberedOnce, TerminalStatuses
    <2> QED BY <1>9, <1>11, <2>1 DEF TurnInv, Tables, EvidenceTellsOutcome, RememberedOnce
  <1> QED BY <1>10, <1>12, <1>13, <1>14, <1>15, <1>16 DEF TurnInv, Tables

\* What a transition makes of the row, and tells the kiosk.
LEMMA WriteFacts ==
  ASSUME OnSqlite, TurnInv, NEW w \in Runs, Write(w)
  PROVE  \E t \in Turns, row \in TurnRow, event \in Event :
           LET r == run[w] IN
           /\ r.turn = t /\ r.pc = "write" /\ Snapshot(r)
           /\ turn[t].status \in Expected(r.target) /\ r.target \in Statuses
           /\ turn' = [turn EXCEPT ![t] = row]
           /\ journal' = [journal EXCEPT ![t] = Append(journal[t], event)]
           /\ run' = [run EXCEPT ![w] = [r EXCEPT !.pc = "reread"]]
           /\ row.status = r.target /\ event.status = r.target
           /\ IF r.target = "assisting"
                THEN row.transcript # Nil /\ event.heard = row.transcript
                ELSE row.transcript = turn[t].transcript
           /\ IF r.target = "synthesizing"
                THEN row.reply # Nil /\ event.said = row.reply
                ELSE row.reply = turn[t].reply
           /\ event.heard \in {Nil, row.transcript} /\ event.said \in {Nil, row.reply}
           /\ event.status = "completed" => Nil \notin {event.heard, event.said}
  <1>1. PICK r : r = run[w]
    OBVIOUS
  <1>2. PICK t : t = r.turn
    OBVIOUS
  <1>3. /\ r \in Run /\ RunSound(r) /\ r.pc = "write" /\ t \in Turns /\ turn[t] \in TurnRow
        /\ turn[t].status \in Expected(r.target)
    BY <1>1, <1>2, RunFacts DEF Write, RunSound, TurnInv, VoiceTurnTypeOK
  <1>4. /\ Snapshot(r) /\ r.target \in Statuses /\ r.text \in Texts \cup {Nil}
        /\ r.copy \in TurnRow
        /\ r.target \in {"assisting", "synthesizing"} => r.text # Nil
        /\ r.target = "completed" => r.copy.transcript # Nil /\ r.copy.reply # Nil
    BY <1>3 DEF RunSound, Run, Snapshot, Shaped
  <1>5. PICK row : row = Updated(turn[t], r.target, r.text)
    OBVIOUS
  <1>6. /\ row \in TurnRow /\ row.status = r.target
        /\ row.transcript = IF r.target = "assisting" THEN r.text ELSE turn[t].transcript
        /\ row.reply = IF r.target = "synthesizing" THEN r.text ELSE turn[t].reply
    BY <1>3, <1>4, <1>5 DEF Updated, TurnRow
  <1>7. PICK event : event = EventOf(w)
    OBVIOUS
  <1>8. /\ event.status = r.target
        /\ event.heard = IF r.target = "assisting" THEN r.text
                         ELSE IF r.target \in {"completed", "playback_failed"}
                           THEN r.copy.transcript ELSE Nil
        /\ event.said = IF r.target = "synthesizing" THEN r.text
                        ELSE IF r.target \in {"completed", "playback_failed"}
                          THEN r.copy.reply ELSE Nil
    BY <1>1, <1>7 DEF EventOf
  <1>9. event \in Event
    <2>1. event.heard \in Texts \cup {Nil} /\ event.said \in Texts \cup {Nil}
      BY <1>4, <1>8 DEF TurnRow
    <2>2. event = [status |-> event.status, heard |-> event.heard, said |-> event.said]
      BY <1>7 DEF EventOf
    <2> QED BY <1>4, <1>8, <2>1, <2>2 DEF Event
  <1>10. event.heard \in {Nil, row.transcript} /\ event.said \in {Nil, row.reply}
    BY <1>2, <1>4, <1>6, <1>8 DEF Snapshot
  <1>11. event.status = "completed" => Nil \notin {event.heard, event.said}
    BY <1>4, <1>8
  <1>12. /\ turn' = [turn EXCEPT ![t] = row]
         /\ journal' = [journal EXCEPT ![t] = Append(journal[t], event)]
         /\ run' = [run EXCEPT ![w] = [r EXCEPT !.pc = "reread"]]
    BY <1>1, <1>2, <1>5, <1>7 DEF Write, Goto
  <1>13. /\ IF r.target = "assisting"
              THEN row.transcript # Nil /\ event.heard = row.transcript
              ELSE row.transcript = turn[t].transcript
         /\ IF r.target = "synthesizing"
              THEN row.reply # Nil /\ event.said = row.reply
              ELSE row.reply = turn[t].reply
    BY <1>4, <1>6, <1>8
  <1> QED BY <1>1, <1>2, <1>3, <1>4, <1>6, <1>8, <1>9, <1>10, <1>11, <1>12, <1>13

LEMMA WriteSound ==
  ASSUME OnSqlite, TurnInv, NEW w \in Runs, Write(w)
  PROVE  TurnInv'
  <1>1. PICK t \in Turns, row \in TurnRow, event \in Event :
           LET r == run[w] IN
           /\ r.turn = t /\ r.pc = "write" /\ Snapshot(r)
           /\ turn[t].status \in Expected(r.target) /\ r.target \in Statuses
           /\ turn' = [turn EXCEPT ![t] = row]
           /\ journal' = [journal EXCEPT ![t] = Append(journal[t], event)]
           /\ run' = [run EXCEPT ![w] = [r EXCEPT !.pc = "reread"]]
           /\ row.status = r.target /\ event.status = r.target
           /\ IF r.target = "assisting"
                THEN row.transcript # Nil /\ event.heard = row.transcript
                ELSE row.transcript = turn[t].transcript
           /\ IF r.target = "synthesizing"
                THEN row.reply # Nil /\ event.said = row.reply
                ELSE row.reply = turn[t].reply
           /\ event.heard \in {Nil, row.transcript} /\ event.said \in {Nil, row.reply}
           /\ event.status = "completed" => Nil \notin {event.heard, event.said}
    BY WriteFacts
  <1>2. PICK r : r = run[w]
    OBVIOUS
  <1>3. PICK old : old = turn[t]
    OBVIOUS
  <1>4. PICK p : p = [r EXCEPT !.pc = "reread"]
    OBVIOUS
  <1>5. r \in Run /\ r.turn = t /\ r.pc = "write" /\ old \in TurnRow /\ Shaped(old)
        /\ old.status \in Expected(r.target)
    BY <1>1, <1>2, <1>3, RunFacts DEF TurnInv, VoiceTurnTypeOK, Tables
  <1>6. /\ old.status \in Statuses \ TerminalStatuses
        /\ <<old.status, r.target>> \in Legal
        /\ r.target \in Statuses \ {"accepted"}
        /\ r.target = "transcribing" => old.status = "accepted"
        /\ r.target \in {"assisting", "transcription_failed"} => old.status = "transcribing"
        /\ r.target \in {"synthesizing", "assistant_failed"} => old.status = "assisting"
        /\ r.target \in {"completed", "playback_failed"} => old.status = "synthesizing"
    BY <1>5, LegalFacts
  <1>7. /\ p \in Run /\ p.pc = "reread" /\ p.turn = t /\ p.copy = r.copy
        /\ p.target = r.target /\ p.text = r.text
    <2>1. "reread" \in RunLabels
      BY DEF RunLabels
    <2> QED BY <1>4, <1>5, <2>1, GoesOn
  <1>8. row.status = r.target /\ Shaped(row)
        /\ (old.transcript # Nil => row.transcript = old.transcript)
        /\ (old.reply # Nil => row.reply = old.reply)
        /\ (r.target = "synthesizing" => row.reply # Nil /\ old.reply = Nil)
    BY <1>1, <1>2, <1>3, <1>5, <1>6 DEF Shaped, Statuses, TerminalStatuses
  <1>9. /\ turn'[t] = row /\ journal'[t] = Append(journal[t], event) /\ run'[w] = p
        /\ \A u \in Turns \ {t} : turn'[u] = turn[u] /\ journal'[u] = journal[u]
        /\ \A v \in Runs \ {w} : run'[v] = run[v]
        /\ UNCHANGED <<enqueued, memory, voiceFaults>>
    BY <1>1, <1>2, <1>4 DEF TurnInv, VoiceTurnTypeOK, Write
  <1>10. VoiceTurnTypeOK'
    <2>1. Append(journal[t], event) \in Seq(Event)
      BY DEF TurnInv, VoiceTurnTypeOK
    <2>2. turn' = [turn EXCEPT ![t] = row] /\ run' = [run EXCEPT ![w] = p]
          /\ journal' = [journal EXCEPT ![t] = Append(journal[t], event)]
      BY <1>1, <1>2, <1>4
    <2> QED BY <1>7, <1>9, <2>1, <2>2 DEF TurnInv, VoiceTurnTypeOK
  <1>11. memory[t] = 0 \/ old.reply # Nil
    BY <1>3, <1>6 DEF TurnInv, Tables, RememberedOnce, VoiceTurnTypeOK, Statuses, TerminalStatuses
  <1>12. Snapshot(r) /\ Snapshot(p)'
    <2>1. Snapshot(r)
      BY <1>1, <1>2
    <2>2. p.copy.transcript \in {Nil, row.transcript} /\ p.copy.reply \in {Nil, row.reply}
          /\ Shaped(p.copy)
      BY <1>3, <1>5, <1>7, <1>8, <2>1 DEF Snapshot
    <2> QED BY <1>7, <1>9, <2>1, <2>2 DEF Snapshot
  <1>13. \A v \in Runs : RunSound(run[v])'
    <2>1. RunSound(run[w])'
      <3>1. Remembers(p) => row.reply # Nil /\ memory[t] = 0
        BY <1>7, <1>8, <1>11 DEF Remembers
      <3>2. RunSound(p)'
        BY <1>6, <1>7, <1>8, <1>9, <1>12, <3>1 DEF RunSound, Remembers, OnSqlite
      <3> QED BY <1>9, <3>2 DEF RunSound, Snapshot, Remembers
    <2>2. ASSUME NEW v \in Runs \ {w}
          PROVE  RunSound(run[v])'
      <3>1. PICK q : q = run[v]
        OBVIOUS
      <3>2. q \in Run /\ RunSound(q) /\ run'[v] = q /\ q.pc # "write"
            /\ (q.pc # "idle" => q.turn \in Turns)
        BY <1>2, <1>5, <1>9, <3>1, RunFacts DEF TurnInv, OneTransition
      <3>3. CASE q.turn # t
        <4>1. q.pc # "idle" => turn'[q.turn] = turn[q.turn]
          BY <1>9, <3>2, <3>3
        <4>2. RunSound(q)'
          BY <1>9, <3>2, <4>1 DEF RunSound, Snapshot, Remembers
        <4> QED BY <3>2, <4>2 DEF RunSound, Snapshot, Remembers
      <3>4. CASE q.turn = t
        <4>1. q.pc \notin {"idle", "spawn", "get"} => Snapshot(q)'
          BY <1>3, <1>8, <1>9, <3>2, <3>4 DEF RunSound, Snapshot
        <4>2. q.pc # "enqueue" /\ (q.pc = "reread" => q.target \notin TerminalStatuses)
          BY <1>3, <1>6, <3>2, <3>4 DEF RunSound
        <4>3. Remembers(q) => row.reply # Nil /\ memory[t] = 0
          BY <1>3, <1>8, <3>2, <3>4 DEF RunSound
        <4>4. RunSound(q)'
          BY <1>6, <1>8, <1>9, <3>2, <3>4, <4>1, <4>2, <4>3 DEF RunSound, Remembers
        <4> QED BY <3>2, <4>4 DEF RunSound, Snapshot, Remembers
      <3> QED BY <3>3, <3>4
    <2> QED BY <2>1, <2>2
  <1>14. OneTransition'
    <2>1. ASSUME NEW v \in Runs, Remembers(run[v]), run[v].turn = t
          PROVE  old.reply # Nil
      BY <1>3, <2>1, RunFacts DEF RunSound
    <2>2. Remembers(p) => old.reply = Nil
      BY <1>7, <1>8 DEF Remembers
    <2> QED BY <1>7, <1>9, <2>1, <2>2 DEF TurnInv, OneTransition, Remembers
  <1>15. JournalIsThere' /\ (\A u \in Turns : Shaped(turn[u])')
    <2>1. Append(journal[t], event) # <<>>
      <3>1. PICK log \in Seq(Event) : log = journal[t]
        BY DEF TurnInv, VoiceTurnTypeOK
      <3>2. Len(Append(log, event)) = Len(log) + 1 /\ Len(log) \in Nat
        BY <3>1
      <3>3. Append(log, event) # <<>>
        BY <3>2
      <3> QED BY <3>1, <3>3
    <2>2. row.status \notin {"absent", "gone"}
      BY <1>6, <1>8 DEF Statuses, TerminalStatuses
    <2> QED BY <1>8, <1>9, <2>1, <2>2 DEF TurnInv, Tables, JournalIsThere, Shaped
  <1>16. JournalTellsTurn'
    <2>1. PICK log : log = journal[t]
      OBVIOUS
    <2>2. PICK new : new = Append(log, event)
      OBVIOUS
    <2>3. /\ log \in Seq(Event) /\ log # <<>> /\ log[Len(log)].status = old.status
          /\ \A i \in 2..Len(log) : <<log[i - 1].status, log[i].status>> \in Legal
          /\ \A i \in DOMAIN log :
               /\ log[i].heard \in {Nil, old.transcript} /\ log[i].said \in {Nil, old.reply}
               /\ log[i].status = "completed" => Nil \notin {log[i].heard, log[i].said}
      BY <1>3, <1>6, <2>1 DEF TurnInv, VoiceTurnTypeOK, Tables, JournalIsThere, JournalTellsTurn, Last,
         Statuses, TerminalStatuses
    <2>4. /\ Len(log) \in Nat \ {0} /\ Len(new) = Len(log) + 1 /\ new[Len(new)] = event
          /\ DOMAIN log = 1..Len(log) /\ DOMAIN new = 1..Len(new) /\ new # <<>>
          /\ \A i \in 1..Len(log) : new[i] = log[i]
      BY <2>2, <2>3
    <2>5. ASSUME NEW i \in 2..Len(new)
          PROVE  <<new[i - 1].status, new[i].status>> \in Legal
      <3>1. CASE i \in 2..Len(log)
        <4>1. i \in 1..Len(log) /\ i - 1 \in 1..Len(log)
          BY <2>4, <3>1
        <4> QED BY <2>3, <2>4, <3>1, <4>1
      <3>2. CASE i = Len(new)
        <4>1. i - 1 = Len(log) /\ Len(log) \in 1..Len(log)
          BY <2>4, <3>2
        <4>2. new[i - 1].status = old.status /\ new[i].status = r.target
          BY <1>1, <1>2, <2>3, <2>4, <3>2, <4>1
        <4> QED BY <1>6, <4>2
      <3> QED BY <2>4, <3>1, <3>2
    <2>6. ASSUME NEW i \in DOMAIN new
          PROVE  /\ new[i].heard \in {Nil, row.transcript} /\ new[i].said \in {Nil, row.reply}
                 /\ new[i].status = "completed" => Nil \notin {new[i].heard, new[i].said}
      <3>1. CASE i \in 1..Len(log)
        BY <1>8, <2>3, <2>4, <3>1
      <3>2. CASE i = Len(new)
        BY <1>1, <2>4, <3>2
      <3> QED BY <2>4, <3>1, <3>2
    <2>7. journal'[t] = new /\ new[Len(new)].status = row.status
      BY <1>1, <1>9, <2>1, <2>2, <2>4
    <2>8. ASSUME NEW u \in Turns, u # t
          PROVE  turn'[u] = turn[u] /\ journal'[u] = journal[u]
      BY <1>9, <2>8
    <2> QED BY <1>9, <2>4, <2>5, <2>6, <2>7, <2>8 DEF TurnInv, Tables, JournalTellsTurn, Last
  <1>17. EvidenceTellsOutcome' /\ RememberedOnce'
    <2>1. enqueued[t] = Nil
      <3>1. enqueued[t] \in TerminalStatuses \cup {Nil}
        BY DEF TurnInv, VoiceTurnTypeOK
      <3> QED BY <1>3, <1>6, <3>1 DEF TurnInv, Tables, EvidenceTellsOutcome, Statuses, TerminalStatuses
    <2>2. memory[t] > 0 => memory[t] = 1 /\ row.reply # Nil
      BY <1>3, <1>6, <1>8 DEF TurnInv, Tables, RememberedOnce, Statuses, TerminalStatuses
    <2> QED BY <1>9, <2>1, <2>2 DEF TurnInv, Tables, EvidenceTellsOutcome, RememberedOnce
  <1> QED BY <1>10, <1>13, <1>14, <1>15, <1>16, <1>17 DEF TurnInv, Tables

LEMMA RememberSound ==
  ASSUME OnSqlite, TurnInv, NEW w \in Runs, Remember(w)
  PROVE  TurnInv'
  <1>1. PICK r : r = run[w]
    OBVIOUS
  <1>2. PICK t : t = r.turn
    OBVIOUS
  <1>3. /\ r \in Run /\ RunSound(r) /\ r.pc = "remember" /\ t \in Turns /\ Remembers(r)
        /\ turn[t].reply # Nil /\ memory[t] = 0
    BY <1>1, <1>2, RunFacts DEF Remember, RunSound, Remembers
  <1>4. memory' = [memory EXCEPT ![t] = 1] /\ UNCHANGED <<turn, journal, enqueued, voiceFaults>>
    BY <1>1, <1>2, <1>3 DEF Remember, TurnInv, VoiceTurnTypeOK
  <1>5. PICK p : p = IF r.copy.status = "synthesizing" THEN [r EXCEPT !.pc = "tts"] ELSE Free
    OBVIOUS
  <1>6. run' = [run EXCEPT ![w] = p]
    BY <1>1, <1>5 DEF Remember, Goto, Finish
  <1>7. p \in Run /\ ~ Remembers(p) /\ p.pc # "write" /\ RunSound(p)
    <2>1. CASE r.copy.status = "synthesizing"
      <3>1. "tts" \in RunLabels
        BY DEF RunLabels
      <3>2. /\ p \in Run /\ p.pc = "tts" /\ p.turn = r.turn /\ p.copy = r.copy
            /\ p.target = r.target /\ p.text = r.text
        BY <1>3, <1>5, <2>1, <3>1, GoesOn
      <3>3. Snapshot(p)
        BY <1>3, <3>2 DEF RunSound, Snapshot
      <3> QED BY <1>2, <1>3, <2>1, <3>2, <3>3 DEF RunSound, Remembers
    <2>2. CASE r.copy.status # "synthesizing"
      BY <1>5, <2>2, FreeSound
    <2> QED BY <2>1, <2>2
  <1>8. /\ run'[w] = p /\ \A v \in Runs \ {w} : run'[v] = run[v]
        /\ memory'[t] = 1 /\ \A u \in Turns \ {t} : memory'[u] = memory[u]
    BY <1>3, <1>4, <1>6 DEF TurnInv, VoiceTurnTypeOK
  <1>9. VoiceTurnTypeOK'
    BY <1>3, <1>4, <1>6, <1>7 DEF TurnInv, VoiceTurnTypeOK
  <1>10. \A v \in Runs : RunSound(run[v])'
    <2>1. RunSound(run[w])'
      BY <1>4, <1>7, <1>8 DEF RunSound, Snapshot, Remembers
    <2>2. ASSUME NEW v \in Runs \ {w}
          PROVE  RunSound(run[v])'
      <3>1. PICK q : q = run[v]
        OBVIOUS
      <3>2. RunSound(q) /\ run'[v] = q /\ (q.pc # "idle" => q.turn \in Turns)
        BY <1>8, <3>1, RunFacts
      <3>3. Remembers(q) => q.turn \in Turns \ {t}
        BY <1>1, <1>2, <1>3, <3>1, <3>2 DEF TurnInv, OneTransition, Remembers
      <3>4. Remembers(q) => memory'[q.turn] = memory[q.turn]
        BY <1>8, <3>3
      <3> QED BY <1>4, <3>2, <3>4 DEF RunSound, Snapshot, Remembers
    <2> QED BY <2>1, <2>2
  <1>11. OneTransition'
    BY <1>7, <1>8 DEF TurnInv, OneTransition, Remembers
  <1>12. JournalIsThere' /\ JournalTellsTurn' /\ EvidenceTellsOutcome'
         /\ (\A u \in Turns : Shaped(turn[u])')
    BY <1>4 DEF TurnInv, Tables, JournalIsThere, JournalTellsTurn, EvidenceTellsOutcome, Shaped, Last
  <1>13. RememberedOnce'
    BY <1>3, <1>4, <1>8 DEF TurnInv, Tables, RememberedOnce
  <1> QED BY <1>9, <1>10, <1>11, <1>12, <1>13 DEF TurnInv, Tables

LEMMA EnqueueSound ==
  ASSUME OnSqlite, TurnInv, NEW w \in Runs, EnqueueEvidence(w)
  PROVE  TurnInv'
  <1>1. PICK t \in Turns : t = run[w].turn
    BY RunFacts DEF EnqueueEvidence
  <1>2. run[w].copy.status = turn[t].status /\ turn[t].status \in TerminalStatuses
    BY <1>1, RunFacts DEF EnqueueEvidence, RunSound
  <1>3. /\ enqueued' = IF enqueued[t] = Nil THEN [enqueued EXCEPT ![t] = turn[t].status] ELSE enqueued
        /\ run' = [run EXCEPT ![w] = Free] /\ UNCHANGED <<turn, journal, memory, voiceFaults>>
    BY <1>1, <1>2 DEF EnqueueEvidence, Finish
  <1>4. /\ run'[w] = Free /\ \A v \in Runs \ {w} : run'[v] = run[v]
    BY <1>3 DEF TurnInv, VoiceTurnTypeOK
  <1>5. VoiceTurnTypeOK'
    BY <1>2, <1>3, FreeSound DEF TurnInv, VoiceTurnTypeOK
  <1>6. \A v \in Runs : RunSound(run[v])'
    <2>1. \A v \in Runs : RunSound(run'[v])
      BY <1>4, FreeSound DEF TurnInv
    <2> QED BY <1>3, <2>1 DEF RunSound, Snapshot, Remembers
  <1>7. OneTransition'
    BY <1>4, FreeSound DEF TurnInv, OneTransition, Remembers
  <1>8. JournalIsThere' /\ JournalTellsTurn' /\ RememberedOnce' /\ (\A u \in Turns : Shaped(turn[u])')
    BY <1>3 DEF TurnInv, Tables, JournalIsThere, JournalTellsTurn, RememberedOnce, Shaped, Last
  <1>9. EvidenceTellsOutcome'
    <2>1. \A u \in Turns : enqueued'[u] = enqueued[u] \/ (u = t /\ enqueued'[u] = turn[u].status)
      BY <1>3 DEF TurnInv, VoiceTurnTypeOK
    <2> QED BY <1>3, <2>1 DEF TurnInv, Tables, EvidenceTellsOutcome
  <1> QED BY <1>5, <1>6, <1>7, <1>8, <1>9 DEF TurnInv, Tables

LEMMA CrashSound ==
  ASSUME OnSqlite, TurnInv, ServerDies
  PROVE  TurnInv'
  <1>1. /\ run' = [w \in Runs |-> Free] /\ memory' = [t \in Turns |-> 0]
        /\ UNCHANGED <<turn, journal, enqueued>> /\ voiceFaults' \in Nat
    BY DEF ServerDies, TurnInv, VoiceTurnTypeOK
  <1>2. VoiceTurnTypeOK'
    BY <1>1, FreeSound DEF TurnInv, VoiceTurnTypeOK
  <1>3. \A w \in Runs : RunSound(run[w])'
    <2>1. \A w \in Runs : run'[w].pc = "idle" /\ run'[w].turn = Nil /\ ~ Remembers(run'[w])
      BY <1>1, FreeSound
    <2> QED BY <2>1 DEF RunSound, Remembers
  <1>4. OneTransition'
    BY <1>1, FreeSound DEF OneTransition, Remembers
  <1>5. Tables'
    BY <1>1 DEF TurnInv, Tables, JournalIsThere, JournalTellsTurn, EvidenceTellsOutcome,
                RememberedOnce, Shaped, Last
  <1> QED BY <1>2, <1>3, <1>4, <1>5 DEF TurnInv

LEMMA ExpireSound ==
  ASSUME OnSqlite, TurnInv, NEW t \in Turns, Expire(t)
  PROVE  TurnInv'
  <1>1. PICK row : row = [NoTurn EXCEPT !.status = "gone"]
    OBVIOUS
  <1>2. /\ turn[t].status \in TerminalStatuses /\ \A w \in Runs : run[w].turn # t
        /\ turn' = [turn EXCEPT ![t] = row] /\ journal' = [journal EXCEPT ![t] = <<>>]
        /\ UNCHANGED <<enqueued, memory, run, voiceFaults>>
    BY <1>1 DEF Expire, RunsOf
  <1>3. row \in TurnRow /\ row.status = "gone" /\ row.transcript = Nil /\ row.reply = Nil
    BY <1>1 DEF NoTurn, TurnRow
  <1>4. VoiceTurnTypeOK'
    <2>1. <<>> \in Seq(Event)
      OBVIOUS
    <2> QED BY <1>2, <1>3, <2>1 DEF TurnInv, VoiceTurnTypeOK
  <1>5. /\ turn'[t] = row /\ journal'[t] = <<>>
        /\ \A u \in Turns \ {t} : turn'[u] = turn[u] /\ journal'[u] = journal[u]
    BY <1>2 DEF TurnInv, VoiceTurnTypeOK
  <1>6. \A w \in Runs : RunSound(run[w])'
    <2> SUFFICES ASSUME NEW w \in Runs PROVE RunSound(run[w])'
      OBVIOUS
    <2>1. run[w].pc # "idle" => turn'[run[w].turn] = turn[run[w].turn]
      BY <1>2, <1>5, RunFacts
    <2>2. run[w].pc = "idle" => ~ Remembers(run[w])
      BY DEF Remembers
    <2> QED BY <1>2, <2>1, <2>2, RunFacts DEF RunSound, Snapshot, Remembers
  <1>7. OneTransition'
    BY <1>2 DEF TurnInv, OneTransition, Remembers
  <1>8. Tables'
    <2>1. JournalIsThere' /\ (\A u \in Turns : Shaped(turn[u])')
      BY <1>3, <1>5 DEF TurnInv, Tables, JournalIsThere, Shaped
    <2>2. JournalTellsTurn'
      <3>1. DOMAIN (<<>>) = {} /\ Len(<<>>) = 0
        OBVIOUS
      <3>2. ASSUME NEW u \in Turns, u # t
            PROVE  turn'[u] = turn[u] /\ journal'[u] = journal[u]
        BY <1>5, <3>2
      <3> QED BY <1>3, <1>5, <3>1, <3>2 DEF TurnInv, Tables, JournalTellsTurn, Last
    <2>3. EvidenceTellsOutcome' /\ RememberedOnce'
      BY <1>2, <1>3, <1>5 DEF TurnInv, Tables, EvidenceTellsOutcome, RememberedOnce
    <2> QED BY <2>1, <2>2, <2>3 DEF Tables
  <1> QED BY <1>4, <1>6, <1>7, <1>8 DEF TurnInv

LEMMA InitSound ==
  ASSUME OnSqlite, VoiceTurnInit
  PROVE  TurnInv
  <1>1. VoiceTurnTypeOK
    <2>1. <<>> \in Seq(Event)
      OBVIOUS
    <2> QED BY <2>1, FreeSound DEF VoiceTurnInit, VoiceTurnTypeOK
  <1>2. \A t \in Turns : turn[t] = NoTurn /\ journal[t] = <<>> /\ enqueued[t] = Nil /\ memory[t] = 0
    BY DEF VoiceTurnInit
  <1>3. NoTurn.status = "absent" /\ Shaped(NoTurn)
    BY FreeSound DEF NoTurn
  <1>4. (\A w \in Runs : RunSound(run[w])) /\ OneTransition
    BY FreeSound DEF VoiceTurnInit, OneTransition
  <1>5. JournalTellsTurn
    <2>1. ASSUME NEW t \in Turns
          PROVE  journal[t] = <<>> /\ DOMAIN journal[t] = {} /\ 2..Len(journal[t]) = {}
      <3>1. DOMAIN (<<>>) = {} /\ Len(<<>>) = 0 /\ 2..0 = {}
        OBVIOUS
      <3> QED BY <1>2, <3>1
    <2> QED BY <2>1 DEF JournalTellsTurn
  <1>6. (\A t \in Turns : Shaped(turn[t])) /\ JournalIsThere /\ EvidenceTellsOutcome /\ RememberedOnce
    BY <1>2, <1>3 DEF JournalIsThere, EvidenceTellsOutcome, RememberedOnce
  <1> QED BY <1>1, <1>4, <1>5, <1>6 DEF TurnInv, Tables

LEMMA StepSound ==
  ASSUME OnSqlite, TurnInv, [VoiceTurnNext]_voiceTurnVars
  PROVE  TurnInv'
  <1>1. ASSUME NEW w \in Runs, Accept(w) \/ Step(w) \/ RunRaises(w) \/ \E t \in Turns : Replay(w, t)
        PROVE  TurnInv'
    BY <1>1, AcceptSound, SpawnSound, GetSound, AnswerSound, RetrySound, FailSound, CheckSound,
       EndSound, WriteSound, RereadSound, RememberSound, EnqueueSound, ReplaySound DEF Step
  <1>2. CASE ServerDies \/ \E t \in Turns : Expire(t)
    BY <1>2, CrashSound, ExpireSound
  <1>3. CASE UNCHANGED voiceTurnVars
    BY <1>3 DEF voiceTurnVars, TurnInv, VoiceTurnTypeOK, RunSound, Snapshot, Remembers, OneTransition, Tables, Shaped,
                JournalIsThere, JournalTellsTurn, EvidenceTellsOutcome, RememberedOnce, Last
  <1> QED BY <1>1, <1>2, <1>3 DEF VoiceTurnNext

-----------------------------------------------------------------------------
(* The theorems.                                                           *)

LEMMA TurnInvariance == ASSUME OnSqlite PROVE VoiceTurnSpec => []TurnInv
  <1>1. VoiceTurnInit => TurnInv
    BY InitSound
  <1>2. TurnInv /\ [VoiceTurnNext]_voiceTurnVars => TurnInv'
    BY StepSound
  <1> QED BY <1>1, <1>2, PTL DEF VoiceTurnSpec

\* On SQLite the kiosk reads in the journal what the row says, the evidence
\* that is enqueued tells how the turn ended, and its session remembers it at
\* most once: _transition_turn, enqueue and record_history of modules/voice_turn,
\* for any number of threads that run the same turn, of crashes and of retries.
THEOREM TurnsAreTold ==
  ASSUME Locking = TRUE, Nil \notin Texts \cup Turns, Attempts \in Nat \ {0}, MaxVoiceFaults \in Nat
  PROVE  VoiceTurnSpec => []TurnIsTold
  <1>1. OnSqlite
    BY DEF OnSqlite
  <1>2. TurnInv => TurnIsTold
    BY DEF TurnInv, Tables, TurnIsTold
  <1> QED BY <1>1, <1>2, TurnInvariance, PTL

\* On SQLite a turn has one terminal event at most, and it is the last one.
THEOREM EndsAreUnique ==
  ASSUME Locking = TRUE, Nil \notin Texts \cup Turns, Attempts \in Nat \ {0}, MaxVoiceFaults \in Nat
  PROVE  VoiceTurnSpec => []OneTerminalEvent
  <1>1. OnSqlite
    BY DEF OnSqlite
  <1>2. TurnInv => OneTerminalEvent
    <2> SUFFICES ASSUME TurnInv, NEW t \in Turns, NEW i \in DOMAIN journal[t],
                        journal[t][i].status \in TerminalStatuses, i # Len(journal[t])
                 PROVE  FALSE
      BY DEF OneTerminalEvent
    <2>1. journal[t] \in Seq(Event)
      BY DEF TurnInv, VoiceTurnTypeOK
    <2>2. i + 1 \in 2..Len(journal[t])
      BY <2>1
    <2>3. <<journal[t][(i + 1) - 1].status, journal[t][i + 1].status>> \in Legal
      BY <2>2 DEF TurnInv, Tables, JournalTellsTurn
    <2>4. (i + 1) - 1 = i
      BY <2>1
    <2>5. \A step \in Legal : step[1] \notin TerminalStatuses
      BY DEF Legal, TerminalStatuses
    <2> QED BY <2>3, <2>4, <2>5
  <1> QED BY <1>1, <1>2, TurnInvariance, PTL

\* On SQLite no run replaces the transcript or the reply that another committed.
THEOREM WorkIsKept ==
  ASSUME Locking = TRUE, Nil \notin Texts \cup Turns, Attempts \in Nat \ {0}, MaxVoiceFaults \in Nat
  PROVE  VoiceTurnSpec => PhaseWorkIsKept
  <1>0. OnSqlite
    BY DEF OnSqlite
  <1>1. TurnInv /\ [VoiceTurnNext]_voiceTurnVars => \A t \in Turns : turn'[t].status # "gone" =>
          /\ turn[t].transcript # Nil => turn'[t].transcript = turn[t].transcript
          /\ turn[t].reply # Nil => turn'[t].reply = turn[t].reply
    <2> SUFFICES ASSUME TurnInv, [VoiceTurnNext]_voiceTurnVars, NEW u \in Turns, turn'[u].status # "gone"
                 PROVE  /\ turn[u].transcript # Nil => turn'[u].transcript = turn[u].transcript
                        /\ turn[u].reply # Nil => turn'[u].reply = turn[u].reply
      OBVIOUS
    <2>1. CASE UNCHANGED turn
      BY <2>1
    <2>2. ASSUME NEW w \in Runs, Accept(w)
          PROVE  turn'[u].transcript = turn[u].transcript /\ turn'[u].reply = turn[u].reply
      BY <2>2 DEF Accept, TurnInv, VoiceTurnTypeOK, TurnRow
    <2>3. ASSUME NEW w \in Runs, Write(w)
          PROVE  /\ turn[u].transcript # Nil => turn'[u].transcript = turn[u].transcript
                 /\ turn[u].reply # Nil => turn'[u].reply = turn[u].reply
      <3>1. PICK t \in Turns, row \in TurnRow :
              /\ turn[t].status \in Expected(run[w].target)
              /\ turn' = [turn EXCEPT ![t] = row]
              /\ run[w].target # "assisting" => row.transcript = turn[t].transcript
              /\ run[w].target # "synthesizing" => row.reply = turn[t].reply
        BY <1>0, <2>3, WriteFacts
      <3>2. run[w].target = "assisting" => turn[t].status = "transcribing"
        BY <3>1, LegalFacts
      <3>3. run[w].target = "synthesizing" => turn[t].status = "assisting"
        BY <3>1, LegalFacts
      <3>4. /\ run[w].target = "assisting" => turn[t].transcript = Nil
            /\ run[w].target = "synthesizing" => turn[t].reply = Nil
        BY <3>2, <3>3 DEF TurnInv, Tables, Shaped
      <3> QED BY <3>1, <3>4 DEF TurnInv, VoiceTurnTypeOK
    <2>4. ASSUME NEW t \in Turns, Expire(t)
          PROVE  u # t /\ turn'[u] = turn[u]
      BY <2>4 DEF Expire, TurnInv, VoiceTurnTypeOK, NoTurn
    <2> QED BY <2>1, <2>2, <2>3, <2>4
         DEF VoiceTurnNext, Step, Spawn, Get, Answer, RetryPhase, Fail, Check, CheckRefused, Reread, Remember,
             EnqueueEvidence, RunRaises, Replay, ServerDies, voiceTurnVars
  <1> QED BY <1>0, <1>1, TurnInvariance, PTL DEF VoiceTurnSpec, PhaseWorkIsKept

\* On SQLite the journal of a turn implements the stream that the kiosk follows:
\* events are appended, none follows an end, and only an ended stream goes away.
THEOREM JournalIsAStream ==
  ASSUME Locking = TRUE, Nil \notin Texts \cup Turns, Attempts \in Nat \ {0}, MaxVoiceFaults \in Nat
  PROVE  VoiceTurnSpec => ImplementsStream
  <1>0. OnSqlite
    BY DEF OnSqlite
  <1>1. VoiceTurnInit => Stream!Init
    BY DEF VoiceTurnInit, Stream!Init
  <1>2. TurnInv /\ [VoiceTurnNext]_voiceTurnVars => [Stream!Next]_journal
    <2> SUFFICES ASSUME TurnInv, VoiceTurnNext, journal' # journal
                 PROVE  Stream!Next
      BY DEF voiceTurnVars
    <2>1. ASSUME NEW w \in Runs, Accept(w)
          PROVE  Stream!Next
      <3>1. PICK t \in Turns, event \in Event :
              /\ turn[t].status = "absent"
              /\ journal' = [journal EXCEPT ![t] = Append(@, event)]
        <4>1. [status |-> "accepted", heard |-> Nil, said |-> Nil] \in Event
          BY DEF Event, Statuses
        <4> QED BY <2>1, <4>1 DEF Accept
      <3>2. journal[t] = <<>>
        BY <3>1 DEF TurnInv, Tables, JournalIsThere
      <3>3. Stream!Emit(t, event)
        BY <3>1, <3>2 DEF Stream!Emit, Stream!Ended
      <3> QED BY <3>3 DEF Stream!Next
    <2>2. ASSUME NEW w \in Runs, Write(w)
          PROVE  Stream!Next
      <3>1. PICK t \in Turns, event \in Event :
              /\ turn[t].status \in Expected(run[w].target)
              /\ journal' = [journal EXCEPT ![t] = Append(journal[t], event)]
        BY <1>0, <2>2, WriteFacts
      <3>2. turn[t].status \notin TerminalStatuses
        BY <3>1, LegalFacts
      <3>3. journal[t] # <<>> => journal[t][Len(journal[t])].status \notin TerminalStatuses
        BY <3>2 DEF TurnInv, Tables, JournalTellsTurn, Last
      <3>4. Stream!Emit(t, event)
        BY <3>1, <3>3 DEF Stream!Emit, Stream!Ended
      <3> QED BY <3>4 DEF Stream!Next
    <2>3. ASSUME NEW t \in Turns, Expire(t)
          PROVE  Stream!Next
      <3>1. turn[t].status \in TerminalStatuses /\ journal' = [journal EXCEPT ![t] = <<>>]
        BY <2>3 DEF Expire
      <3>2. journal[t] # <<>>
        BY <3>1 DEF TurnInv, Tables, JournalIsThere, TerminalStatuses
      <3>3. journal[t][Len(journal[t])].status \in TerminalStatuses
        BY <3>1, <3>2 DEF TurnInv, Tables, JournalTellsTurn, Last
      <3>4. journal[t][Len(journal[t])] \in Event
        <4>1. PICK log \in Seq(Event) : log = journal[t]
          BY DEF TurnInv, VoiceTurnTypeOK
        <4>2. log # <<>> => Len(log) \in 1..Len(log)
          BY <4>1
        <4> QED BY <3>2, <4>1, <4>2
      <3>5. Stream!Discard(t)
        BY <3>1, <3>2, <3>3, <3>4 DEF Stream!Discard, Stream!Ended
      <3> QED BY <3>5 DEF Stream!Next
    <2> QED BY <2>1, <2>2, <2>3
         DEF VoiceTurnNext, Step, Spawn, Get, Answer, RetryPhase, Fail, Check, CheckRefused, Reread, Remember,
             EnqueueEvidence, RunRaises, Replay, ServerDies, voiceTurnVars
  <1> QED BY <1>0, <1>1, <1>2, TurnInvariance, PTL DEF VoiceTurnSpec, ImplementsStream, Stream!Spec
-----------------------------------------------------------------------------
(* The types of jobs, events and turns, whichever of the three runs.       *)

SettlementInv ==
  /\ active \in {"jobs", "events", "turns"}
  /\ IInv
  /\ OutboxTypeOK /\ Shape
  /\ TurnInv

LEMMA SettlementStarts == ASSUME OnSqlite, SettlementInit PROVE SettlementInv
  <1>1. Init => IInv
    BY InitInvariant
  <1>2. OutboxInit => OutboxTypeOK /\ Shape
    BY InitEvents DEF EventsInv
  <1>3. VoiceTurnInit => TurnInv
    BY InitSound
  <1> QED BY <1>1, <1>2, <1>3 DEF SettlementInit, SettlementInv

LEMMA SettlementStep ==
  ASSUME OnSqlite, SettlementInv, [SettlementNext]_allVars
  PROVE  SettlementInv'
  <1>1. IInv /\ [Next]_vars => IInv'
    BY NextInvariant
  <1>2. OutboxTypeOK /\ Shape /\ [OutboxNext]_outboxVars => OutboxTypeOK' /\ Shape'
    BY TypeNext, ShapeNext
  <1>3. TurnInv /\ [VoiceTurnNext]_voiceTurnVars => TurnInv'
    BY StepSound
  <1>4. [Next]_vars /\ [OutboxNext]_outboxVars /\ [VoiceTurnNext]_voiceTurnVars
    BY DEF SettlementNext, Jobwise, Eventwise, Turnwise, allVars
  <1>5. active' = active
    BY DEF SettlementNext, Jobwise, Eventwise, Turnwise, allVars
  <1> QED BY <1>1, <1>2, <1>3, <1>4, <1>5 DEF SettlementInv

\* The rows of background_jobs, checkout_outbox, voice_turns, its events and its
\* evidence, and the locals of every worker, dispatch and run keep their types:
\* no step of worker_job_repository.py, dispatch_outbox or, on SQLite, of
\* VoiceTurnModule stores what its readers do not expect.
THEOREM SettlementTypes ==
  ASSUME Locking = TRUE, Nil \notin Texts \cup Turns, Attempts \in Nat \ {0}, MaxVoiceFaults \in Nat
  PROVE  SettlementSpec => []SettlementTypeOK
  <1>1. OnSqlite
    BY DEF OnSqlite
  <1>2. SettlementInit => SettlementInv
    BY <1>1, SettlementStarts
  <1>3. SettlementInv /\ [SettlementNext]_allVars => SettlementInv'
    BY <1>1, SettlementStep
  <1>4. SettlementInv => SettlementTypeOK
    BY DEF SettlementInv, SettlementTypeOK, IInv, TurnInv
  <1> QED BY <1>2, <1>3, <1>4, PTL DEF SettlementSpec

=============================================================================
