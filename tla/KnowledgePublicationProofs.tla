--------------------- MODULE KnowledgePublicationProofs ---------------------
(***************************************************************************)
(* Proofs about KnowledgePublication, for any number of versions, requests,*)
(* workers, claims and faults.                                             *)
(***************************************************************************)
EXTENDS KnowledgePublication, FiniteSetTheorems, TLAPS

\* What the model's parameters have to be for the promises to hold: the store is
\* SQLite, nobody overtakes a retry, a failed enqueue or a sweep, a sweep does
\* not stop halfway, a job has one run at a time and an enqueue that raises
\* stored nothing.
Guarded == OnSqlite /\ Prompt /\ Timely /\ ~Lossy /\ ~Torn

Building == {"item", "build", "transient", "record"}

\* What the attempt of a version, its status and its documents may be together.
Agree(v) ==
  LET a == attempt[v] IN
  \/ /\ a.phase = "build" /\ ~a.ref
     /\ \/ a.status = "none" /\ status[v] \in {"none", "draft"}
        \/ a.status = "in_progress" /\ status[v] = "indexing"
        \/ a.status = "index_failed" /\ status[v] = "index_failed"
  \/ /\ a.phase = "swap" /\ job[v].status # "absent"
     /\ \/ a.status = "in_progress" /\ status[v] = "indexing" /\ docs[v] # 0
        \/ /\ a.status = "publication_failed" /\ status[v] = "publication_failed"
           /\ a.ref /\ sweep.at # v => docs[v] # 0
  \/ /\ a.phase = "cleanup" /\ job[v].status # "absent"
     /\ a.status = "cleanup_pending" /\ status[v] = "published"
     /\ a.old \in Versions /\ status[a.old] = "retired"
  \/ /\ a.phase = "complete" /\ job[v].status # "absent"
     /\ a.status = "published" /\ status[v] \in {"published", "retired"}

\* The versions of an item that exists are numbered without a gap; of one
\* that was purged nothing is left.
Numbered ==
  /\ Exists => \E n \in Versions : \A v \in Versions : status[v] # "none" <=> v <= n
  /\ ~Exists => pointer = 0 /\ \A v \in Versions : status[v] = "none"

PointerSound ==
  /\ \A v \in Versions : status[v] = "published" <=> pointer = v
  /\ pointer # 0 => docs[pointer] # 0
  /\ \A v \in Versions : retiring[v] # "none" => status[v] = "retired"

\* What is in progress is newer than all that was ever published.
NewestSound ==
  /\ Exists /\ newest # 0 => status[newest] \in {"published", "retired"}
  /\ \A v \in Versions : attempt[v].status = "in_progress" => v > newest

OneRuns ==
  \A u, v \in Versions : attempt[u].status \in Running /\ attempt[v].status \in Running => u = v

RequestSound(r) ==
  LET k == admin[r] IN
  /\ Unguarded(r) => sweep = NoSweep /\ \A q \in Admins : Unguarded(q) => q = r
  /\ k.pc \in {"retry", "resume"} =>
       Exists /\ k.v \in Versions /\ k.v = Latest /\ status[k.v] \in Failed
  /\ k.pc = "resume" /\ k.reuse => attempt[k.v].ref /\ attempt[k.v].status = "publication_failed"
  /\ k.pc = "enqueue" => k.v \in Versions
  /\ k.pc = "fail_enqueue" => k.v \in Versions /\ job[k.v].status = "absent"
  /\ k.pc \in {"clean", "complete"} => k.v \in Versions /\ (Exists => status[k.v] = "retired")

RunSound(w) ==
  LET k == run[w] IN
  /\ k.pc # "idle" => k.v \in Versions /\ job[k.v].status # "absent"
  /\ \A u \in Workers : k.v # 0 /\ run[u].v = k.v => u = w
  /\ k.pc \in Building => attempt[k.v].phase = "build"
  /\ k.pc = "build" => k.content \in Versions
  /\ k.pc = "record" /\ Exists => docs[k.v] # 0
  /\ k.pc = "cleanup" /\ Exists => k.content \in Versions /\ status[k.content] = "retired"

\* A sweep is at attempts that are failed and have an artifact.
SweepSound ==
  \A v \in Versions :
    v \in sweep.todo \/ v = sweep.at => attempt[v].status \in Failed /\ attempt[v].ref

PublicationInv ==
  /\ TypeOK
  /\ \A v \in Versions : Agree(v)
  /\ Numbered
  /\ PointerSound
  /\ NewestSound
  /\ OneRuns
  /\ \A r \in Admins : RequestSound(r)
  /\ \A w \in Workers : RunSound(w)
  /\ SweepSound

\* On SQLite no request rests between what begin_batch or begin_retirement
\* reads and what it writes.
Whole == \A r \in Admins : admin[r].pc # "batch" /\ (admin[r].pc = "retire" => admin[r].v = 0)

-----------------------------------------------------------------------------
(* Lemmas.                                                                 *)

LEMMA VersionNumbers ==
  /\ Versions \subseteq Nat /\ 0 \notin Versions /\ Versions \subseteq 0..MaxVersion
  /\ 1 \in Versions /\ 0 \in 0..MaxVersion /\ 1 \in 0..2 /\ 2 \in 0..2
  BY KnowledgePublicationAssumption DEF Versions

LEMMA Blanks ==
  /\ NoAttempt \in Attempt /\ NoAttempt.phase = "build" /\ NoAttempt.status = "none" /\ ~NoAttempt.ref
  /\ NoRequest \in Admin /\ NoRequest.pc = "idle" /\ ~NoRequest.reuse
  /\ NoRun \in Run /\ NoRun.pc = "idle" /\ NoRun.v = 0
  /\ NoSweep \in [todo : SUBSET Versions, at : 0..MaxVersion]
  /\ NoSweep.todo = {} /\ NoSweep.at = 0
  BY KnowledgePublicationAssumption
  DEF NoAttempt, NoRequest, NoRun, NoSweep, Attempt, Admin, Run, Phases, Running, Failed

LEMMA LatestIs ==
  ASSUME Numbered, Exists
  PROVE  /\ Latest \in Versions
         /\ \A v \in Versions : status[v] # "none" <=> v <= Latest
  <1>1. PICK n \in Versions : \A v \in Versions : status[v] # "none" <=> v <= n
    BY DEF Numbered
  <1> DEFINE P(x) == status[x] # "none" /\ \A u \in Versions : status[u] # "none" => u <= x
  <1>2. P(n)
    BY <1>1, VersionNumbers
  <1>3. Latest \in Versions /\ P(Latest)
    BY <1>2 DEF Latest
  <1>4. Latest = n
    BY <1>1, <1>2, <1>3, VersionNumbers
  <1> QED BY <1>1, <1>4

LEMMA PublicationStart == Init => PublicationInv
  <1> SUFFICES ASSUME Init PROVE PublicationInv
    OBVIOUS
  <1>1. TypeOK
    BY Blanks, VersionNumbers, KnowledgePublicationAssumption DEF Init, TypeOK
  <1>2. \A v \in Versions : Agree(v)
    BY Blanks DEF Init, Agree
  <1>3. Numbered
    <2>1. \A v \in Versions : status[v] # "none" <=> v <= 1
      BY VersionNumbers DEF Init, Versions
    <2> QED BY <2>1, VersionNumbers DEF Init, Numbered, Exists
  <1>4. PointerSound /\ NewestSound /\ OneRuns
    BY Blanks, VersionNumbers DEF Init, PointerSound, NewestSound, OneRuns, Running
  <1>5. \A r \in Admins : RequestSound(r)
    BY Blanks DEF Init, RequestSound, Unguarded
  <1>6. \A w \in Workers : RunSound(w)
    BY Blanks DEF Init, RunSound, Building
  <1>7. SweepSound
    BY Blanks, VersionNumbers DEF Init, SweepSound
  <1> QED BY <1>1, <1>2, <1>3, <1>4, <1>5, <1>6, <1>7 DEF PublicationInv

\* What the tables and the index say, without who is at work on them.
TablesInv ==
  /\ TypeOK
  /\ \A v \in Versions : Agree(v)
  /\ Numbered
  /\ PointerSound
  /\ NewestSound
  /\ OneRuns

\* A job that is in the table stays there.
JobsStay == \A v \in Versions : job[v].status # "absent" => job'[v].status # "absent"

\* Steps of a request or a run that only decide what to do next.
LEMMA TablesKept ==
  ASSUME PublicationInv, TypeOK', UNCHANGED <<tables, docs, newest>>, JobsStay,
         sweep'.at = sweep.at
  PROVE  TablesInv'
  <1>1. (\A v \in Versions : Agree(v))'
    BY DEF PublicationInv, Agree, JobsStay, tables
  <1>2. Numbered' /\ PointerSound' /\ NewestSound' /\ OneRuns'
    BY DEF PublicationInv, Numbered, Exists, PointerSound, NewestSound, OneRuns, tables
  <1> QED BY <1>1, <1>2 DEF TablesInv

\* What a worker or a sweep may do to the requests under way: nobody is in a
\* window that the code leaves open, and what was retired stays so.
LEMMA RequestsKept ==
  ASSUME PublicationInv, UNCHANGED admin, Exists' => Exists, \A q \in Admins : ~Unguarded(q),
         \A v \in Versions : status[v] = "retired" => status'[v] = "retired"
  PROVE  \A r \in Admins : RequestSound(r)'
  BY DEF PublicationInv, RequestSound, Unguarded, Exists

\* The same for the other requests when one goes on.
LEMMA OthersKept ==
  ASSUME PublicationInv, NEW r \in Admins, NEW k, admin' = [admin EXCEPT ![r] = k],
         \A q \in Admins \ {r} : ~Unguarded(q), UNCHANGED sweep, Exists' => Exists,
         \A v \in Versions : Exists' /\ status[v] = "retired" => status'[v] = "retired"
  PROVE  \A q \in Admins \ {r} : RequestSound(q)' /\ ~Unguarded(q)'
  BY DEF PublicationInv, RequestSound, Unguarded

\* What a request or a sweep may do to the runs under way.
LEMMA RunsKept ==
  ASSUME PublicationInv, UNCHANGED run, JobsStay, Exists' => Exists,
         \A v \in Versions : attempt[v].phase = "build" => attempt'[v].phase = "build",
         \A v \in Versions : Exists' /\ attempt[v].phase = "build" /\ docs[v] # 0 => docs'[v] # 0,
         \A v \in Versions : Exists' /\ status[v] = "retired" => status'[v] = "retired"
  PROVE  \A w \in Workers : RunSound(w)'
  BY DEF PublicationInv, RunSound, Building, JobsStay

LEMMA OtherRunsKept ==
  ASSUME PublicationInv, NEW w \in Workers, NEW k, run' = [run EXCEPT ![w] = k],
         k.v = run[w].v, JobsStay, rev' = rev,
         \A v \in Versions \ {run[w].v} : attempt'[v].phase = attempt[v].phase,
         \A v \in Versions \ {run[w].v} :
           Exists /\ attempt[v].phase = "build" => docs'[v] = docs[v],
         \A v \in Versions : status[v] = "retired" => status'[v] = "retired"
  PROVE  \A u \in Workers \ {w} : RunSound(u)'
  <1> SUFFICES ASSUME NEW u \in Workers \ {w} PROVE RunSound(u)'
    OBVIOUS
  <1>1. run'[u] = run[u] /\ RunSound(u) /\ RunSound(w) /\ run[u] \in Run /\ run[w] \in Run /\ run' \in [Workers -> Run \cup {k}]
    BY DEF PublicationInv, TypeOK
  <1>2. run[u].v # 0 => run[u].v # run[w].v
    BY <1>1 DEF RunSound
  <1>3. \A x \in Workers : run'[x].v = run[x].v
    BY <1>1 DEF PublicationInv, TypeOK
  <1> QED BY <1>1, <1>2, <1>3, VersionNumbers DEF RunSound, Building, JobsStay, Exists

LEMMA NoSweepSound == sweep' = NoSweep => SweepSound'
  BY Blanks, VersionNumbers DEF SweepSound

-----------------------------------------------------------------------------
(* Steps of a worker that leave the tables alone.                          *)

\* A run that goes on at its own version.
LEMMA RunOnly ==
  ASSUME PublicationInv, Guarded, NEW w \in Workers, ~Held(Admins), NEW k \in Run,
         run' = [run EXCEPT ![w] = k], k.v = run[w].v, RunSound(w)',
         UNCHANGED <<tables, docs, job, admin, sweep, newest>>, faults' \in 0..MaxFaults
  PROVE  PublicationInv'
  <1>1. TypeOK'
    BY DEF PublicationInv, TypeOK, tables
  <1>2. TablesInv'
    BY <1>1, TablesKept DEF JobsStay
  <1>3. \A r \in Admins : RequestSound(r)'
    BY RequestsKept DEF Held, Guarded, tables, Exists
  <1>4. \A u \in Workers \ {w} : RunSound(u)'
    BY OtherRunsKept DEF JobsStay, tables
  <1>5. SweepSound'
    BY DEF PublicationInv, SweepSound, tables
  <1> QED BY <1>2, <1>3, <1>4, <1>5 DEF PublicationInv, TablesInv

\* Two runs of one version are one.
LEMMA RunAlone ==
  ASSUME PublicationInv, NEW w \in Workers, NEW k \in Run,
         run' = [run EXCEPT ![w] = k], k.v = run[w].v
  PROVE  \A u \in Workers : run'[w].v # 0 /\ run'[u].v = run'[w].v => u = w
  <1>1. \A u \in Workers : run'[u].v = run[u].v /\ run'[w] = k
    BY DEF PublicationInv, TypeOK
  <1> QED BY <1>1 DEF PublicationInv, RunSound

\* It may go where a run with nothing to answer for goes, or to a new phase.
LEMMA RunGoesOn ==
  ASSUME PublicationInv, Guarded, NEW w \in Workers, ~Held(Admins), NEW k \in Run,
         run' = [run EXCEPT ![w] = k], k.v = run[w].v, run[w].pc # "idle",
         k.pc \in Building => attempt[k.v].phase = "build",
         k.pc = "build" => k.content \in Versions,
         k.pc = "record" /\ Exists => docs[k.v] # 0,
         k.pc = "cleanup" /\ Exists => k.content \in Versions /\ status[k.content] = "retired",
         UNCHANGED <<tables, docs, job, admin, sweep, newest>>, faults' \in 0..MaxFaults
  PROVE  PublicationInv'
  <1>1. run'[w] = k
    BY DEF PublicationInv, TypeOK
  <1>2. k.v \in Versions /\ job[k.v].status # "absent"
    BY DEF PublicationInv, RunSound
  <1>3. RunSound(w)'
    BY <1>1, <1>2, RunAlone DEF RunSound, tables, Exists
  <1> QED BY <1>3, RunOnly

LEMMA FaultType == PublicationInv /\ Fault => faults' \in 0..MaxFaults
  BY KnowledgePublicationAssumption DEF PublicationInv, TypeOK, Fault

LEMMA ReadStep ==
  ASSUME PublicationInv, Guarded, NEW w \in Workers, ~Held(Admins), Read(w)
  PROVE  PublicationInv'
  <1> DEFINE v == run[w].v
             a == attempt[v]
  <1>1. /\ run[w] \in Run /\ run[w].pc = "read" /\ v \in Versions /\ a \in Attempt /\ Agree(v)
        /\ faults \in 0..MaxFaults
    BY DEF Read, RunAt, PublicationInv, TypeOK, RunSound
  <1>2. a.phase = "cleanup" => a.old \in Versions /\ status[a.old] = "retired"
    BY <1>1 DEF Agree
  <1> DEFINE Goes(k) ==
         /\ run' = [run EXCEPT ![w] = k] /\ k.v = v
         /\ k.pc \in {"item", "swap", "cleanup", "report"}
         /\ k.pc = "item" => a.phase = "build"
         /\ k.pc = "cleanup" => a.phase = "cleanup" /\ k.content = a.old
  <1>3. PICK k \in Run : Goes(k)
    <2>1. CASE run' = [run EXCEPT ![w] = [run[w] EXCEPT !.pc = "cleanup", !.content = a.old]] /\ a.phase = "cleanup"
      <3>1. [run[w] EXCEPT !.pc = "cleanup", !.content = a.old] \in Run
        BY <1>1 DEF Run, Attempt
      <3> QED BY <1>1, <2>1, <3>1 DEF Run
    <2>2. ASSUME NEW pc \in {"item", "swap"}, pc = "item" => a.phase = "build",
                 run' = [run EXCEPT ![w] = [run[w] EXCEPT !.pc = pc]]
          PROVE  \E k \in Run : Goes(k)
      <3> DEFINE k == [run[w] EXCEPT !.pc = pc]
      <3>1. k \in Run /\ k.v = v /\ k.pc = pc
        BY <1>1 DEF Run
      <3>2. run' = [run EXCEPT ![w] = k]
        BY <2>2
      <3> HIDE DEF k
      <3> QED BY <2>2, <3>1, <3>2
    <2>3. ASSUME NEW again \in BOOLEAN,
                 run' = [run EXCEPT ![w] = [run[w] EXCEPT !.pc = "report", !.again = again]]
          PROVE  \E k \in Run : Goes(k)
      <3> DEFINE k == [run[w] EXCEPT !.pc = "report", !.again = again]
      <3>1. k \in Run /\ k.v = v /\ k.pc = "report"
        BY <1>1 DEF Run
      <3>2. run' = [run EXCEPT ![w] = k]
        BY <2>3
      <3> HIDE DEF k
      <3> QED BY <2>3, <3>1, <3>2
    <2>4. (~run[w].last) \in BOOLEAN
      BY Zenon
    <2>5. (a.status = "in_progress") \in BOOLEAN
      BY Zenon
    <2> QED BY <1>1, <2>1, <2>2, <2>3, <2>4, <2>5 DEF Read, RunGoes, RunStage, RunReports, RunRaises
  <1>4. UNCHANGED <<tables, docs, job, admin, sweep, faults, newest>>
    BY DEF Read
  <1> HIDE DEF v, a
  <1> QED BY <1>1, <1>2, <1>3, <1>4, RunGoesOn DEF v, a, Building

LEMMA ReadItemStep ==
  ASSUME PublicationInv, Guarded, NEW w \in Workers, ~Held(Admins), ReadItem(w)
  PROVE  PublicationInv'
  <1>1. /\ run[w] \in Run /\ run[w].pc = "item" /\ attempt[run[w].v].phase = "build"
        /\ faults \in 0..MaxFaults
    BY DEF ReadItem, RunAt, PublicationInv, TypeOK, RunSound, Building
  <1>2. UNCHANGED <<tables, docs, job, admin, sweep, faults, newest>>
    BY DEF ReadItem
  <1>3. CASE Exists
    <2> DEFINE k == [run[w] EXCEPT !.pc = "build", !.content = Latest]
    <2>1. Latest \in Versions
      BY <1>3, LatestIs DEF PublicationInv
    <2>2. k \in Run /\ k.v = run[w].v /\ k.pc = "build" /\ k.content = Latest
      BY <1>1, <2>1, VersionNumbers DEF Run
    <2>3. run' = [run EXCEPT ![w] = k]
      BY <1>3 DEF ReadItem, RunGoes
    <2> HIDE DEF k
    <2> QED BY <1>1, <1>2, <2>1, <2>2, <2>3, RunGoesOn
  <1>4. CASE ~Exists
    <2> DEFINE k == [run[w] EXCEPT !.pc = "report", !.again = ~run[w].last]
    <2>1. k \in Run /\ k.v = run[w].v /\ k.pc = "report"
      BY <1>1 DEF Run
    <2>2. run' = [run EXCEPT ![w] = k]
      BY <1>4 DEF ReadItem, RunRaises, RunReports, RunGoes
    <2> HIDE DEF k
    <2> QED BY <1>1, <1>2, <2>1, <2>2, RunGoesOn DEF Building
  <1> QED BY <1>3, <1>4

\* A run that ends, whatever becomes of its job.
LEMMA RunEnds ==
  ASSUME PublicationInv, Guarded, NEW w \in Workers, ~Held(Admins),
         run' = [run EXCEPT ![w] = NoRun], JobsStay,
         job' \in [Versions -> [status : {"absent", "open", "settled"}, claims : Nat]],
         UNCHANGED <<tables, docs, admin, sweep, newest>>, faults' \in 0..MaxFaults
  PROVE  PublicationInv'
  <1>1. TypeOK'
    BY Blanks DEF PublicationInv, TypeOK, tables
  <1>2. TablesInv'
    BY <1>1, TablesKept
  <1>3. \A r \in Admins : RequestSound(r)'
    BY RequestsKept DEF Held, Guarded, tables, Exists
  <1>4. ASSUME NEW u \in Workers PROVE RunSound(u)'
    <2>1. /\ run'[u] \in {run[u], NoRun} /\ RunSound(u)
          /\ \A x \in Workers : run'[x] \in {run[x], NoRun}
      BY DEF PublicationInv, TypeOK
    <2> QED BY <2>1, Blanks DEF RunSound, Building, JobsStay, tables, Exists
  <1>5. SweepSound'
    BY DEF PublicationInv, SweepSound, tables
  <1> QED BY <1>2, <1>3, <1>4, <1>5 DEF PublicationInv, TablesInv

LEMMA ReportStep ==
  ASSUME PublicationInv, Guarded, NEW w \in Workers, ~Held(Admins), Report(w)
  PROVE  PublicationInv'
  <1>1. /\ job' \in [Versions -> [status : {"absent", "open", "settled"}, claims : Nat]]
        /\ JobsStay
    BY DEF Report, PublicationInv, TypeOK, JobsStay
  <1> QED BY <1>1, RunEnds DEF Report, RunGoes, PublicationInv, TypeOK

LEMMA WorkerDiesStep ==
  ASSUME PublicationInv, Guarded, NEW w \in Workers, ~Held(Admins), WorkerDies(w)
  PROVE  PublicationInv'
  BY FaultType, RunEnds DEF WorkerDies, RunGoes, PublicationInv, TypeOK, JobsStay

LEMMA NewRun ==
  ASSUME NEW v \in Versions, NEW b \in BOOLEAN
  PROVE  LET k == [NoRun EXCEPT !.pc = "read", !.v = v, !.last = b] IN
         k \in Run /\ k.v = v /\ k.pc = "read"
  BY Blanks, VersionNumbers DEF Run

LEMMA DeliverStep ==
  ASSUME PublicationInv, Guarded, NEW w \in Workers, ~Held(Admins), NEW v \in Versions, Deliver(w, v)
  PROVE  PublicationInv'
  <1> DEFINE k == [NoRun EXCEPT !.pc = "read", !.v = v, !.last = job[v].claims + 1 >= MaxClaims]
  <1>1. k \in Run /\ k.v = v /\ k.pc = "read"
    <2>1. (job[v].claims + 1 >= MaxClaims) \in BOOLEAN
      <3>1. job[v].claims \in Nat
        BY DEF PublicationInv, TypeOK
      <3> QED BY <3>1, KnowledgePublicationAssumption
    <2> QED BY <2>1, NewRun
  <1>2. /\ run' = [run EXCEPT ![w] = k] /\ run[w].pc = "idle" /\ job[v].status = "open"
        /\ job' = [job EXCEPT ![v].claims = @ + 1] /\ \A u \in Workers : run[u].v # v
        /\ UNCHANGED <<tables, docs, admin, sweep, faults, newest>>
    BY DEF Deliver, RunAt, RunGoes, Guarded
  <1> HIDE DEF k
  <1>3. JobsStay /\ job' \in [Versions -> [status : {"absent", "open", "settled"}, claims : Nat]]
    BY <1>2 DEF PublicationInv, TypeOK, JobsStay
  <1>4. TypeOK'
    BY <1>1, <1>2, <1>3 DEF PublicationInv, TypeOK, tables
  <1>5. TablesInv'
    BY <1>2, <1>3, <1>4, TablesKept
  <1>6. \A r \in Admins : RequestSound(r)'
    BY <1>2, RequestsKept DEF Held, Guarded, tables, Exists
  <1>7. ASSUME NEW u \in Workers PROVE RunSound(u)'
    <2>1. \A x \in Workers : run'[x] = IF x = w THEN k ELSE run[x]
      BY <1>2 DEF PublicationInv, TypeOK
    <2>2. job'[v].status # "absent"
      BY <1>2, <1>3 DEF JobsStay
    <2> QED BY <1>1, <1>2, <1>3, <2>1, <2>2 DEF PublicationInv, RunSound, Building, JobsStay, tables, Exists
  <1>8. SweepSound'
    BY <1>2 DEF PublicationInv, SweepSound, tables
  <1> QED BY <1>5, <1>6, <1>7, <1>8 DEF PublicationInv, TablesInv

-----------------------------------------------------------------------------
(* Steps of a worker that change the tables or the index.                  *)

LEMMA RunChanges ==
  ASSUME PublicationInv, Guarded, NEW w \in Workers, ~Held(Admins), NEW k \in Run,
         run' = [run EXCEPT ![w] = k], k.v = run[w].v, run[w].pc # "idle",
         k.pc \notin {"item", "build", "cleanup"},
         k.pc \in Building => /\ attempt'[k.v].phase = "build"
                              /\ k.pc = "transient" \/ docs'[k.v] # 0,
         UNCHANGED <<rev, job, admin, sweep>>, TablesInv',
         \A u \in Versions \ {k.v} : attempt'[u].phase = attempt[u].phase,
         \A u \in Versions \ {k.v} : Exists /\ attempt[u].phase = "build" => docs'[u] = docs[u],
         \A u \in Versions : status[u] = "retired" => status'[u] = "retired"
  PROVE  PublicationInv'
  <1>1. \A r \in Admins : RequestSound(r)'
    BY RequestsKept DEF Held, Guarded, Exists
  <1>2. \A u \in Workers \ {w} : RunSound(u)'
    BY OtherRunsKept DEF JobsStay
  <1>3. run'[w] = k
    BY DEF PublicationInv, TypeOK
  <1>4. k.v \in Versions /\ job[k.v].status # "absent"
    BY DEF PublicationInv, RunSound
  <1>5. RunSound(w)'
    BY <1>3, <1>4, RunAlone DEF RunSound, Building
  <1>6. SweepSound'
    BY NoSweepSound DEF Held, Guarded
  <1> QED BY <1>1, <1>2, <1>5, <1>6 DEF PublicationInv, TablesInv

\* The row of one version changes, which is neither published nor retired.
LEMMA OneRowChanges ==
  ASSUME PublicationInv, TypeOK', NEW v \in Versions,
         \A u \in Versions \ {v} : attempt'[u] = attempt[u] /\ status'[u] = status[u],
         UNCHANGED <<pointer, retiring, docs, newest>>, Exists' <=> Exists, JobsStay,
         \A u \in Versions \ {v} : sweep'.at # u => sweep.at # u,
         status[v] \notin {"none", "published", "retired"},
         status'[v] \notin {"none", "published", "retired"}, Agree(v)',
         attempt'[v].status \in Running => \A u \in Versions \ {v} : attempt[u].status \notin Running,
         attempt'[v].status = "in_progress" => v > newest
  PROVE  TablesInv'
  <1>1. ASSUME NEW u \in Versions \ {v} PROVE Agree(u)'
    BY <1>1 DEF PublicationInv, Agree, JobsStay
  <1>2. Numbered'
    BY DEF PublicationInv, Numbered
  <1>3. PointerSound'
    BY DEF PublicationInv, PointerSound
  <1>4. NewestSound'
    BY DEF PublicationInv, NewestSound, TypeOK, Versions
  <1>5. OneRuns'
    BY DEF PublicationInv, OneRuns
  <1> QED BY <1>1, <1>2, <1>3, <1>4, <1>5 DEF TablesInv

\* A run that writes documents of its version while it builds.
LEMMA BuildStep ==
  ASSUME PublicationInv, Guarded, NEW w \in Workers, ~Held(Admins), Build(w)
  PROVE  PublicationInv'
  <1> DEFINE v == run[w].v
  <1>1. /\ run[w] \in Run /\ run[w].pc = "build" /\ v \in Versions /\ attempt[v].phase = "build"
        /\ run[w].content \in Versions /\ run[w].content # 0 /\ faults \in 0..MaxFaults
    BY VersionNumbers DEF Build, RunAt, PublicationInv, TypeOK, RunSound, Building
  <1>2. PICK pc \in {"record", "transient"} :
          /\ run' = [run EXCEPT ![w] = [run[w] EXCEPT !.pc = pc]]
          /\ \E n \in 0..MaxVersion : docs' = [docs EXCEPT ![v] = n] /\ (pc = "record" => n # 0)
          /\ faults' \in 0..MaxFaults
    <2>1. CASE docs' = [docs EXCEPT ![v] = run[w].content] /\ RunStage(w, "record") /\ UNCHANGED faults
      BY <1>1, <2>1, VersionNumbers DEF RunStage, RunGoes
    <2>2. CASE Fault /\ docs' = [docs EXCEPT ![v] = 0] /\ RunStage(w, "transient")
      <3>1. faults' \in 0..MaxFaults
        BY <2>2, FaultType
      <3>2. 0 \in 0..MaxVersion
        BY KnowledgePublicationAssumption
      <3> QED BY <2>2, <3>1, <3>2 DEF RunStage, RunGoes
    <2> QED BY <2>1, <2>2 DEF Build
  <1> DEFINE k == [run[w] EXCEPT !.pc = pc]
  <1>3. k \in Run /\ k.v = v /\ k.pc = pc
    BY <1>1 DEF Run
  <1>4. run' = [run EXCEPT ![w] = k]
    BY <1>2
  <1>5. UNCHANGED <<tables, job, admin, sweep, newest>>
    BY DEF Build
  <1> HIDE DEF k, v
  <1>6. TypeOK'
    BY <1>1, <1>2, <1>3, <1>4, <1>5 DEF PublicationInv, TypeOK, tables
  <1>7. \A u \in Versions \ {v} : docs'[u] = docs[u]
    BY <1>1, <1>2 DEF PublicationInv, TypeOK
  <1>8. docs'[v] # 0 \/ pc = "transient"
    BY <1>1, <1>2 DEF PublicationInv, TypeOK
  <1>9. \A u \in Versions : Agree(u)'
    BY <1>1, <1>5, <1>7 DEF PublicationInv, Agree, tables
  <1>10. pointer # v
    BY <1>1 DEF PublicationInv, Agree, PointerSound
  <1>11. Numbered' /\ PointerSound' /\ NewestSound' /\ OneRuns'
    BY <1>5, <1>7, <1>10
    DEF PublicationInv, TypeOK, Numbered, Exists, PointerSound, NewestSound, OneRuns, tables, Versions
  <1>12. TablesInv'
    BY <1>6, <1>9, <1>11 DEF TablesInv
  <1>13. k.v = run[w].v
    BY <1>3 DEF v
  <1> QED
    BY <1>1, <1>3, <1>4, <1>5, <1>7, <1>8, <1>12, <1>13, RunChanges DEF Building, tables

\* Wherever a run goes on to report.
LEMMA Reporting ==
  ASSUME NEW w \in Workers, run[w] \in Run, NEW b \in BOOLEAN, RunReports(w, b)
  PROVE  \E k \in Run : run' = [run EXCEPT ![w] = k] /\ k.v = run[w].v /\ k.pc = "report"
  <1> DEFINE k == [run[w] EXCEPT !.pc = "report", !.again = b]
  <1>1. k \in Run /\ k.v = run[w].v /\ k.pc = "report"
    BY DEF Run
  <1>2. run' = [run EXCEPT ![w] = k]
    BY DEF RunReports, RunGoes
  <1> HIDE DEF k
  <1> QED BY <1>1, <1>2

LEMMA Raising ==
  ASSUME NEW w \in Workers, run[w] \in Run, RunRaises(w)
  PROVE  \E k \in Run : run' = [run EXCEPT ![w] = k] /\ k.v = run[w].v /\ k.pc = "report"
  <1>1. (~run[w].last) \in BOOLEAN
    BY Zenon
  <1> QED BY <1>1, Reporting DEF RunRaises

\* A run that reports and leaves everything else as it is.
LEMMA ReportsOnly ==
  ASSUME PublicationInv, Guarded, NEW w \in Workers, ~Held(Admins), run[w].pc # "idle",
         NEW k \in Run, run' = [run EXCEPT ![w] = k], k.v = run[w].v, k.pc = "report",
         UNCHANGED <<tables, docs, job, admin, sweep, newest>>, faults' \in 0..MaxFaults
  PROVE  PublicationInv'
  BY RunGoesOn DEF Building

\* A run that ends its attempt as failed and reports.
LEMMA RunFails ==
  ASSUME PublicationInv, Guarded, NEW w \in Workers, ~Held(Admins), run[w].pc # "idle",
         NEW f \in Failed, attempt[run[w].v].status = "in_progress",
         f = "index_failed" => attempt[run[w].v].phase = "build",
         f = "publication_failed" => attempt[run[w].v].phase = "swap",
         attempt' = [attempt EXCEPT ![run[w].v].status = f],
         status' = [status EXCEPT ![run[w].v] = f],
         NEW k \in Run, run' = [run EXCEPT ![w] = k], k.v = run[w].v, k.pc = "report",
         UNCHANGED <<rev, pointer, retiring, docs, job, admin, sweep, faults, newest>>
  PROVE  PublicationInv'
  <1>0. PICK v \in Versions : v = run[w].v
    BY DEF PublicationInv, RunSound
  <1>1. attempt[v] \in Attempt /\ Agree(v)
    BY DEF PublicationInv, TypeOK
  <1>2. attempt' = [attempt EXCEPT ![v] = [attempt[v] EXCEPT !.status = f]]
    BY <1>0 DEF PublicationInv, TypeOK
  <1> DEFINE a == [attempt[v] EXCEPT !.status = f]
  <1>3. a \in Attempt /\ a.status = f /\ a.phase = attempt[v].phase /\ a.ref = attempt[v].ref
    BY <1>1 DEF Attempt
  <1>4. attempt' = [attempt EXCEPT ![v] = a] /\ status' = [status EXCEPT ![v] = f]
    BY <1>0, <1>2
  <1>5. status[v] = "indexing"
    BY <1>0, <1>1 DEF Agree, Failed
  <1> HIDE DEF a
  <1>6. TypeOK'
    <2>1. attempt \in [Versions -> Attempt] /\ run \in [Workers -> Run]
      BY DEF PublicationInv, TypeOK
    <2>2. attempt' \in [Versions -> Attempt]
      BY <1>3, <1>4, <2>1
    <2>3. run' \in [Workers -> Run]
      BY <2>1
    <2> QED BY <1>4, <2>2, <2>3 DEF PublicationInv, TypeOK
  <1>7. /\ attempt'[v] = a /\ status'[v] = f
        /\ \A u \in Versions \ {v} : attempt'[u] = attempt[u] /\ status'[u] = status[u]
    BY <1>1, <1>4 DEF PublicationInv, TypeOK
  <1>8. Agree(v)'
    BY <1>0, <1>1, <1>3, <1>7 DEF Agree, Failed
  <1>9. TablesInv'
    <2>1. /\ f \notin Running /\ f \notin {"none", "published", "retired", "in_progress"}
          /\ Exists' <=> Exists
          /\ JobsStay
      BY DEF Running, Failed, Exists, JobsStay
    <2>2. /\ UNCHANGED <<pointer, retiring, docs, newest>>
          /\ \A u \in Versions \ {v} : sweep'.at # u => sweep.at # u
      OBVIOUS
    <2>3. status[v] \notin {"none", "published", "retired"}
      BY <1>5
    <2>4. /\ status'[v] \notin {"none", "published", "retired"}
          /\ attempt'[v].status \notin Running /\ attempt'[v].status # "in_progress"
      BY <1>3, <1>7, <2>1
    <2> QED BY <1>1, <1>6, <1>7, <1>8, <2>1, <2>2, <2>3, <2>4, OneRowChanges
  <1> QED
    BY <1>0, <1>1, <1>3, <1>5, <1>7, <1>9, RunChanges DEF Building

LEMMA TransientFailureStep ==
  ASSUME PublicationInv, Guarded, NEW w \in Workers, ~Held(Admins), TransientFailure(w)
  PROVE  PublicationInv'
  <1> DEFINE v == run[w].v
  <1>1. /\ run[w] \in Run /\ run[w].pc = "transient" /\ v \in Versions
        /\ UNCHANGED <<rev, pointer, retiring, docs, job, admin, sweep, faults, newest>>
        /\ faults \in 0..MaxFaults
    BY DEF TransientFailure, RunAt, PublicationInv, TypeOK, RunSound
  <1>2. PICK k \in Run : run' = [run EXCEPT ![w] = k] /\ k.v = v /\ k.pc = "report"
    BY <1>1, Reporting, Raising DEF TransientFailure
  <1>3. CASE UNCHANGED <<attempt, status>>
    BY <1>1, <1>2, <1>3, ReportsOnly DEF tables
  <1>4. CASE /\ attempt[v].phase = "build" /\ attempt[v].status = "in_progress"
             /\ attempt' = [attempt EXCEPT ![v].status = "index_failed"]
             /\ status' = [status EXCEPT ![v] = "index_failed"]
    BY <1>1, <1>2, <1>4, RunFails DEF Failed
  <1> QED BY <1>3, <1>4 DEF TransientFailure

LEMMA FailSwapStep ==
  ASSUME PublicationInv, Guarded, NEW w \in Workers, ~Held(Admins), FailSwap(w)
  PROVE  PublicationInv'
  <1> DEFINE v == run[w].v
  <1>1. /\ run[w] \in Run /\ run[w].pc = "fail_swap" /\ v \in Versions
        /\ UNCHANGED <<rev, pointer, retiring, docs, job, admin, sweep, faults, newest>>
        /\ faults \in 0..MaxFaults
    BY DEF FailSwap, RunAt, PublicationInv, TypeOK, RunSound
  <1>2. PICK k \in Run : run' = [run EXCEPT ![w] = k] /\ k.v = v /\ k.pc = "report"
    BY <1>1, Reporting DEF FailSwap
  <1>3. CASE ~Swapping(v)
    BY <1>1, <1>2, <1>3, ReportsOnly DEF FailSwap, tables
  <1>4. CASE Swapping(v)
    BY <1>1, <1>2, <1>4, RunFails DEF FailSwap, Swapping, Failed
  <1> QED BY <1>3, <1>4

LEMMA RecordArtifactStep ==
  ASSUME PublicationInv, Guarded, NEW w \in Workers, ~Held(Admins), RecordArtifact(w)
  PROVE  PublicationInv'
  <1>0. PICK v \in Versions : v = run[w].v
    BY DEF RecordArtifact, RunAt, PublicationInv, RunSound
  <1>1. /\ run[w] \in Run /\ run[w].pc = "record" /\ attempt[v] \in Attempt /\ Agree(v)
        /\ job[v].status # "absent" /\ (Exists => docs[v] # 0)
        /\ UNCHANGED <<rev, status, pointer, retiring, docs, job, admin, sweep, faults, newest>>
        /\ faults \in 0..MaxFaults /\ run \in [Workers -> Run] /\ attempt \in [Versions -> Attempt]
    BY <1>0 DEF RecordArtifact, RunAt, PublicationInv, TypeOK, RunSound
  <1>2. CASE ~(attempt[v].phase = "build" /\ attempt[v].status = "in_progress")
    <2>1. RunRaises(w) /\ UNCHANGED attempt
      BY <1>0, <1>2 DEF RecordArtifact
    <2>2. PICK k \in Run : run' = [run EXCEPT ![w] = k] /\ k.v = run[w].v /\ k.pc = "report"
      BY <1>1, <2>1, Raising
    <2> QED BY <1>1, <2>1, <2>2, ReportsOnly DEF tables
  <1>3. CASE attempt[v].phase = "build" /\ attempt[v].status = "in_progress"
    <2> DEFINE a == [attempt[v] EXCEPT !.phase = "swap", !.ref = TRUE, !.made = run[w].content]
               k == [run[w] EXCEPT !.pc = "read", !.stage = 1]
    <2>1. a \in Attempt /\ a.phase = "swap" /\ a.status = "in_progress"
      BY <1>1, <1>3 DEF Attempt, Run, Phases
    <2>2. k \in Run /\ k.v = v /\ k.pc = "read"
      BY <1>0, <1>1, VersionNumbers DEF Run
    <2>3. attempt' = [attempt EXCEPT ![v] = a]
      BY <1>0, <1>1, <1>3 DEF RecordArtifact
    <2>4. run' = [run EXCEPT ![w] = k]
      BY <1>0, <1>3 DEF RecordArtifact, RunGoes
    <2> HIDE DEF a, k
    <2>5. attempt' \in [Versions -> Attempt] /\ run' \in [Workers -> Run]
      BY <1>1, <2>1, <2>2, <2>3, <2>4
    <2>6. TypeOK'
      BY <1>1, <2>5 DEF PublicationInv, TypeOK
    <2>7. attempt'[v] = a /\ \A u \in Versions \ {v} : attempt'[u] = attempt[u]
      BY <1>1, <2>3
    <2>8. status[v] = "indexing" /\ Exists
      BY <1>1, <1>3 DEF Agree, PublicationInv, Numbered
    <2>9. Agree(v)'
      BY <1>1, <2>1, <2>7, <2>8 DEF Agree
    <2>10. /\ v > newest
           /\ \A u \in Versions \ {v} : attempt[u].status \notin Running
      BY <1>3 DEF PublicationInv, NewestSound, OneRuns, Running
    <2>11. /\ Exists' <=> Exists
           /\ JobsStay
           /\ \A u \in Versions \ {v} : sweep'.at # u => sweep.at # u
           /\ \A u \in Versions \ {v} : status'[u] = status[u]
           /\ status'[v] \notin {"none", "published", "retired"}
           /\ status[v] \notin {"none", "published", "retired"}
      BY <1>1, <2>8 DEF Exists, JobsStay
    <2>12. TablesInv'
      BY <1>1, <2>6, <2>7, <2>9, <2>10, <2>11, OneRowChanges
    <2> QED BY <1>0, <1>1, <2>2, <2>4, <2>7, <2>12, RunChanges DEF Building
  <1> QED BY <1>2, <1>3

LEMMA CommitStep ==
  ASSUME PublicationInv, Guarded, NEW w \in Workers, ~Held(Admins), RunAt(w, "swap"),
         Swapping(run[w].v), CommitPublication(w), UNCHANGED <<docs, job, admin, sweep>>
  PROVE  PublicationInv'
  <1>0. PICK v \in Versions : v = run[w].v
    BY DEF RunAt, PublicationInv, RunSound
  <1> DEFINE k == [run[w] EXCEPT !.pc = "read", !.stage = 2]
             a == [attempt[v] EXCEPT
                     !.phase = IF pointer = 0 THEN "complete" ELSE "cleanup",
                     !.status = IF pointer = 0 THEN "published" ELSE "cleanup_pending", !.old = pointer]
  <1>1. /\ run[w] \in Run /\ run[w].pc = "swap" /\ attempt[v] \in Attempt
        /\ attempt[v].phase = "swap" /\ attempt[v].status = "in_progress"
        /\ run \in [Workers -> Run] /\ attempt \in [Versions -> Attempt] /\ pointer \in 0..MaxVersion
    BY <1>0 DEF RunAt, Swapping, PublicationInv, TypeOK
  <1>2. /\ status[v] = "indexing" /\ docs[v] # 0 /\ job[v].status # "absent" /\ v > newest
        /\ \A u \in Versions \ {v} : attempt[u].status \notin Running
    BY <1>1 DEF PublicationInv, Agree, NewestSound, OneRuns, Running
  <1>3. pointer # v
    BY <1>2 DEF PublicationInv, PointerSound
  <1>4. k \in Run /\ k.v = v /\ k.pc = "read"
    BY <1>0, <1>1, VersionNumbers DEF Run
  <1>5. /\ a \in Attempt /\ a.old = pointer
        /\ pointer = 0 => a.phase = "complete" /\ a.status = "published"
        /\ pointer # 0 => a.phase = "cleanup" /\ a.status = "cleanup_pending"
    BY <1>1 DEF Attempt, Phases, Running
  <1>6. /\ attempt' = [attempt EXCEPT ![v] = a] /\ run' = [run EXCEPT ![w] = k]
        /\ pointer' = v /\ newest' = v
        /\ UNCHANGED <<rev, retiring, faults, docs, job, admin, sweep>>
    BY <1>0, <1>1, <1>2 DEF CommitPublication, RunGoes
  <1> HIDE DEF a, k
  <1>7. /\ attempt'[v] = a /\ status'[v] = "published"
        /\ \A u \in Versions \ {v} :
             attempt'[u] = attempt[u] /\ status'[u] = IF u = pointer THEN "retired" ELSE status[u]
    BY <1>0, <1>1, <1>3, <1>6, VersionNumbers DEF CommitPublication, Superseded
  <1>8. TypeOK'
    <2>1. attempt' \in [Versions -> Attempt] /\ run' \in [Workers -> Run]
      BY <1>1, <1>4, <1>5, <1>6
    <2>2. status' \in [Versions -> Failed \cup {"none", "draft", "indexing", "published", "retired"}]
      BY <1>0 DEF CommitPublication, PublicationInv, TypeOK
    <2> QED BY <1>6, <2>1, <2>2, VersionNumbers DEF PublicationInv, TypeOK
  <1>9. ASSUME NEW u \in Versions PROVE Agree(u)'
    <2>1. CASE u = v
      BY <1>2, <1>3, <1>5, <1>6, <1>7, <2>1, VersionNumbers, <1>1 DEF Agree, Versions
    <2>2. CASE u # v
      <3>1. Agree(u) /\ attempt[u].status \notin Running /\ (u = pointer => status[u] = "published")
        BY <1>2, <2>2 DEF PublicationInv, PointerSound
      <3> QED BY <1>6, <1>7, <2>2, <3>1 DEF Agree, Running
    <2> QED BY <2>1, <2>2
  <1>10. \A u \in Versions : /\ status[u] = "retired" => status'[u] = "retired"
                             /\ status'[u] # "none" <=> status[u] # "none"
    BY <1>2, <1>7 DEF PublicationInv, PointerSound
  <1>11. Numbered'
    <2>1. Exists' /\ Exists
      BY <1>2, <1>6 DEF PublicationInv, Numbered, Exists
    <2> QED BY <1>10, <2>1 DEF PublicationInv, Numbered
  <1>12. PointerSound'
    <2>1. \A u \in Versions : status[u] = "published" <=> pointer = u
      BY DEF PublicationInv, PointerSound
    <2>2. \A u \in Versions : status'[u] = "published" <=> pointer' = u
      BY <1>6, <1>7, <2>1
    <2> QED BY <1>2, <1>6, <1>10, <2>2 DEF PublicationInv, PointerSound
  <1>13. NewestSound' /\ OneRuns'
    BY <1>2, <1>5, <1>6, <1>7 DEF NewestSound, OneRuns, Running
  <1>14. TablesInv'
    BY <1>8, <1>9, <1>11, <1>12, <1>13 DEF TablesInv
  <1> QED BY <1>0, <1>1, <1>4, <1>6, <1>7, <1>10, <1>14, RunChanges DEF Building

LEMMA SwapStep ==
  ASSUME PublicationInv, Guarded, NEW w \in Workers, ~Held(Admins), Swap(w)
  PROVE  PublicationInv'
  <1>1. CASE Swapping(run[w].v) /\ CommitPublication(w)
    BY <1>1, CommitStep DEF Swap
  <1>2. CASE faults' \in 0..MaxFaults /\ RunStage(w, "fail_swap") /\ UNCHANGED <<tables, newest>>
    <2> DEFINE k == [run[w] EXCEPT !.pc = "fail_swap"]
    <2>1. k \in Run /\ k.v = run[w].v /\ k.pc = "fail_swap" /\ run[w].pc = "swap"
      BY DEF Swap, RunAt, PublicationInv, TypeOK, Run
    <2>2. run' = [run EXCEPT ![w] = k] /\ UNCHANGED <<docs, job, admin, sweep>>
      BY <1>2 DEF RunStage, RunGoes, Swap
    <2> HIDE DEF k
    <2> QED BY <1>2, <2>1, <2>2, RunGoesOn DEF Building
  <1> QED BY <1>1, <1>2, FaultType DEF Swap, PublicationInv, TypeOK

LEMMA CleanupStep ==
  ASSUME PublicationInv, Guarded, NEW w \in Workers, ~Held(Admins), Cleanup(w)
  PROVE  PublicationInv'
  <1>1. /\ run[w] \in Run /\ run[w].pc = "cleanup"
        /\ Exists => run[w].content \in Versions /\ status[run[w].content] = "retired"
        /\ docs \in [Versions -> 0..MaxVersion] /\ run \in [Workers -> Run]
        /\ UNCHANGED <<tables, job, admin, sweep, newest>>
    BY DEF Cleanup, RunAt, PublicationInv, TypeOK, RunSound
  <1>2. CASE Fault /\ RunReports(w, TRUE) /\ UNCHANGED docs
    <2>1. PICK k \in Run : run' = [run EXCEPT ![w] = k] /\ k.v = run[w].v /\ k.pc = "report"
      BY <1>1, <1>2, Reporting
    <2> QED BY <1>1, <1>2, <2>1, FaultType, ReportsOnly
  <1>3. CASE docs' = [docs EXCEPT ![run[w].content] = 0] /\ RunStage(w, "complete") /\ UNCHANGED faults
    <2> DEFINE k == [run[w] EXCEPT !.pc = "complete"]
    <2>1. k \in Run /\ k.v = run[w].v /\ k.pc = "complete"
      BY <1>1 DEF Run
    <2>2. run' = [run EXCEPT ![w] = k]
      BY <1>3 DEF RunStage, RunGoes
    <2> HIDE DEF k
    <2>3. /\ docs' \in [Versions -> 0..MaxVersion] /\ run' \in [Workers -> Run]
          /\ \A u \in Versions : Exists /\ status[u] # "retired" => docs'[u] = docs[u]
      BY <1>1, <1>3, <2>1, <2>2, VersionNumbers
    <2>4. TypeOK'
      BY <1>1, <1>3, <2>3 DEF PublicationInv, TypeOK, tables
    <2>5. ASSUME NEW u \in Versions PROVE Agree(u)'
      BY <1>1, <2>3 DEF PublicationInv, Agree, Numbered, tables
    <2>6. Numbered' /\ PointerSound' /\ NewestSound' /\ OneRuns'
      BY <1>1, <2>3
      DEF PublicationInv, TypeOK, Numbered, PointerSound, NewestSound, OneRuns, tables, Exists, Versions
    <2>7. TablesInv'
      BY <2>4, <2>5, <2>6 DEF TablesInv
    <2>8. \A u \in Versions : Exists /\ attempt[u].phase = "build" => docs'[u] = docs[u]
      BY <2>3 DEF PublicationInv, Agree
    <2> QED BY <1>1, <2>1, <2>2, <2>7, <2>8, RunChanges DEF tables, Building
  <1> QED BY <1>2, <1>3 DEF Cleanup

LEMMA CompleteCleanupStep ==
  ASSUME PublicationInv, Guarded, NEW w \in Workers, ~Held(Admins), CompleteCleanup(w)
  PROVE  PublicationInv'
  <1>0. PICK v \in Versions : v = run[w].v
    BY DEF CompleteCleanup, RunAt, PublicationInv, RunSound
  <1>1. /\ run[w] \in Run /\ run[w].pc = "complete" /\ attempt[v] \in Attempt /\ Agree(v)
        /\ UNCHANGED <<rev, status, pointer, retiring, docs, job, admin, sweep, faults, newest>>
        /\ faults \in 0..MaxFaults /\ run \in [Workers -> Run] /\ attempt \in [Versions -> Attempt]
    BY <1>0 DEF CompleteCleanup, RunAt, PublicationInv, TypeOK
  <1>2. PICK k \in Run : run' = [run EXCEPT ![w] = k] /\ k.v = run[w].v /\ k.pc = "report"
    BY <1>1, Raising, Reporting DEF CompleteCleanup
  <1>3. CASE UNCHANGED attempt
    BY <1>1, <1>2, <1>3, ReportsOnly DEF tables
  <1>4. CASE /\ attempt[v].phase = "cleanup" /\ attempt[v].status = "cleanup_pending"
             /\ attempt' = [attempt EXCEPT ![v].phase = "complete", ![v].status = "published"]
    <2> DEFINE a == [attempt[v] EXCEPT !.phase = "complete", !.status = "published"]
    <2>1. a \in Attempt /\ a.phase = "complete" /\ a.status = "published"
      BY <1>1 DEF Attempt, Phases
    <2>2. attempt' = [attempt EXCEPT ![v] = a]
      BY <1>1, <1>4
    <2> HIDE DEF a
    <2>3. attempt' \in [Versions -> Attempt] /\ run' \in [Workers -> Run]
      BY <1>1, <1>2, <2>1, <2>2
    <2>4. TypeOK'
      BY <1>1, <2>3 DEF PublicationInv, TypeOK
    <2>5. attempt'[v] = a /\ \A u \in Versions \ {v} : attempt'[u] = attempt[u]
      BY <1>1, <2>2
    <2>6. \A u \in Versions : Agree(u)'
      BY <1>1, <1>4, <2>1, <2>5 DEF PublicationInv, Agree
    <2>7. Numbered' /\ PointerSound' /\ NewestSound' /\ OneRuns'
      BY <1>1, <2>1, <2>5
      DEF PublicationInv, Numbered, Exists, PointerSound, NewestSound, OneRuns, Running
    <2>8. TablesInv'
      BY <2>4, <2>6, <2>7 DEF TablesInv
    <2> QED BY <1>0, <1>1, <1>2, <2>5, <2>8, RunChanges DEF Building
  <1> QED BY <1>0, <1>3, <1>4 DEF CompleteCleanup

LEMMA WorkerStep ==
  ASSUME PublicationInv, Guarded, NEW w \in Workers, WorkerNext(w)
  PROVE  PublicationInv'
  BY ReadStep, ReadItemStep, BuildStep, TransientFailureStep, RecordArtifactStep, SwapStep,
     FailSwapStep, CleanupStep, CompleteCleanupStep, ReportStep, WorkerDiesStep, DeliverStep
  DEF WorkerNext, RunStep

-----------------------------------------------------------------------------
(* Steps of a request.                                                     *)

\* Nobody else is in a window that the code leaves open, and no sweep is under way.
Free(r) == sweep = NoSweep /\ \A q \in Admins \ {r} : ~Unguarded(q)

LEMMA HeldIsFree ==
  ASSUME Guarded, NEW r \in Admins, ~Held(Admins \ {r})
  PROVE  Free(r)
  BY DEF Guarded, Held, Free

\* A request goes on with k, which says what it has to.
LEMMA RequestChanges ==
  ASSUME PublicationInv, NEW r \in Admins, Free(r), NEW k \in Admin,
         admin' = [admin EXCEPT ![r] = k], UNCHANGED <<run, sweep>>, TablesInv', JobsStay,
         k.pc \in {"retry", "resume"} => /\ Exists' /\ k.v \in Versions /\ k.v = Latest'
                                         /\ status'[k.v] \in Failed,
         k.pc = "resume" /\ k.reuse =>
           attempt'[k.v].ref /\ attempt'[k.v].status = "publication_failed",
         k.pc = "enqueue" => k.v \in Versions,
         k.pc = "fail_enqueue" => k.v \in Versions /\ job'[k.v].status = "absent",
         k.pc \in {"clean", "complete"} =>
           k.v \in Versions /\ (Exists' => status'[k.v] = "retired"),
         Exists' => Exists,
         \A v \in Versions : attempt[v].phase = "build" => attempt'[v].phase = "build",
         \A v \in Versions : Exists' /\ attempt[v].phase = "build" /\ docs[v] # 0 => docs'[v] # 0,
         \A v \in Versions : Exists' /\ status[v] = "retired" => status'[v] = "retired"
  PROVE  PublicationInv'
  <1>1. \A q \in Admins \ {r} : RequestSound(q)' /\ ~Unguarded(q)'
    BY OthersKept DEF Free
  <1>2. admin'[r] = k
    BY DEF PublicationInv, TypeOK
  <1>3. RequestSound(r)'
    BY <1>1, <1>2 DEF RequestSound, Free
  <1>4. \A w \in Workers : RunSound(w)'
    BY RunsKept
  <1>5. SweepSound'
    BY NoSweepSound DEF Free
  <1> QED BY <1>1, <1>3, <1>4, <1>5 DEF PublicationInv, TablesInv

\* The same when it changes nothing but its own place.
LEMMA RequestOnly ==
  ASSUME PublicationInv, NEW r \in Admins, Free(r), NEW k \in Admin,
         admin' = [admin EXCEPT ![r] = k],
         k.pc \in {"retry", "resume"} => /\ Exists /\ k.v \in Versions /\ k.v = Latest
                                         /\ status[k.v] \in Failed,
         k.pc = "resume" /\ k.reuse =>
           attempt[k.v].ref /\ attempt[k.v].status = "publication_failed",
         k.pc = "enqueue" => k.v \in Versions,
         k.pc = "fail_enqueue" => k.v \in Versions /\ job'[k.v].status = "absent",
         k.pc \in {"clean", "complete"} =>
           k.v \in Versions /\ (Exists => status[k.v] = "retired"),
         UNCHANGED <<tables, docs, run, sweep, newest>>, JobsStay,
         job' \in [Versions -> [status : {"absent", "open", "settled"}, claims : Nat]],
         faults' \in 0..MaxFaults
  PROVE  PublicationInv'
  <1>1. TypeOK'
    BY DEF PublicationInv, TypeOK, tables
  <1>2. TablesInv'
    BY <1>1, TablesKept
  <1>3. Latest' = Latest /\ (Exists' <=> Exists)
    BY DEF Latest, Exists, tables
  <1>4. UNCHANGED <<run, sweep>> /\ status' = status /\ attempt' = attempt /\ docs' = docs
    BY DEF tables
  <1> QED BY <1>2, <1>3, <1>4, RequestChanges

\* One that holds nothing.
LEMMA RequestEnds ==
  ASSUME PublicationInv, NEW r \in Admins, Free(r), NEW k \in Admin,
         admin' = [admin EXCEPT ![r] = k], k.pc \in {"idle", "retire", "purge"},
         UNCHANGED <<tables, docs, run, sweep, newest>>, JobsStay,
         job' \in [Versions -> [status : {"absent", "open", "settled"}, claims : Nat]],
         faults' \in 0..MaxFaults
  PROVE  PublicationInv'
  BY RequestOnly

\* What a request finds that does not write a table.
LEMMA Unwritten ==
  ASSUME PublicationInv, UNCHANGED job
  PROVE  /\ JobsStay
         /\ job' \in [Versions -> [status : {"absent", "open", "settled"}, claims : Nat]]
         /\ faults \in 0..MaxFaults
  BY DEF PublicationInv, TypeOK, JobsStay

LEMMA RequestIsOver ==
  ASSUME PublicationInv, NEW r \in Admins, Free(r), AdminEnds(r),
         UNCHANGED <<tables, docs, run, sweep, newest>>, JobsStay,
         job' \in [Versions -> [status : {"absent", "open", "settled"}, claims : Nat]],
         faults' \in 0..MaxFaults
  PROVE  PublicationInv'
  <1>1. admin' = [admin EXCEPT ![r] = NoRequest] /\ NoRequest \in Admin /\ NoRequest.pc = "idle"
    BY Blanks DEF AdminEnds, AdminGoes
  <1> QED BY <1>1, RequestEnds

LEMMA RetryReadStep ==
  ASSUME PublicationInv, NEW r \in Admins, Free(r), RetryRead(r)
  PROVE  PublicationInv'
  <1> DEFINE k == [admin[r] EXCEPT !.pc = "resume", !.reuse = Reusable(admin[r].v)]
  <1>1. /\ admin[r] \in Admin /\ admin[r].pc = "retry" /\ RequestSound(r)
        /\ UNCHANGED <<tables, docs, job, run, sweep, faults, newest>>
    BY DEF RetryRead, AdminAt, PublicationInv, TypeOK
  <1>2. CASE attempt[admin[r].v].status \in Failed
    <2>1. Reusable(admin[r].v) \in BOOLEAN
      <3>1. attempt[admin[r].v] \in Attempt
        BY <1>1 DEF RequestSound, PublicationInv, TypeOK
      <3> QED BY <3>1 DEF Reusable, Attempt
    <2>2. k \in Admin /\ k.pc = "resume" /\ k.v = admin[r].v /\ k.reuse = Reusable(admin[r].v)
      BY <1>1, <2>1 DEF Admin
    <2>3. admin' = [admin EXCEPT ![r] = k]
      BY <1>2 DEF RetryRead, AdminGoes
    <2> HIDE DEF k
    <2> QED BY <1>1, <2>2, <2>3, Unwritten, RequestOnly DEF RequestSound, Reusable
  <1>3. CASE attempt[admin[r].v].status \notin Failed
    <2>1. AdminEnds(r)
      BY <1>1, <1>3 DEF RetryRead
    <2> QED BY <1>1, <2>1, Unwritten, RequestIsOver
  <1> QED BY <1>2, <1>3

\* A request that is to enqueue version v.
LEMMA ToEnqueue ==
  ASSUME NEW v \in Versions
  PROVE  LET k == [NoRequest EXCEPT !.pc = "enqueue", !.v = v] IN
         k \in Admin /\ k.pc = "enqueue" /\ k.v = v
  BY Blanks, VersionNumbers DEF Admin

LEMMA EnsureEnqueuedStep ==
  ASSUME PublicationInv, NEW r \in Admins, Free(r), NEW v \in Versions, EnsureEnqueued(r, v)
  PROVE  PublicationInv'
  BY ToEnqueue, Unwritten, RequestOnly DEF EnsureEnqueued, AdminGoes

LEMMA InsertJobType ==
  ASSUME PublicationInv, NEW v \in Versions, InsertJob(v)
  PROVE  JobsStay /\ job' \in [Versions -> [status : {"absent", "open", "settled"}, claims : Nat]]
  BY DEF InsertJob, PublicationInv, TypeOK, JobsStay

LEMMA EnqueueStep ==
  ASSUME PublicationInv, NEW r \in Admins, Free(r), Enqueue(r)
  PROVE  PublicationInv'
  <1>1. admin[r].v \in Versions
    BY DEF Enqueue, AdminAt, PublicationInv, RequestSound
  <1> QED
    BY <1>1, InsertJobType, RequestIsOver DEF Enqueue, PublicationInv, TypeOK

LEMMA EnqueueRaisesStep ==
  ASSUME PublicationInv, Guarded, NEW r \in Admins, Free(r), EnqueueRaises(r)
  PROVE  PublicationInv'
  <1> DEFINE k == [admin[r] EXCEPT !.pc = "fail_enqueue"]
  <1>1. /\ admin[r].v \in Versions /\ job[admin[r].v].status = "absent" /\ UNCHANGED job
        /\ UNCHANGED <<tables, docs, run, sweep, newest>>
        /\ admin[r] \in Admin
    BY DEF EnqueueRaises, AdminAt, Guarded, PublicationInv, TypeOK, RequestSound
  <1>2. k \in Admin /\ k.pc = "fail_enqueue" /\ k.v = admin[r].v
    BY <1>1 DEF Admin
  <1>3. admin' = [admin EXCEPT ![r] = k] /\ faults' \in 0..MaxFaults
    BY FaultType DEF EnqueueRaises, AdminGoes
  <1> HIDE DEF k
  <1> QED BY <1>1, <1>2, <1>3, Unwritten, RequestOnly

LEMMA RequestDiesStep ==
  ASSUME PublicationInv, NEW r \in Admins, Free(r), RequestDies(r)
  PROVE  PublicationInv'
  BY FaultType, Unwritten, RequestIsOver DEF RequestDies

\* A request to retire or delete remembers the revision it saw.
LEMMA ToRetire ==
  ASSUME PublicationInv, NEW pc \in {"retire", "purge"}
  PROVE  /\ LET k == [NoRequest EXCEPT !.pc = pc, !.rev = rev, !.purge = TRUE] IN
            k \in Admin /\ k.pc = pc
         /\ LET k == [NoRequest EXCEPT !.pc = pc, !.rev = rev] IN
            k \in Admin /\ k.pc = pc
  BY Blanks DEF Admin, PublicationInv, TypeOK

LEMMA DeleteStep ==
  ASSUME PublicationInv, NEW r \in Admins, Free(r), Delete(r)
  PROVE  PublicationInv'
  <1>1. PICK pc \in {"retire", "purge"} :
          admin' = [admin EXCEPT ![r] = [NoRequest EXCEPT !.pc = pc, !.rev = rev, !.purge = TRUE]]
    BY DEF Delete, AdminGoes
  <1>2. PICK k \in Admin : k.pc = pc /\ admin' = [admin EXCEPT ![r] = k]
    BY <1>1, ToRetire
  <1>3. UNCHANGED <<tables, docs, job, run, sweep, faults, newest>>
    BY DEF Delete
  <1> QED BY <1>2, <1>3, Unwritten, RequestEnds

LEMMA RetireStep ==
  ASSUME PublicationInv, NEW r \in Admins, Free(r), Retire(r)
  PROVE  PublicationInv'
  <1>1. PICK k \in Admin : k.pc = "retire" /\ admin' = [admin EXCEPT ![r] = k]
    BY ToRetire DEF Retire, AdminGoes
  <1>2. UNCHANGED <<tables, docs, job, run, sweep, faults, newest>>
    BY DEF Retire
  <1> QED BY <1>1, <1>2, Unwritten, RequestEnds

LEMMA ResumeCleanupStep ==
  ASSUME PublicationInv, NEW r \in Admins, Free(r), NEW v \in Versions,
         ResumeRetirementCleanup(r, v)
  PROVE  PublicationInv'
  <1> DEFINE k == [NoRequest EXCEPT !.pc = "clean", !.v = v]
  <1>1. k \in Admin /\ k.pc = "clean" /\ k.v = v
    BY Blanks, VersionNumbers DEF Admin
  <1>2. admin' = [admin EXCEPT ![r] = k]
    BY DEF ResumeRetirementCleanup, AdminGoes
  <1>3. status[v] = "retired"
    BY DEF ResumeRetirementCleanup, PublicationInv, PointerSound
  <1> HIDE DEF k
  <1> QED BY <1>1, <1>2, <1>3, Unwritten, RequestOnly DEF ResumeRetirementCleanup

\* Nothing that was ever published is as new as a latest version that is not.
LEMMA LatestIsNewer ==
  ASSUME PublicationInv, Exists, status[Latest] \notin {"published", "retired"}
  PROVE  Latest \in Versions /\ Latest > newest
  <1>1. Latest \in Versions /\ \A v \in Versions : status[v] # "none" <=> v <= Latest
    BY LatestIs DEF PublicationInv
  <1>2. newest = 0 \/ newest \in Versions
    BY DEF PublicationInv, TypeOK, Versions
  <1> QED
    BY <1>1, <1>2, VersionNumbers DEF PublicationInv, NewestSound, TypeOK, Versions

LEMMA RequestPublicationStep ==
  ASSUME PublicationInv, OnSqlite, Whole, NEW r \in Admins, Free(r), RequestPublication(r)
  PROVE  PublicationInv'
  <1>a. ~AdminAt(r, "batch")
    BY DEF Whole, AdminAt
  <1>0. PICK v \in Versions : v = Latest
    BY <1>a, LatestIs DEF RequestPublication, PublicationInv
  <1>1. /\ Exists /\ BatchAccepts(v) /\ Agree(v)
        /\ UNCHANGED <<pointer, retiring, docs, job, run, sweep, faults, newest>>
        /\ faults \in 0..MaxFaults /\ rev \in Nat
        /\ attempt \in [Versions -> Attempt] /\ admin \in [Admins -> Admin]
    BY <1>0, <1>a DEF RequestPublication, PublicationInv, TypeOK
  <1>2. CASE status[v] # "draft"
    <2> DEFINE k == [NoRequest EXCEPT !.pc = "retry", !.v = v]
    <2>1. k \in Admin /\ k.pc = "retry" /\ k.v = v
      BY Blanks, VersionNumbers DEF Admin
    <2>2. admin' = [admin EXCEPT ![r] = k] /\ UNCHANGED <<status, rev, attempt>>
      <3>1. [NoRequest EXCEPT !.v = v, !.pc = "retry"] = k
        OBVIOUS
      <3> HIDE DEF k
      <3> QED BY <1>0, <1>a, <1>2, <3>1 DEF RequestPublication, AdminGoes
    <2>3. status[v] \in Failed
      BY <1>1, <1>2 DEF BatchAccepts
    <2> HIDE DEF k
    <2> QED BY <1>0, <1>1, <2>1, <2>2, <2>3, Unwritten, RequestOnly DEF tables
  <1>3. CASE status[v] = "draft"
    <2> DEFINE k == [NoRequest EXCEPT !.pc = "enqueue", !.v = v]
               a == [NoAttempt EXCEPT !.status = "in_progress"]
    <2>1. k \in Admin /\ k.pc = "enqueue" /\ k.v = v
      BY ToEnqueue
    <2>2. a \in Attempt /\ a.status = "in_progress" /\ a.phase = "build" /\ ~a.ref
      BY Blanks DEF Attempt, Running
    <2>3. /\ admin' = [admin EXCEPT ![r] = k] /\ attempt' = [attempt EXCEPT ![v] = a]
          /\ status' = [status EXCEPT ![v] = "indexing"] /\ rev' = rev + 1
      BY <1>0, <1>a, <1>3, OnSqlite DEF RequestPublication, BatchWrites, AdminGoes
    <2> HIDE DEF k, a
    <2>4. TypeOK'
      <3>1. attempt' \in [Versions -> Attempt] /\ admin' \in [Admins -> Admin] /\ rev' \in Nat
        BY <1>1, <2>1, <2>2, <2>3
      <3> QED BY <1>1, <2>3, <3>1 DEF PublicationInv, TypeOK
    <2>5. /\ attempt'[v] = a /\ status'[v] = "indexing"
          /\ \A u \in Versions \ {v} : attempt'[u] = attempt[u] /\ status'[u] = status[u]
      BY <1>1, <2>3 DEF PublicationInv, TypeOK
    <2>6. Agree(v)'
      BY <2>2, <2>5 DEF Agree
    <2>7. v > newest
      BY <1>0, <1>1, <1>3, LatestIsNewer
    <2>8. \A u \in Versions \ {v} : attempt[u].status \notin Running
      BY <1>1 DEF BatchAccepts, ActiveAttempt
    <2>9. /\ Exists' <=> Exists
          /\ JobsStay
          /\ \A u \in Versions \ {v} : sweep'.at # u => sweep.at # u
          /\ UNCHANGED <<pointer, retiring, docs, newest>>
      BY <1>1, <2>3, Unwritten DEF Exists
    <2>10. TablesInv'
      BY <1>3, <2>4, <2>5, <2>6, <2>7, <2>8, <2>9, OneRowChanges
    <2> QED BY <1>1, <1>3, <2>1, <2>2, <2>3, <2>5, <2>9, <2>10, RequestChanges
  <1> QED BY <1>2, <1>3

LEMMA ResumeStep ==
  ASSUME PublicationInv, NEW r \in Admins, Free(r), Resume(r)
  PROVE  PublicationInv'
  <1>0. PICK v \in Versions : v = admin[r].v
    BY DEF Resume, AdminAt, PublicationInv, RequestSound
  <1>1. /\ Exists /\ v = Latest /\ status[v] \in Failed /\ Agree(v) /\ admin[r] \in Admin
        /\ admin[r].reuse => attempt[v].ref /\ attempt[v].status = "publication_failed"
        /\ UNCHANGED <<rev, pointer, retiring, docs, job, run, sweep, faults, newest>>
        /\ attempt \in [Versions -> Attempt] /\ admin \in [Admins -> Admin] /\ faults \in 0..MaxFaults
    BY <1>0 DEF Resume, AdminAt, PublicationInv, TypeOK, RequestSound
  <1>2. CASE ~(attempt[v].status \in Failed /\ ~ActiveAttempt)
    <2>1. AdminEnds(r) /\ UNCHANGED <<attempt, status>>
      BY <1>0, <1>2 DEF Resume
    <2> QED BY <1>1, <2>1, Unwritten, RequestIsOver DEF tables
  <1>3. CASE attempt[v].status \in Failed /\ ~ActiveAttempt
    <2> DEFINE k == [NoRequest EXCEPT !.pc = "enqueue", !.v = v]
               Resumed(a) ==
                 /\ attempt' = [attempt EXCEPT ![v] = a] /\ a.status = "in_progress"
                 /\ \/ a.phase = "build" /\ ~a.ref
                    \/ /\ a.phase = "swap" /\ attempt[v].phase = "swap"
                       /\ job[v].status # "absent" /\ docs[v] # 0
    <2>1. k \in Admin /\ k.pc = "enqueue" /\ k.v = v
      BY ToEnqueue
    <2>2. PICK a \in Attempt : Resumed(a)
      <3>1. CASE admin[r].reuse
        <4> DEFINE a == [attempt[v] EXCEPT !.phase = "swap", !.status = "in_progress"]
        <4>1. a \in Attempt /\ a.status = "in_progress" /\ a.phase = "swap"
          BY <1>1 DEF Attempt, Phases, Running
        <4>2. attempt' = [attempt EXCEPT ![v] = a]
          BY <1>0, <1>1, <1>3, <3>1 DEF Resume
        <4>3. attempt[v].phase = "swap" /\ job[v].status # "absent" /\ docs[v] # 0
          BY <1>1, <3>1, Blanks, VersionNumbers DEF Agree, Free
        <4> HIDE DEF a
        <4> QED BY <4>1, <4>2, <4>3
      <3>2. CASE ~admin[r].reuse
        <4> DEFINE a == [attempt[v] EXCEPT !.phase = "build", !.status = "in_progress",
                                           !.ref = FALSE, !.made = 0]
        <4>1. a \in Attempt /\ a.status = "in_progress" /\ a.phase = "build" /\ ~a.ref
          BY <1>1, VersionNumbers DEF Attempt, Phases, Running
        <4>2. attempt' = [attempt EXCEPT ![v] = a]
          BY <1>0, <1>1, <1>3, <3>2 DEF Resume
        <4> HIDE DEF a
        <4> QED BY <4>1, <4>2
      <3> QED BY <3>1, <3>2
    <2>3. admin' = [admin EXCEPT ![r] = k] /\ status' = [status EXCEPT ![v] = "indexing"]
      BY <1>0, <1>3 DEF Resume, AdminGoes
    <2> HIDE DEF k
    <2>4. TypeOK'
      <3>1. attempt' \in [Versions -> Attempt] /\ admin' \in [Admins -> Admin]
        BY <1>1, <2>1, <2>2, <2>3
      <3> QED BY <1>1, <2>3, <3>1 DEF PublicationInv, TypeOK
    <2>5. /\ attempt'[v] = a /\ status'[v] = "indexing"
          /\ \A u \in Versions \ {v} : attempt'[u] = attempt[u] /\ status'[u] = status[u]
      BY <1>1, <2>2, <2>3 DEF PublicationInv, TypeOK
    <2>6. Agree(v)'
      BY <1>1, <2>2, <2>5 DEF Agree
    <2>7. v > newest
      BY <1>1, LatestIsNewer DEF Failed
    <2>8. \A u \in Versions \ {v} : attempt[u].status \notin Running
      BY <1>3 DEF ActiveAttempt
    <2>9. /\ Exists' <=> Exists
          /\ JobsStay
          /\ \A u \in Versions \ {v} : sweep'.at # u => sweep.at # u
          /\ status[v] \notin {"none", "published", "retired"}
      BY <1>1, Unwritten DEF Exists, Failed
    <2>10. TablesInv'
      BY <1>1, <2>4, <2>5, <2>6, <2>7, <2>8, <2>9, OneRowChanges
    <2>11. attempt[v].phase = "build" => attempt'[v].phase = "build"
      BY <2>2, <2>5
    <2> QED
      BY <1>1, <2>1, <2>3, <2>5, <2>9, <2>10, <2>11, RequestChanges
  <1> QED BY <1>2, <1>3

LEMMA FailEnqueueStep ==
  ASSUME PublicationInv, NEW r \in Admins, Free(r), FailEnqueue(r)
  PROVE  PublicationInv'
  <1>0. PICK v \in Versions : v = admin[r].v
    BY DEF FailEnqueue, AdminAt, PublicationInv, RequestSound
  <1>1. /\ job[v].status = "absent" /\ Agree(v) /\ AdminEnds(r)
        /\ UNCHANGED <<rev, pointer, retiring, docs, job, run, sweep, faults, newest>>
        /\ attempt \in [Versions -> Attempt] /\ admin \in [Admins -> Admin] /\ faults \in 0..MaxFaults
    BY <1>0 DEF FailEnqueue, AdminAt, PublicationInv, TypeOK, RequestSound
  <1>2. CASE attempt[v].status = "none"
    <2>1. UNCHANGED <<attempt, status>>
      BY <1>0, <1>2 DEF FailEnqueue
    <2> QED BY <1>1, <2>1, Unwritten, RequestIsOver DEF tables
  <1>3. CASE attempt[v].status # "none"
    <2> DEFINE a == [attempt[v] EXCEPT !.status = "index_failed"]
    <2>1. a \in Attempt /\ a.status = "index_failed" /\ a.phase = attempt[v].phase /\ a.ref = attempt[v].ref
      BY <1>1 DEF Attempt, Failed
    <2>2. attempt[v].phase = "build" /\ ~attempt[v].ref /\ status[v] \in {"indexing", "index_failed"}
      BY <1>1, <1>3 DEF Agree
    <2>3. /\ attempt' = [attempt EXCEPT ![v] = a] /\ status' = [status EXCEPT ![v] = "index_failed"]
          /\ admin' = [admin EXCEPT ![r] = NoRequest]
      BY <1>0, <1>1, <1>3 DEF FailEnqueue, AdminEnds, AdminGoes
    <2> HIDE DEF a
    <2>4. TypeOK'
      <3>1. attempt' \in [Versions -> Attempt] /\ admin' \in [Admins -> Admin]
        BY <1>1, <2>1, <2>3, Blanks
      <3> QED BY <1>1, <2>3, <3>1 DEF PublicationInv, TypeOK, Failed
    <2>5. /\ attempt'[v] = a /\ status'[v] = "index_failed"
          /\ \A u \in Versions \ {v} : attempt'[u] = attempt[u] /\ status'[u] = status[u]
      BY <1>1, <2>3 DEF PublicationInv, TypeOK
    <2>6. Agree(v)'
      BY <2>1, <2>2, <2>5 DEF Agree
    <2>7. /\ Exists' <=> Exists
          /\ JobsStay
          /\ \A u \in Versions \ {v} : sweep'.at # u => sweep.at # u
          /\ status[v] \notin {"none", "published", "retired"}
          /\ attempt'[v].status \notin Running
      BY <1>1, <2>1, <2>2, <2>5, Unwritten DEF Exists, Running
    <2>8. TablesInv'
      BY <1>1, <2>1, <2>4, <2>5, <2>6, <2>7, OneRowChanges
    <2> QED BY <1>1, <2>1, <2>2, <2>3, <2>5, <2>7, <2>8, Blanks, RequestChanges
  <1> QED BY <1>2, <1>3

LEMMA BeginRetirementStep ==
  ASSUME PublicationInv, OnSqlite, Whole, NEW r \in Admins, Free(r), BeginRetirement(r)
  PROVE  PublicationInv'
  <1>1. /\ admin[r] \in Admin /\ UNCHANGED <<attempt, docs, job, run, sweep, faults, newest>>
        /\ faults \in 0..MaxFaults /\ admin \in [Admins -> Admin] /\ rev \in Nat
        /\ pointer \in 0..MaxVersion /\ admin[r].v = 0
    BY DEF BeginRetirement, AdminAt, Whole, PublicationInv, TypeOK
  <1>2. CASE ~MayRetire(r)
    BY <1>1, <1>2, Unwritten, RequestIsOver DEF BeginRetirement, tables
  <1>3. CASE MayRetire(r)
    <2>0. PICK v \in Versions : v = pointer
      BY <1>1, <1>3 DEF MayRetire, Versions
    <2> DEFINE k == [admin[r] EXCEPT !.pc = "clean", !.v = pointer]
    <2>1. k \in Admin /\ k.pc = "clean" /\ k.v = v
      BY <1>1, <2>0 DEF Admin
    <2>2. /\ admin' = [admin EXCEPT ![r] = k] /\ pointer' = 0 /\ rev' = rev + 1
          /\ status' = [status EXCEPT ![v] = "retired"] /\ retiring' = [retiring EXCEPT ![v] = "pending"]
      BY <1>1, <1>3, <2>0 DEF BeginRetirement, RetireWrites, AdminGoes
    <2> HIDE DEF k
    <2>3. /\ status[v] = "published" /\ Exists /\ Exists'
          /\ \A u \in Versions : attempt[u].status \notin Running
      BY <1>1, <1>3, <2>0, <2>2, VersionNumbers
      DEF PublicationInv, PointerSound, Numbered, MayRetire, ActiveAttempt, Exists
    <2>4. TypeOK'
      <3>1. admin' \in [Admins -> Admin] /\ rev' \in Nat
        BY <1>1, <2>1, <2>2
      <3> QED BY <1>1, <2>2, <3>1, VersionNumbers DEF PublicationInv, TypeOK
    <2>5. /\ status'[v] = "retired" /\ \A u \in Versions \ {v} : status'[u] = status[u]
          /\ \A u \in Versions \ {v} : retiring'[u] = retiring[u]
      BY <2>2 DEF PublicationInv, TypeOK
    <2>6. ASSUME NEW u \in Versions PROVE Agree(u)'
      <3>1. Agree(u)
        BY DEF PublicationInv
      <3> QED BY <1>1, <2>3, <2>5, <3>1 DEF Agree, Running
    <2>7. Numbered'
      BY <2>3, <2>5 DEF PublicationInv, Numbered
    <2>8. PointerSound'
      BY <2>0, <2>2, <2>3, <2>5, VersionNumbers DEF PublicationInv, PointerSound
    <2>9. NewestSound' /\ OneRuns'
      BY <1>1, <2>3, <2>5 DEF PublicationInv, TypeOK, NewestSound, OneRuns, Versions
    <2>10. TablesInv'
      BY <2>4, <2>6, <2>7, <2>8, <2>9 DEF TablesInv
    <2> QED BY <1>1, <2>1, <2>2, <2>3, <2>5, <2>10, Unwritten, RequestChanges
  <1> QED BY <1>2, <1>3

\* A request that is done with a cleanup is over, or goes on to purge.
LEMMA Cleaned ==
  ASSUME PublicationInv, NEW r \in Admins, AfterCleanup(r)
  PROVE  \E k \in Admin : admin' = [admin EXCEPT ![r] = k] /\ k.pc \in {"idle", "purge"}
  <1>1. admin[r] \in Admin
    BY DEF PublicationInv, TypeOK
  <1>2. CASE admin[r].purge
    <2> DEFINE k == [admin[r] EXCEPT !.pc = "purge"]
    <2>1. k \in Admin /\ k.pc = "purge"
      BY <1>1 DEF Admin
    <2>2. admin' = [admin EXCEPT ![r] = k]
      BY <1>2 DEF AfterCleanup, AdminGoes
    <2> HIDE DEF k
    <2> QED BY <2>1, <2>2
  <1>3. CASE ~admin[r].purge
    BY <1>3, Blanks DEF AfterCleanup, AdminEnds, AdminGoes
  <1> QED BY <1>2, <1>3

LEMMA RetirementCleanupStep ==
  ASSUME PublicationInv, NEW r \in Admins, Free(r), RetirementCleanup(r)
  PROVE  PublicationInv'
  <1>0. PICK v \in Versions : v = admin[r].v
    BY DEF RetirementCleanup, AdminAt, PublicationInv, RequestSound
  <1>1. /\ admin[r] \in Admin /\ Exists => status[v] = "retired"
        /\ UNCHANGED <<tables, job, run, sweep, newest>>
        /\ faults \in 0..MaxFaults /\ admin \in [Admins -> Admin]
        /\ docs \in [Versions -> 0..MaxVersion]
    BY <1>0 DEF RetirementCleanup, AdminAt, PublicationInv, TypeOK, RequestSound
  <1>2. CASE Fault /\ AfterCleanup(r) /\ UNCHANGED docs
    <2>1. PICK k \in Admin : admin' = [admin EXCEPT ![r] = k] /\ k.pc \in {"idle", "purge"}
      BY <1>2, Cleaned
    <2>2. faults' \in 0..MaxFaults
      BY <1>2, FaultType
    <2> QED BY <1>1, <1>2, <2>1, <2>2, Unwritten, RequestEnds
  <1>3. CASE /\ docs' = [docs EXCEPT ![v] = 0] /\ UNCHANGED faults
             /\ AdminGoes(r, [admin[r] EXCEPT !.pc = "complete"])
    <2> DEFINE k == [admin[r] EXCEPT !.pc = "complete"]
    <2>1. k \in Admin /\ k.pc = "complete" /\ k.v = v
      BY <1>0, <1>1 DEF Admin
    <2>2. admin' = [admin EXCEPT ![r] = k]
      BY <1>3 DEF AdminGoes
    <2> HIDE DEF k
    <2>3. /\ docs' \in [Versions -> 0..MaxVersion] /\ admin' \in [Admins -> Admin]
          /\ \A u \in Versions \ {v} : docs'[u] = docs[u]
      BY <1>1, <1>3, <2>1, <2>2, VersionNumbers
    <2>4. TypeOK'
      BY <1>1, <1>3, <2>3 DEF PublicationInv, TypeOK, tables
    <2>5. ASSUME NEW u \in Versions PROVE Agree(u)'
      BY <1>1, <2>3 DEF PublicationInv, Agree, Numbered, tables
    <2>6. Numbered' /\ PointerSound' /\ NewestSound' /\ OneRuns'
      BY <1>1, <2>3
      DEF PublicationInv, TypeOK, Numbered, PointerSound, NewestSound, OneRuns, tables, Exists, Versions
    <2>7. TablesInv'
      BY <2>4, <2>5, <2>6 DEF TablesInv
    <2>8. \A u \in Versions : Exists /\ attempt[u].phase = "build" => docs'[u] = docs[u]
      BY <1>1, <2>3 DEF PublicationInv, Agree
    <2>9. (Exists' <=> Exists) /\ status' = status /\ attempt' = attempt /\ UNCHANGED <<run, sweep>>
      BY <1>1 DEF tables, Exists
    <2> QED BY <1>1, <2>1, <2>2, <2>7, <2>8, <2>9, Unwritten, RequestChanges
  <1> QED BY <1>0, <1>2, <1>3 DEF RetirementCleanup

LEMMA CompleteRetirementStep ==
  ASSUME PublicationInv, NEW r \in Admins, Free(r), CompleteRetirement(r)
  PROVE  PublicationInv'
  <1>0. PICK v \in Versions : v = admin[r].v
    BY DEF CompleteRetirement, AdminAt, PublicationInv, RequestSound
  <1>1. /\ UNCHANGED <<rev, status, attempt, pointer, docs, job, run, sweep, faults, newest>>
        /\ faults \in 0..MaxFaults /\ admin \in [Admins -> Admin]
    BY DEF CompleteRetirement, PublicationInv, TypeOK
  <1>2. CASE retiring[v] # "pending"
    <2>1. AdminEnds(r) /\ UNCHANGED retiring
      BY <1>0, <1>2 DEF CompleteRetirement
    <2> QED BY <1>1, <2>1, Unwritten, RequestIsOver DEF tables
  <1>3. CASE retiring[v] = "pending"
    <2>1. retiring' = [retiring EXCEPT ![v] = "complete"] /\ AfterCleanup(r)
      BY <1>0, <1>3 DEF CompleteRetirement
    <2>2. PICK k \in Admin : admin' = [admin EXCEPT ![r] = k] /\ k.pc \in {"idle", "purge"}
      BY <2>1, Cleaned
    <2>3. TypeOK'
      <3>1. admin' \in [Admins -> Admin]
        BY <1>1, <2>2
      <3> QED BY <1>1, <2>1, <3>1 DEF PublicationInv, TypeOK
    <2>4. \A u \in Versions : Agree(u)'
      BY <1>1 DEF PublicationInv, Agree
    <2>5. Numbered' /\ PointerSound' /\ NewestSound' /\ OneRuns'
      BY <1>1, <1>3, <2>1
      DEF PublicationInv, TypeOK, Numbered, Exists, PointerSound, NewestSound, OneRuns
    <2>6. TablesInv'
      BY <2>3, <2>4, <2>5 DEF TablesInv
    <2>7. Exists' <=> Exists
      BY <1>1 DEF Exists
    <2> QED BY <1>1, <2>2, <2>6, <2>7, Unwritten, RequestChanges
  <1> QED BY <1>2, <1>3

LEMMA PurgeStep ==
  ASSUME PublicationInv, NEW r \in Admins, Free(r), Purge(r)
  PROVE  PublicationInv'
  <1>1. /\ admin' = [admin EXCEPT ![r] = NoRequest] /\ rev' = 0 /\ pointer' = 0
        /\ \A v \in Versions : attempt'[v] = NoAttempt /\ status'[v] = "none" /\ retiring'[v] = "none"
        /\ UNCHANGED <<docs, job, run, sweep, faults, newest>>
    BY DEF Purge, AdminEnds, AdminGoes
  <1>2. TypeOK'
    BY Blanks, VersionNumbers DEF Purge, AdminEnds, AdminGoes, PublicationInv, TypeOK
  <1>3. \A v \in Versions : Agree(v)'
    BY <1>1, Blanks DEF Agree
  <1>4. ~Exists'
    BY <1>1 DEF Exists
  <1>5. Numbered' /\ PointerSound' /\ NewestSound' /\ OneRuns'
    BY <1>1, <1>4, Blanks, VersionNumbers DEF Numbered, PointerSound, NewestSound, OneRuns, Running
  <1>6. TablesInv'
    BY <1>2, <1>3, <1>5 DEF TablesInv
  <1>7. UNCHANGED <<run, sweep>> /\ \A v \in Versions : attempt'[v].phase = "build"
    BY <1>1, Blanks
  <1> QED BY <1>1, <1>4, <1>6, <1>7, Blanks, Unwritten, RequestChanges

LEMMA AdminStepKeeps ==
  ASSUME PublicationInv, Guarded, Whole, NEW r \in Admins, AdminNext(r)
  PROVE  PublicationInv'
  <1>1. Free(r)
    BY HeldIsFree DEF AdminNext
  <1> QED
    BY <1>1, RequestPublicationStep, DeleteStep, RetireStep, RequestDiesStep, RetryReadStep,
       ResumeStep, EnqueueStep, EnqueueRaisesStep, FailEnqueueStep, BeginRetirementStep,
       RetirementCleanupStep, CompleteRetirementStep, PurgeStep, EnsureEnqueuedStep, ResumeCleanupStep
    DEF AdminNext, AdminStep, Guarded

-----------------------------------------------------------------------------
(* Authoring and the retention sweep.                                      *)

\* Steps that touch neither requests nor runs.
LEMMA NobodyMoves ==
  ASSUME PublicationInv, UNCHANGED <<admin, run, job>>, TablesInv', SweepSound',
         \A r \in Admins : ~Unguarded(r), Exists' => Exists,
         \A v \in Versions : attempt[v].phase = "build" => attempt'[v].phase = "build",
         \A v \in Versions : attempt[v].phase = "build" /\ docs[v] # 0 => docs'[v] # 0,
         \A v \in Versions : status[v] = "retired" => status'[v] = "retired"
  PROVE  PublicationInv'
  <1>1. \A r \in Admins : RequestSound(r)'
    BY RequestsKept
  <1>2. \A w \in Workers : RunSound(w)'
    BY RunsKept DEF JobsStay
  <1> QED BY <1>1, <1>2 DEF PublicationInv, TablesInv

LEMMA ReviseStep ==
  ASSUME PublicationInv, Guarded, ~Held(Admins), Revise
  PROVE  PublicationInv'
  <1>1. /\ Exists /\ Latest < MaxVersion /\ rev' = rev + 1 /\ rev \in Nat
        /\ UNCHANGED <<attempt, pointer, retiring, docs, job, admin, run, sweep, faults, newest>>
    BY DEF Revise, PublicationInv, TypeOK
  <1>2. Latest \in Versions /\ \A v \in Versions : status[v] # "none" <=> v <= Latest
    BY <1>1, LatestIs DEF PublicationInv
  <1>3. PICK n \in Versions : n = Latest + 1
    BY <1>1, <1>2, KnowledgePublicationAssumption DEF Versions
  <1>4. status' = [status EXCEPT ![n] = "draft"] /\ status[n] = "none"
    BY <1>2, <1>3, VersionNumbers DEF Revise, Versions
  <1>5. status'[n] = "draft" /\ \A v \in Versions \ {n} : status'[v] = status[v]
    BY <1>4 DEF PublicationInv, TypeOK
  <1>6. TypeOK'
    BY <1>1, <1>4 DEF PublicationInv, TypeOK
  <1>7. ASSUME NEW v \in Versions PROVE Agree(v)'
    <2>1. Agree(v)
      BY DEF PublicationInv
    <2> QED BY <1>1, <1>4, <1>5, <2>1 DEF Agree
  <1>8. Exists'
    BY <1>1 DEF Exists
  <1>9. Numbered'
    <2>1. \A v \in Versions : status'[v] # "none" <=> v <= n
      BY <1>2, <1>3, <1>5, VersionNumbers DEF Versions
    <2> QED BY <1>8, <2>1 DEF Numbered
  <1>10. PointerSound' /\ NewestSound' /\ OneRuns'
    BY <1>1, <1>4, <1>5
    DEF PublicationInv, TypeOK, PointerSound, NewestSound, OneRuns, Versions
  <1>11. TablesInv'
    BY <1>6, <1>7, <1>9, <1>10 DEF TablesInv
  <1>12. /\ \A r \in Admins : ~Unguarded(r)
         /\ SweepSound'
    BY <1>1, NoSweepSound DEF Held, Guarded
  <1> QED BY <1>1, <1>4, <1>5, <1>11, <1>12, NobodyMoves

LEMMA SweepListStep ==
  ASSUME PublicationInv, \A r \in Admins : ~Unguarded(r), SweepList
  PROVE  PublicationInv'
  <1> DEFINE expired == {v \in Versions : attempt[v].status \in Failed /\ attempt[v].ref}
  <1>1. /\ sweep' = [todo |-> expired, at |-> 0] /\ sweep.at = 0
        /\ UNCHANGED <<tables, docs, job, admin, run, faults, newest>>
    BY Blanks DEF SweepList
  <1>2. sweep' \in [todo : SUBSET Versions, at : 0..MaxVersion] /\ sweep'.at = 0 /\ sweep'.todo = expired
    BY <1>1, VersionNumbers
  <1>3. TypeOK'
    BY <1>1, <1>2 DEF PublicationInv, TypeOK, tables
  <1>4. TablesInv'
    BY <1>1, <1>2, <1>3, TablesKept, Unwritten
  <1>5. SweepSound'
    BY <1>1, <1>2, VersionNumbers DEF SweepSound, tables
  <1> QED BY <1>1, <1>4, <1>5, NobodyMoves DEF tables, Exists

LEMMA SweepCleanStep ==
  ASSUME PublicationInv, Guarded, \A r \in Admins : ~Unguarded(r), NEW v \in Versions, SweepClean(v)
  PROVE  PublicationInv'
  <1>1. /\ sweep.at = 0 /\ v \in sweep.todo /\ attempt[v].status \in Failed /\ attempt[v].ref
        /\ sweep \in [todo : SUBSET Versions, at : 0..MaxVersion]
        /\ docs \in [Versions -> 0..MaxVersion]
        /\ UNCHANGED <<tables, job, admin, run, newest>>
    BY DEF SweepClean, PublicationInv, TypeOK, SweepSound
  <1>2. CASE docs' = [docs EXCEPT ![v] = 0] /\ sweep' = [sweep EXCEPT !.at = v] /\ UNCHANGED faults
    <2>1. /\ sweep' \in [todo : SUBSET Versions, at : 0..MaxVersion]
          /\ sweep'.at = v /\ sweep'.todo = sweep.todo
      BY <1>1, <1>2, VersionNumbers
    <2>2. docs' \in [Versions -> 0..MaxVersion] /\ \A u \in Versions \ {v} : docs'[u] = docs[u]
      BY <1>1, <1>2, VersionNumbers
    <2>3. TypeOK'
      BY <1>1, <1>2, <2>1, <2>2 DEF PublicationInv, TypeOK, tables
    <2>4. ASSUME NEW u \in Versions PROVE Agree(u)'
      <3>1. Agree(u) /\ UNCHANGED <<attempt, status, job>>
        BY <1>1 DEF PublicationInv, tables
      <3>2. CASE u = v
        BY <1>1, <2>1, <3>1, <3>2 DEF Agree, Failed
      <3>3. CASE u # v
        BY <1>1, <2>2, <3>1, <3>3, VersionNumbers DEF Agree
      <3> QED BY <3>2, <3>3
    <2>5. pointer # v
      BY <1>1 DEF PublicationInv, Agree, PointerSound, Failed
    <2>6. Numbered' /\ PointerSound' /\ NewestSound' /\ OneRuns'
      BY <1>1, <2>2, <2>5
      DEF PublicationInv, TypeOK, Numbered, PointerSound, NewestSound, OneRuns, tables, Exists, Versions
    <2>7. TablesInv'
      BY <2>3, <2>4, <2>6 DEF TablesInv
    <2>8. SweepSound'
      BY <1>1, <2>1 DEF PublicationInv, SweepSound, tables
    <2>9. attempt[v].phase # "build"
      BY <1>1 DEF PublicationInv, Agree
    <2> QED BY <1>1, <2>2, <2>7, <2>8, <2>9, NobodyMoves DEF tables, Exists
  <1>3. CASE Fault /\ sweep' = [sweep EXCEPT !.todo = @ \ {v}] /\ UNCHANGED docs
    <2>1. /\ sweep' \in [todo : SUBSET Versions, at : 0..MaxVersion]
          /\ sweep'.at = sweep.at /\ sweep'.todo \subseteq sweep.todo
      BY <1>1, <1>3
    <2>2. TypeOK'
      BY <1>1, <1>3, <2>1, FaultType DEF PublicationInv, TypeOK, tables
    <2>3. TablesInv'
      BY <1>1, <1>3, <2>1, <2>2, TablesKept, Unwritten
    <2>4. SweepSound'
      BY <1>1, <2>1 DEF PublicationInv, SweepSound, tables
    <2> QED BY <1>1, <1>3, <2>3, <2>4, NobodyMoves DEF tables, Exists
  <1> QED BY <1>2, <1>3 DEF SweepClean, Guarded

LEMMA SweepClearStep ==
  ASSUME PublicationInv, \A r \in Admins : ~Unguarded(r), SweepClear
  PROVE  PublicationInv'
  <1>0. PICK v \in Versions : v = sweep.at
    BY DEF SweepClear, PublicationInv, TypeOK, Versions
  <1> DEFINE a == [attempt[v] EXCEPT !.ref = FALSE, !.made = 0]
  <1>1. /\ attempt[v].status \in Failed /\ attempt[v] \in Attempt /\ Agree(v)
        /\ sweep \in [todo : SUBSET Versions, at : 0..MaxVersion]
        /\ attempt \in [Versions -> Attempt]
        /\ UNCHANGED <<rev, status, pointer, retiring, docs, job, admin, run, faults, newest>>
    BY <1>0 DEF SweepClear, PublicationInv, TypeOK, SweepSound
  <1>2. /\ a \in Attempt /\ a.status = attempt[v].status /\ a.phase = attempt[v].phase /\ ~a.ref
    BY <1>1, VersionNumbers DEF Attempt
  <1>3. attempt' = [attempt EXCEPT ![v] = a] /\ sweep' = [todo |-> sweep.todo \ {v}, at |-> 0]
    BY <1>0, <1>1 DEF SweepClear
  <1> HIDE DEF a
  <1>4. /\ sweep' \in [todo : SUBSET Versions, at : 0..MaxVersion] /\ sweep'.at = 0
        /\ sweep'.todo = sweep.todo \ {v} /\ attempt' \in [Versions -> Attempt]
    BY <1>1, <1>2, <1>3, VersionNumbers
  <1>5. TypeOK'
    BY <1>1, <1>4 DEF PublicationInv, TypeOK
  <1>6. attempt'[v] = a /\ \A u \in Versions \ {v} : attempt'[u] = attempt[u]
    BY <1>1, <1>3
  <1>7. Agree(v)'
    BY <1>1, <1>2, <1>6 DEF Agree, Failed
  <1>8. /\ Exists' <=> Exists
        /\ JobsStay
        /\ \A u \in Versions \ {v} : sweep'.at # u => sweep.at # u
        /\ status[v] \notin {"none", "published", "retired"}
        /\ a.status \notin Running /\ a.status # "in_progress"
    BY <1>0, <1>1, <1>2, Unwritten DEF Exists, Agree, Failed, Running
  <1>9. TablesInv'
    BY <1>1, <1>5, <1>6, <1>7, <1>8, OneRowChanges
  <1>10. SweepSound'
    BY <1>4, <1>6, VersionNumbers DEF PublicationInv, SweepSound
  <1> QED BY <1>1, <1>2, <1>6, <1>8, <1>9, <1>10, NobodyMoves

LEMMA SweepDiesStep ==
  ASSUME PublicationInv, Guarded, \A r \in Admins : ~Unguarded(r), SweepDies
  PROVE  PublicationInv'
  <1>1. /\ sweep.at = 0 /\ sweep' = NoSweep /\ UNCHANGED <<tables, docs, job, admin, run, newest>>
    BY DEF SweepDies, Guarded
  <1>2. TypeOK'
    BY <1>1, Blanks, FaultType DEF SweepDies, PublicationInv, TypeOK, tables
  <1>3. TablesInv'
    BY <1>1, <1>2, Blanks, TablesKept, Unwritten
  <1> QED BY <1>1, <1>3, NoSweepSound, NobodyMoves DEF tables, Exists

\* On SQLite begin_batch and begin_retirement do not rest.
LEMMA WholeStep ==
  ASSUME PublicationInv, Guarded, Whole, [Next]_vars
  PROVE  Whole'
  <1>0. \A r \in Admins : admin[r] \in Admin
    BY DEF PublicationInv, TypeOK
  <1>1. ASSUME NEW r \in Admins, NEW k, admin' = [admin EXCEPT ![r] = k],
               k.pc # "batch", k.pc = "retire" => k.v = 0
        PROVE  Whole'
    BY <1>1 DEF Whole, PublicationInv, TypeOK
  <1>2. ASSUME NEW r \in Admins, AdminNext(r)
        PROVE  UNCHANGED admin \/ \E k : /\ admin' = [admin EXCEPT ![r] = k]
                                      /\ k.pc # "batch" /\ (k.pc = "retire" => k.v = 0)
    <2>0. admin[r] \in Admin /\ OnSqlite /\ admin[r].pc # "batch"
      BY <1>0 DEF Whole, Guarded
    <2>1. CASE RequestPublication(r)
      <3>1. PICK v \in {Latest} : \/ AdminGoes(r, [NoRequest EXCEPT !.pc = "enqueue", !.v = v])
                                 \/ AdminGoes(r, [NoRequest EXCEPT !.v = v, !.pc = "retry"])
        BY <2>0, <2>1 DEF RequestPublication, BatchWrites, AdminAt
      <3>2. PICK k \in {[NoRequest EXCEPT !.pc = "enqueue", !.v = v], [NoRequest EXCEPT !.v = v, !.pc = "retry"]} :
              admin' = [admin EXCEPT ![r] = k]
        BY <3>1 DEF AdminGoes
      <3>3. k.pc \in {"enqueue", "retry"}
        BY <3>2 DEF NoRequest
      <3> QED BY <3>2, <3>3
    <2>2. CASE BeginRetirement(r)
      <3>1. admin[r].v = 0
        BY <2>2 DEF Whole, BeginRetirement, AdminAt
      <3> DEFINE k == [admin[r] EXCEPT !.pc = "clean", !.v = pointer]
      <3>2. k.pc = "clean"
        BY <2>0 DEF Admin
      <3>3. AdminGoes(r, k) \/ AdminEnds(r)
        BY <2>0, <2>2, <3>1 DEF BeginRetirement, RetireWrites
      <3> HIDE DEF k
      <3> QED BY <3>2, <3>3, Blanks DEF AdminGoes, AdminEnds
    <2>3. CASE Delete(r) \/ Retire(r)
      <3>1. PICK pc \in {"retire", "purge"} :
              \/ AdminGoes(r, [NoRequest EXCEPT !.pc = pc, !.rev = rev, !.purge = TRUE])
              \/ AdminGoes(r, [NoRequest EXCEPT !.pc = pc, !.rev = rev])
        BY <2>3 DEF Delete, Retire
      <3>2. PICK k \in {[NoRequest EXCEPT !.pc = pc, !.rev = rev, !.purge = TRUE],
                        [NoRequest EXCEPT !.pc = pc, !.rev = rev]} :
              admin' = [admin EXCEPT ![r] = k]
        BY <3>1 DEF AdminGoes
      <3>3. k.pc # "batch" /\ k.v = 0
        BY <3>1, <3>2 DEF NoRequest
      <3> QED BY <3>2, <3>3
    <2>4. CASE RequestDies(r) \/ Purge(r) \/ Enqueue(r) \/ FailEnqueue(r)
      BY <2>4, Blanks DEF RequestDies, Purge, Enqueue, FailEnqueue, AdminEnds, AdminGoes
    <2>5. ASSUME NEW v \in Versions, EnsureEnqueued(r, v) \/ ResumeRetirementCleanup(r, v)
          PROVE  \E k : admin' = [admin EXCEPT ![r] = k] /\ k.pc \in {"enqueue", "clean"}
      <3>1. PICK k \in {[NoRequest EXCEPT !.pc = "enqueue", !.v = v], [NoRequest EXCEPT !.pc = "clean", !.v = v]} :
              admin' = [admin EXCEPT ![r] = k]
        BY <2>5 DEF EnsureEnqueued, ResumeRetirementCleanup, AdminGoes
      <3>2. k.pc \in {"enqueue", "clean"}
        BY <3>1 DEF NoRequest
      <3> QED BY <3>1, <3>2
    <2>6. ASSUME NEW pc \in {"fail_enqueue", "complete", "purge"},
                 AdminGoes(r, [admin[r] EXCEPT !.pc = pc])
          PROVE  \E k : admin' = [admin EXCEPT ![r] = k] /\ k.pc = pc
      BY <2>0, <2>6 DEF AdminGoes, Admin
    <2>7. CASE EnqueueRaises(r) \/ RetirementCleanup(r) \/ CompleteRetirement(r)
      BY <2>6, <2>7, Blanks
      DEF EnqueueRaises, RetirementCleanup, CompleteRetirement, AfterCleanup, AdminEnds, AdminGoes
    <2>8. CASE RetryRead(r)
      <3> DEFINE k == [admin[r] EXCEPT !.pc = "resume", !.reuse = Reusable(admin[r].v)]
      <3>1. k.pc = "resume"
        BY <2>0 DEF Admin
      <3>2. AdminGoes(r, k) \/ AdminEnds(r)
        BY <2>8 DEF RetryRead
      <3> HIDE DEF k
      <3> QED BY <3>1, <3>2, Blanks DEF AdminGoes, AdminEnds
    <2>9. CASE Resume(r)
      <3>1. AdminGoes(r, [NoRequest EXCEPT !.pc = "enqueue", !.v = admin[r].v]) \/ AdminEnds(r)
        BY <2>9 DEF Resume
      <3>2. PICK k \in {[NoRequest EXCEPT !.pc = "enqueue", !.v = admin[r].v], NoRequest} :
              admin' = [admin EXCEPT ![r] = k]
        BY <3>1 DEF AdminGoes, AdminEnds
      <3>3. k.pc \in {"enqueue", "idle"}
        BY <3>2, Blanks DEF NoRequest
      <3> QED BY <3>2, <3>3
    <2> QED BY <1>2, <2>1, <2>2, <2>3, <2>4, <2>5, <2>7, <2>8, <2>9 DEF AdminNext, AdminStep
  <1>3. ASSUME NEW w \in Workers, WorkerNext(w) PROVE UNCHANGED admin
    BY <1>3
    DEF WorkerNext, RunStep, WorkerDies, Deliver, Read, ReadItem, Build, TransientFailure,
        RecordArtifact, Swap, FailSwap, Cleanup, CompleteCleanup, Report
  <1>4. CASE Revise \/ SweepNext \/ UNCHANGED vars
    BY <1>4 DEF Whole, Revise, SweepNext, SweepList, SweepClear, SweepDies, SweepClean, vars
  <1>5. UNCHANGED admin => Whole'
    BY DEF Whole
  <1> QED BY <1>1, <1>2, <1>3, <1>4, <1>5 DEF Next

LEMMA PublicationStep ==
  ASSUME PublicationInv, Guarded, Whole, [Next]_vars
  PROVE  PublicationInv'
  <1>1. CASE UNCHANGED vars
    <2>1. TypeOK' /\ UNCHANGED <<tables, docs, newest, job, admin, run, sweep>>
      BY <1>1 DEF vars, tables, PublicationInv, TypeOK
    <2>2. TablesInv'
      BY <2>1, TablesKept, Unwritten
    <2>3. /\ \A r \in Admins : RequestSound(r)'
          /\ \A w \in Workers : RunSound(w)'
          /\ SweepSound'
      BY <2>1 DEF PublicationInv, RequestSound, Unguarded, RunSound, SweepSound, tables, Exists, Latest
    <2> QED BY <2>2, <2>3 DEF PublicationInv, TablesInv
  <1>2. CASE SweepNext
    BY <1>2, SweepListStep, SweepCleanStep, SweepClearStep, SweepDiesStep DEF SweepNext, Guarded
  <1> QED BY <1>1, <1>2, ReviseStep, AdminStepKeeps, WorkerStep DEF Next

\* On SQLite, whatever requests, runs, sweeps, crashes and failures do in
\* between, the tables, the index and what each actor read of them stay in step
\* (modules/knowledge_publication).
THEOREM PublicationInvariant ==
  ASSUME Guarded
  PROVE  Spec => [](PublicationInv /\ Whole)
  <1>1. Init => Whole
    BY Blanks DEF Init, Whole
  <1> QED BY <1>1, PublicationStart, PublicationStep, WholeStep, PTL DEF Spec

-----------------------------------------------------------------------------
(* What it comes to.                                                       *)

LEMMA InvTells == PublicationInv => StatusTellsPointer
  <1> SUFFICES ASSUME PublicationInv PROVE StatusTellsPointer
    OBVIOUS
  <1>1. \A v \in Versions : status[v] = "published" <=> pointer = v
    BY DEF PublicationInv, PointerSound
  <1>2. \A v \in Versions : status[v] = "indexing" <=> attempt[v].status = "in_progress"
    BY DEF PublicationInv, Agree
  <1>3. pointer # 0 => docs[pointer] # 0
    BY DEF PublicationInv, PointerSound
  <1> DEFINE active == {v \in Versions : attempt[v].status \in Running}
  <1>4. active = {} \/ \E v : active = {v}
    <2>1. \A u, v \in active : u = v
      BY DEF PublicationInv, OneRuns
    <2> HIDE DEF active
    <2> QED BY <2>1
  <1>5. Cardinality(active) <= 1
    <2> HIDE DEF active
    <2>1. CASE active = {}
      BY <2>1, FS_EmptySet
    <2>2. ASSUME NEW v, active = {v} PROVE Cardinality(active) <= 1
      BY <2>2, FS_Singleton
    <2> QED BY <1>4, <2>1, <2>2
  <1> QED BY <1>1, <1>2, <1>3, <1>5 DEF StatusTellsPointer

\* On SQLite what the operator is shown is what retrieval and the worker act on,
\* however requests, runs, crashes and failures fall, as long as nobody overtakes a
\* retry, a failed enqueue or a sweep and no sweep stops halfway
\* (modules/knowledge_publication, the transactions of sqlite_store.py).
THEOREM StatusIsTrue ==
  ASSUME Guarded
  PROVE  Spec => []StatusTellsPointer
  BY PublicationInvariant, InvTells, PTL

\* The pointer only moves to a newer version, which is then the newest, or to none.
LEMMA PointerMoves ==
  ASSUME PublicationInv, Guarded, Whole, [Next]_vars
  PROVE  \/ UNCHANGED <<pointer, newest>>
         \/ /\ pointer # 0
            /\ pointer' = 0
            /\ newest' = newest
         \/ \E v \in Versions : v > newest /\ pointer' = v /\ newest' = v
  <1>1. ASSUME NEW w \in Workers, WorkerNext(w)
        PROVE  \/ UNCHANGED <<pointer, newest>>
               \/ \E v \in Versions : v > newest /\ pointer' = v /\ newest' = v
    <2>1. ASSUME RunAt(w, "swap"), Swapping(run[w].v), CommitPublication(w)
          PROVE  \E v \in Versions : v > newest /\ pointer' = v /\ newest' = v
      <3>1. run[w].v \in Versions
        BY <2>1 DEF RunAt, PublicationInv, RunSound
      <3>2. run[w].v > newest
        BY <2>1, <3>1 DEF Swapping, PublicationInv, NewestSound
      <3> QED BY <2>1, <3>1, <3>2 DEF CommitPublication
    <2>2. CASE Swap(w)
      BY <2>1, <2>2 DEF Swap, tables
    <2> QED
      BY <1>1, <2>2
      DEF WorkerNext, RunStep, Read, ReadItem, Build, TransientFailure, RecordArtifact, FailSwap,
          Cleanup, CompleteCleanup, Report, WorkerDies, Deliver, tables
  <1>2. ASSUME NEW r \in Admins, AdminNext(r)
        PROVE  \/ UNCHANGED <<pointer, newest>>
               \/ /\ pointer # 0
                  /\ pointer' = 0
                  /\ newest' = newest
    <2>1. CASE Purge(r)
      BY <2>1 DEF Purge
    <2>2. CASE BeginRetirement(r)
      <3>1. admin[r].v = 0
        BY <2>2 DEF Whole, BeginRetirement, AdminAt
      <3> QED BY <2>2, <3>1 DEF BeginRetirement, RetireWrites, MayRetire
    <2>3. CASE RequestPublication(r)
      BY <2>3 DEF RequestPublication, tables
    <2>4. CASE Delete(r)
      BY <2>4 DEF Delete, tables
    <2>5. CASE Retire(r)
      BY <2>5 DEF Retire, tables
    <2>6. CASE RequestDies(r)
      BY <2>6 DEF RequestDies, tables
    <2>7. CASE RetryRead(r)
      BY <2>7 DEF RetryRead, tables
    <2>8. CASE Resume(r)
      BY <2>8 DEF Resume, tables
    <2>9. CASE Enqueue(r)
      BY <2>9 DEF Enqueue, tables
    <2>10. CASE EnqueueRaises(r)
      BY <2>10 DEF EnqueueRaises, tables
    <2>11. CASE FailEnqueue(r)
      BY <2>11 DEF FailEnqueue, tables
    <2>12. CASE RetirementCleanup(r)
      BY <2>12 DEF RetirementCleanup, tables
    <2>13. CASE CompleteRetirement(r)
      BY <2>13 DEF CompleteRetirement, tables
    <2>14. ASSUME NEW v \in Versions, EnsureEnqueued(r, v) \/ ResumeRetirementCleanup(r, v)
          PROVE  UNCHANGED <<pointer, newest>>
      BY <2>14 DEF EnsureEnqueued, ResumeRetirementCleanup, tables
    <2> QED BY <1>2, <2>1, <2>2, <2>3, <2>4, <2>5, <2>6, <2>7, <2>8, <2>9, <2>10, <2>11, <2>12, <2>13, <2>14
      DEF AdminNext, AdminStep
  <1>3. CASE Revise \/ SweepNext
    BY <1>3 DEF Revise, SweepNext, SweepList, SweepClear, SweepDies, SweepClean, tables
  <1>4. CASE UNCHANGED vars
    BY <1>4 DEF vars, tables
  <1> QED BY <1>1, <1>2, <1>3, <1>4 DEF Next

\* On SQLite KnowledgePublication implements KnowledgeServing: one version at a time is
\* served, a newer one takes over in one step, and none comes back, whatever
\* builds, swaps, retirements, sweeps and crashes do in between.
THEOREM ServingIsImplemented ==
  ASSUME Guarded
  PROVE  Spec => ImplementsServing
  <1>1. Init => Serving!Init
    BY DEF Init, Serving!Init, Live
  <1>2. ASSUME PublicationInv, PublicationInv', Whole, [Next]_vars
        PROVE  [Serving!Next]_(Serving!vars)
    <2>1. Live = pointer /\ Live' = pointer'
      BY <1>2 DEF PublicationInv, PointerSound, Live
    <2> QED BY <1>2, <2>1, PointerMoves DEF Serving!Next, Serving!Swap, Serving!Withdraw, Serving!vars
  <1> QED BY <1>1, <1>2, PublicationInvariant, PTL DEF Spec, ImplementsServing, Serving!Spec

-----------------------------------------------------------------------------
(***************************************************************************)
(* The types, whoever overtakes whom: also when enqueues lie, runs of a    *)
(* job overlap and sweeps stop halfway.                                    *)
(***************************************************************************)

Statuses == Failed \cup {"none", "draft", "indexing", "published", "retired"}

\* The rows of an item come and go together.
RowsTogether ==
  /\ \A v \in Versions : attempt[v].status # "none" => status[v] # "none"
  /\ pointer # 0 => status[pointer] # "none"

TablesTyped ==
  /\ rev \in Nat /\ status \in [Versions -> Statuses] /\ attempt \in [Versions -> Attempt]
  /\ pointer \in 0..MaxVersion /\ retiring \in [Versions -> {"none", "pending", "complete"}]
  /\ Numbered /\ RowsTogether

RequestTyped(k) == k \in Admin /\ (k.pc \notin {"idle", "retire", "purge"} => k.v \in Versions)
RunTyped(k) == k \in Run /\ (k.pc # "idle" => k.v \in Versions)

AdminTyped == admin \in [Admins -> Admin] /\ \A r \in Admins : RequestTyped(admin[r])
RunsTyped == run \in [Workers -> Run] /\ \A w \in Workers : RunTyped(run[w])

QueueTyped ==
  /\ docs \in [Versions -> 0..MaxVersion]
  /\ job \in [Versions -> [status : {"absent", "open", "settled"}, claims : Nat]]
  /\ sweep \in [todo : SUBSET Versions, at : 0..MaxVersion]
  /\ faults \in 0..MaxFaults /\ newest \in 0..MaxVersion

TypesInv == TablesTyped /\ AdminTyped /\ RunsTyped /\ QueueTyped

LEMMA TypesStart == Init => TypesInv
  <1> SUFFICES ASSUME Init PROVE TypesInv
    OBVIOUS
  <1>1. Numbered
    BY VersionNumbers DEF Init, Numbered, Exists
  <1>2. TablesTyped
    BY <1>1, Blanks, VersionNumbers DEF Init, TablesTyped, RowsTogether, Statuses
  <1>3. AdminTyped /\ RunsTyped
    BY Blanks DEF Init, AdminTyped, RunsTyped, RequestTyped, RunTyped
  <1>4. QueueTyped
    BY Blanks, VersionNumbers, KnowledgePublicationAssumption DEF Init, QueueTyped
  <1> QED BY <1>2, <1>3, <1>4 DEF TypesInv

LEMMA TablesStay == TablesTyped /\ UNCHANGED tables => TablesTyped'
  BY DEF tables, TablesTyped, Numbered, RowsTogether, Exists

\* The row and the attempt of a version that is there change.
LEMMA RowChanges ==
  ASSUME TablesTyped, NEW v \in Versions, NEW a \in Attempt, NEW s \in Statuses,
         status[v] # "none", s # "none",
         status' = [status EXCEPT ![v] = s], attempt' = [attempt EXCEPT ![v] = a],
         UNCHANGED <<pointer, retiring>>, rev' \in Nat, Exists' <=> Exists
  PROVE  TablesTyped'
  <1>1. /\ \A u \in Versions : status'[u] = IF u = v THEN s ELSE status[u]
        /\ \A u \in Versions : attempt'[u] = IF u = v THEN a ELSE attempt[u]
        /\ status' \in [Versions -> Statuses] /\ attempt' \in [Versions -> Attempt]
    BY DEF TablesTyped
  <1>2. \A u \in Versions : status'[u] # "none" <=> status[u] # "none"
    BY <1>1
  <1>3. Numbered'
    BY <1>2 DEF TablesTyped, Numbered
  <1>4. RowsTogether'
    BY <1>1, <1>2, VersionNumbers DEF TablesTyped, RowsTogether, Versions
  <1> QED BY <1>1, <1>3, <1>4 DEF TablesTyped

LEMMA RequestTypes ==
  ASSUME AdminTyped, NEW r \in Admins, NEW k, RequestTyped(k), AdminGoes(r, k)
  PROVE  AdminTyped'
  BY DEF AdminTyped, AdminGoes, RequestTyped

LEMMA RequestsEnd == ASSUME AdminTyped, NEW r \in Admins, AdminEnds(r) PROVE AdminTyped'
  BY RequestTypes, Blanks DEF AdminEnds, RequestTyped

LEMMA RunTypes ==
  ASSUME RunsTyped, NEW w \in Workers, NEW k, RunTyped(k), RunGoes(w, k)
  PROVE  RunsTyped'
  BY DEF RunsTyped, RunGoes, RunTyped

LEMMA RunMoves ==
  ASSUME RunsTyped, NEW w \in Workers, run[w].pc # "idle",
         \/ \E b \in BOOLEAN : RunReports(w, b)
         \/ RunRaises(w)
         \/ \E pc \in {"item", "swap", "record", "transient", "fail_swap", "complete"} : RunStage(w, pc)
  PROVE  RunsTyped'
  <1>1. run[w] \in Run /\ run[w].v \in Versions /\ (~run[w].last) \in BOOLEAN
    BY DEF RunsTyped, RunTyped
  <1>2. ASSUME NEW b \in BOOLEAN, RunReports(w, b) PROVE RunsTyped'
    <2> DEFINE k == [run[w] EXCEPT !.pc = "report", !.again = b]
    <2>1. k \in Run /\ k.v = run[w].v
      BY <1>1 DEF Run
    <2>2. RunGoes(w, k)
      BY <1>2 DEF RunReports
    <2> HIDE DEF k
    <2> QED BY <1>1, <2>1, <2>2, RunTypes DEF RunTyped
  <1>3. ASSUME NEW pc \in {"item", "swap", "record", "transient", "fail_swap", "complete"},
               RunStage(w, pc)
        PROVE  RunsTyped'
    <2> DEFINE k == [run[w] EXCEPT !.pc = pc]
    <2>1. k \in Run /\ k.v = run[w].v
      BY <1>1 DEF Run
    <2>2. RunGoes(w, k)
      BY <1>3 DEF RunStage
    <2> HIDE DEF k
    <2> QED BY <1>1, <2>1, <2>2, RunTypes DEF RunTyped
  <1> QED BY <1>1, <1>2, <1>3 DEF RunRaises

\* The latest version, while there is one.
LEMMA LatestTypes == TablesTyped /\ Exists => Latest \in Versions /\ status[Latest] # "none"
  <1> SUFFICES ASSUME TablesTyped, Exists PROVE Latest \in Versions /\ status[Latest] # "none"
    OBVIOUS
  <1>1. Latest \in Versions /\ \A v \in Versions : status[v] # "none" <=> v <= Latest
    BY LatestIs DEF TablesTyped
  <1> QED BY <1>1, VersionNumbers

LEMMA FaultTypes == QueueTyped /\ Fault => faults' \in 0..MaxFaults
  BY KnowledgePublicationAssumption DEF QueueTyped, Fault

LEMMA ReviseTypes == TypesInv /\ Revise => TypesInv'
  <1> SUFFICES ASSUME TypesInv, Revise PROVE TypesInv'
    OBVIOUS
  <1>1. AdminTyped' /\ RunsTyped' /\ QueueTyped'
    BY DEF Revise, TypesInv, AdminTyped, RunsTyped, QueueTyped
  <1> DEFINE n == Latest + 1
  <1>2. Exists /\ Latest \in Versions /\ \A v \in Versions : status[v] # "none" <=> v <= Latest
    BY LatestIs DEF Revise, TypesInv, TablesTyped
  <1>3. n \in Versions
    BY <1>2, KnowledgePublicationAssumption DEF Revise, Versions
  <1>4. /\ status' = [status EXCEPT ![n] = "draft"] /\ UNCHANGED <<attempt, pointer, retiring>>
        /\ rev' = rev + 1 /\ rev \in Nat /\ status \in [Versions -> Statuses]
    BY DEF Revise, TypesInv, TablesTyped
  <1>5. \A v \in Versions : status'[v] # "none" <=> v <= n
    BY <1>2, <1>3, <1>4, VersionNumbers
  <1>6. \A v \in Versions : status[v] # "none" => status'[v] # "none"
    BY <1>2, <1>3, <1>5, VersionNumbers
  <1> HIDE DEF n
  <1>7. Numbered'
    BY <1>3, <1>4, <1>5 DEF Numbered, Exists
  <1>8. RowsTogether'
    BY <1>4, <1>6, VersionNumbers DEF TypesInv, TablesTyped, RowsTogether, Versions
  <1>9. status' \in [Versions -> Statuses] /\ rev' \in Nat
    BY <1>3, <1>4 DEF Statuses
  <1>10. TablesTyped'
    BY <1>4, <1>7, <1>8, <1>9 DEF TypesInv, TablesTyped
  <1> QED BY <1>1, <1>10 DEF TypesInv

\* What a row may become, and an attempt.
LEMMA AttemptTypes ==
  ASSUME NEW a \in Attempt
  PROVE  /\ \A s \in Running \cup Failed \cup {"none", "published"} : [a EXCEPT !.status = s] \in Attempt
         /\ [a EXCEPT !.phase = "swap", !.status = "in_progress"] \in Attempt
         /\ [a EXCEPT !.phase = "build", !.status = "in_progress", !.ref = FALSE, !.made = 0] \in Attempt
         /\ [a EXCEPT !.ref = FALSE, !.made = 0] \in Attempt
         /\ [a EXCEPT !.phase = "complete", !.status = "published"] \in Attempt
         /\ \A n \in 0..MaxVersion : [a EXCEPT !.phase = "swap", !.ref = TRUE, !.made = n] \in Attempt
  BY VersionNumbers DEF Attempt, Phases, Running, Failed

\* Requests that change the row of one version.
LEMMA RequestTables ==
  ASSUME TypesInv, NEW r \in Admins, RequestPublication(r) \/ Resume(r) \/ FailEnqueue(r)
  PROVE  TablesTyped'
  <1>0. /\ TablesTyped /\ RequestTyped(admin[r])
        /\ status \in [Versions -> Statuses] /\ attempt \in [Versions -> Attempt] /\ rev \in Nat
        /\ \A v \in Versions : attempt[v] \in Attempt
        /\ \A v \in Versions : attempt[v].status # "none" => status[v] # "none"
    BY DEF TypesInv, TablesTyped, RowsTogether, AdminTyped
  <1>1. CASE RequestPublication(r)
    <2> DEFINE a == [NoAttempt EXCEPT !.status = "in_progress"]
    <2>1. ASSUME NEW v \in Versions, status[v] # "none", BatchWrites(r, v) PROVE TablesTyped'
      <3>1. /\ status' = [status EXCEPT ![v] = "indexing"] /\ attempt' = [attempt EXCEPT ![v] = a]
            /\ UNCHANGED <<pointer, retiring>> /\ rev' = rev + 1
        BY <1>1, <2>1 DEF RequestPublication, BatchWrites
      <3>2. a \in Attempt
        BY Blanks, AttemptTypes DEF Running
      <3>3. rev' \in Nat /\ (Exists' <=> Exists)
        BY <1>0, <2>1, <3>1 DEF Exists, TablesTyped, Numbered
      <3> HIDE DEF a
      <3> QED BY <1>0, <2>1, <3>1, <3>2, <3>3, RowChanges DEF Statuses
    <2>2. Exists => Latest \in Versions /\ status[Latest] # "none"
      BY <1>0, LatestTypes
    <2>3. AdminAt(r, "batch") => admin[r].v \in Versions
      BY <1>0 DEF AdminAt, RequestTyped
    <2>4. UNCHANGED tables => TablesTyped'
      BY <1>0, TablesStay
    <2> QED BY <1>1, <2>1, <2>2, <2>3, <2>4 DEF RequestPublication, tables
  <1>2. CASE Resume(r)
    <2> DEFINE v == admin[r].v
               a == IF admin[r].reuse THEN [attempt[v] EXCEPT !.phase = "swap", !.status = "in_progress"]
                    ELSE [attempt[v] EXCEPT !.phase = "build", !.status = "in_progress",
                                            !.ref = FALSE, !.made = 0]
    <2>1. v \in Versions /\ attempt[v] \in Attempt
      BY <1>0, <1>2 DEF Resume, AdminAt, RequestTyped
    <2>2. CASE attempt[v].status \in Failed /\ ~ActiveAttempt
      <3>1. /\ attempt' = [attempt EXCEPT ![v] = a] /\ status' = [status EXCEPT ![v] = "indexing"]
            /\ UNCHANGED <<rev, pointer, retiring>>
        BY <1>2, <2>2 DEF Resume
      <3>2. a \in Attempt /\ status[v] # "none"
        BY <1>0, <2>1, <2>2, AttemptTypes DEF Failed
      <3> HIDE DEF v, a
      <3> QED BY <1>0, <2>1, <3>1, <3>2, RowChanges DEF Statuses, Exists
    <2>3. CASE ~(attempt[v].status \in Failed /\ ~ActiveAttempt)
      BY <1>0, <1>2, <2>3, TablesStay DEF Resume, tables
    <2> QED BY <2>2, <2>3
  <1>3. CASE FailEnqueue(r)
    <2> DEFINE v == admin[r].v
               a == [attempt[v] EXCEPT !.status = "index_failed"]
    <2>1. v \in Versions /\ attempt[v] \in Attempt
      BY <1>0, <1>3 DEF FailEnqueue, AdminAt, RequestTyped
    <2>2. CASE attempt[v].status # "none"
      <3>1. /\ attempt' = [attempt EXCEPT ![v] = a] /\ status' = [status EXCEPT ![v] = "index_failed"]
            /\ UNCHANGED <<rev, pointer, retiring>>
        BY <1>0, <1>3, <2>1, <2>2 DEF FailEnqueue
      <3>2. a \in Attempt /\ status[v] # "none"
        BY <1>0, <2>1, <2>2, AttemptTypes DEF Failed
      <3> HIDE DEF v, a
      <3> QED BY <1>0, <2>1, <3>1, <3>2, RowChanges DEF Statuses, Exists, Failed
    <2>3. CASE attempt[v].status = "none"
      BY <1>0, <1>3, <2>3, TablesStay DEF FailEnqueue, tables
    <2> QED BY <2>2, <2>3
  <1> QED BY <1>1, <1>2, <1>3

\* Retirement and deletion.
LEMMA RetirementTables ==
  ASSUME TypesInv, NEW r \in Admins, BeginRetirement(r) \/ CompleteRetirement(r) \/ Purge(r)
  PROVE  TablesTyped'
  <1>0. /\ TablesTyped /\ RequestTyped(admin[r])
        /\ status \in [Versions -> Statuses] /\ retiring \in [Versions -> {"none", "pending", "complete"}]
        /\ rev \in Nat /\ pointer \in 0..MaxVersion /\ Numbered /\ RowsTogether
    BY DEF TypesInv, TablesTyped, AdminTyped
  <1>1. CASE BeginRetirement(r)
    <2>1. ASSUME NEW v \in Versions, status[v] # "none", RetireWrites(r, v) PROVE TablesTyped'
      <3>1. /\ status' = [status EXCEPT ![v] = "retired"]
            /\ retiring' = [retiring EXCEPT ![v] = "pending"]
            /\ pointer' = 0 /\ rev' = rev + 1 /\ UNCHANGED attempt
        BY <1>1, <2>1 DEF BeginRetirement, RetireWrites
      <3>2. Exists
        BY <1>0, <2>1 DEF Numbered
      <3>3. /\ status' \in [Versions -> Statuses] /\ retiring' \in [Versions -> {"none", "pending", "complete"}]
            /\ \A u \in Versions : status'[u] # "none" <=> status[u] # "none"
        BY <1>0, <2>1, <3>1 DEF Statuses
      <3>4. Numbered' /\ RowsTogether'
        BY <1>0, <3>1, <3>2, <3>3 DEF Numbered, RowsTogether, Exists
      <3> QED BY <1>0, <3>1, <3>3, <3>4, VersionNumbers DEF TablesTyped
    <2>2. pointer # 0 => pointer \in Versions /\ status[pointer] # "none"
      BY <1>0, KnowledgePublicationAssumption DEF RowsTogether, Versions
    <2>3. admin[r].v # 0 => admin[r].v \in Versions
      BY <1>0, KnowledgePublicationAssumption DEF RequestTyped, Admin, Versions
    <2>4. UNCHANGED tables => TablesTyped'
      BY <1>0, TablesStay
    <2> QED BY <1>1, <2>1, <2>2, <2>3, <2>4 DEF BeginRetirement, MayRetire, tables
  <1>2. CASE CompleteRetirement(r)
    <2>1. retiring' \in [Versions -> {"none", "pending", "complete"}]
      BY <1>0, <1>2 DEF CompleteRetirement
    <2> QED BY <1>0, <1>2, <2>1 DEF CompleteRetirement, TablesTyped, Numbered, RowsTogether, Exists
  <1>3. CASE Purge(r)
    <2>1. /\ rev' = 0 /\ status' = [v \in Versions |-> "none"] /\ attempt' = [v \in Versions |-> NoAttempt]
          /\ pointer' = 0 /\ retiring' = [v \in Versions |-> "none"]
      BY <1>3 DEF Purge
    <2>2. Numbered' /\ RowsTogether'
      BY <2>1, Blanks DEF Numbered, RowsTogether, Exists
    <2> QED BY <2>1, <2>2, Blanks, VersionNumbers DEF TablesTyped, Statuses
  <1> QED BY <1>1, <1>2, <1>3

\* Runs and sweeps.
LEMMA RunTables ==
  ASSUME TypesInv, NEW w \in Workers,
         TransientFailure(w) \/ RecordArtifact(w) \/ Swap(w) \/ FailSwap(w) \/ CompleteCleanup(w)
  PROVE  TablesTyped'
  <1> DEFINE v == run[w].v
  <1>0. /\ TablesTyped /\ v \in Versions /\ run[w].content \in 0..MaxVersion
        /\ status \in [Versions -> Statuses] /\ attempt \in [Versions -> Attempt] /\ rev \in Nat
        /\ pointer \in 0..MaxVersion /\ attempt[v] \in Attempt
        /\ attempt[v].status # "none" => status[v] # "none"
        /\ status[v] \in Statuses
    BY DEF TypesInv, TablesTyped, RowsTogether, RunsTyped, RunTyped, Run, TransientFailure,
           RecordArtifact, Swap, FailSwap, CompleteCleanup, RunAt
  \* The attempt ends with a failure that its row shows.
  <1>1. ASSUME NEW s \in Failed, attempt[v].status # "none",
               attempt' = [attempt EXCEPT ![v].status = s], status' = [status EXCEPT ![v] = s],
               UNCHANGED <<rev, pointer, retiring>>
        PROVE  TablesTyped'
    <2> DEFINE a == [attempt[v] EXCEPT !.status = s]
    <2>1. a \in Attempt /\ attempt' = [attempt EXCEPT ![v] = a] /\ s \in Statuses /\ s # "none"
      BY <1>0, <1>1, AttemptTypes DEF Statuses, Failed
    <2> HIDE DEF a, v
    <2> QED BY <1>0, <1>1, <2>1, RowChanges DEF Exists
  \* The attempt goes on and its row stays.
  <1>2. ASSUME NEW a \in Attempt, attempt[v].status # "none", attempt' = [attempt EXCEPT ![v] = a],
               UNCHANGED <<rev, status, pointer, retiring>>
        PROVE  TablesTyped'
    <2>1. status' = [status EXCEPT ![v] = status[v]]
      BY <1>0, <1>2
    <2> HIDE DEF v
    <2> QED BY <1>0, <1>2, <2>1, RowChanges DEF Exists
  <1>3. CASE TransientFailure(w)
    <2>1. CASE BuildFails(w) /\ attempt[v].phase = "build" /\ attempt[v].status = "in_progress"
      <3>1. /\ attempt' = [attempt EXCEPT ![v].status = "index_failed"]
            /\ status' = [status EXCEPT ![v] = "index_failed"] /\ UNCHANGED <<rev, pointer, retiring>>
        BY <1>3, <2>1 DEF TransientFailure
      <3> QED BY <1>1, <2>1, <3>1 DEF Failed
    <2>2. CASE ~(BuildFails(w) /\ attempt[v].phase = "build" /\ attempt[v].status = "in_progress")
      <3>1. UNCHANGED tables
        BY <1>3, <2>2 DEF TransientFailure, tables
      <3> QED BY <1>0, <3>1, TablesStay
    <2> QED BY <2>1, <2>2
  <1>4. CASE RecordArtifact(w)
    <2> DEFINE a == [attempt[v] EXCEPT !.phase = "swap", !.ref = TRUE, !.made = run[w].content]
    <2>1. CASE attempt[v].phase = "build" /\ attempt[v].status = "in_progress"
      <3>1. a \in Attempt
        BY <1>0, AttemptTypes
      <3>2. attempt' = [attempt EXCEPT ![v] = a] /\ UNCHANGED <<rev, status, pointer, retiring>>
        BY <1>4, <2>1 DEF RecordArtifact
      <3> HIDE DEF a
      <3> QED BY <1>2, <2>1, <3>1, <3>2
    <2>2. CASE ~(attempt[v].phase = "build" /\ attempt[v].status = "in_progress")
      BY <1>0, <1>4, <2>2, TablesStay DEF RecordArtifact, tables
    <2> QED BY <2>1, <2>2
  <1>5. CASE FailSwap(w)
    <2>1. CASE Swapping(v)
      <3>1. /\ attempt' = [attempt EXCEPT ![v].status = "publication_failed"]
            /\ status' = [status EXCEPT ![v] = "publication_failed"] /\ UNCHANGED <<rev, pointer, retiring>>
        BY <1>5, <2>1 DEF FailSwap
      <3> QED BY <1>1, <2>1, <3>1 DEF Failed, Swapping
    <2>2. CASE ~Swapping(v)
      BY <1>0, <1>5, <2>2, TablesStay DEF FailSwap, tables
    <2> QED BY <2>1, <2>2
  <1>6. CASE CompleteCleanup(w)
    <2> DEFINE a == [attempt[v] EXCEPT !.phase = "complete", !.status = "published"]
    <2>1. CASE attempt[v].phase = "cleanup" /\ attempt[v].status = "cleanup_pending"
      <3>1. a \in Attempt
        BY <1>0, AttemptTypes
      <3>2. attempt' = [attempt EXCEPT ![v] = a] /\ UNCHANGED <<rev, status, pointer, retiring>>
        BY <1>6, <2>1 DEF CompleteCleanup
      <3> HIDE DEF a
      <3> QED BY <1>2, <2>1, <3>1, <3>2
    <2>2. CASE ~(attempt[v].phase = "cleanup" /\ attempt[v].status = "cleanup_pending")
      BY <1>0, <1>6, <2>2, TablesStay DEF CompleteCleanup, tables
    <2> QED BY <2>1, <2>2
  <1>7. CASE Swap(w)
    <2>1. CASE Swapping(v) /\ CommitPublication(w)
      <3> DEFINE old == pointer
                 phase == IF old = 0 THEN "complete" ELSE "cleanup"
                 state == IF old = 0 THEN "published" ELSE "cleanup_pending"
                 a == [attempt[v] EXCEPT !.phase = phase, !.status = state, !.old = old]
      <3>1. /\ status' = [u \in Versions |-> IF u = v THEN "published"
                                            ELSE IF u = Superseded(v) THEN "retired" ELSE status[u]]
            /\ pointer' = v /\ attempt' = [attempt EXCEPT ![v] = a] /\ UNCHANGED <<rev, retiring>>
        BY <2>1 DEF CommitPublication
      <3>2. phase \in Phases /\ state \in Running \cup Failed \cup {"none", "published"}
        BY DEF Phases, Running
      <3> HIDE DEF phase, state
      <3>3. a \in Attempt
        BY <1>0, <3>2 DEF Attempt
      <3> HIDE DEF a
      <3>4. status[v] # "none" /\ (pointer # 0 => status[pointer] # "none")
        BY <1>0, <2>1 DEF Swapping, TablesTyped, RowsTogether
      <3>5. /\ status' \in [Versions -> Statuses] /\ attempt' \in [Versions -> Attempt]
            /\ pointer' \in 0..MaxVersion
        BY <1>0, <3>1, <3>3, VersionNumbers DEF Statuses
      <3>6. \A u \in Versions : status'[u] # "none" <=> status[u] # "none"
        BY <1>0, <3>1, <3>4, VersionNumbers DEF Superseded
      <3>7. Exists
        BY <1>0, <3>4 DEF TablesTyped, Numbered
      <3>8. Numbered'
        BY <1>0, <3>1, <3>6, <3>7 DEF TablesTyped, Numbered, Exists
      <3>9. RowsTogether'
        BY <1>0, <3>1, <3>4, <3>6 DEF TablesTyped, RowsTogether
      <3> QED BY <1>0, <3>1, <3>5, <3>8, <3>9 DEF TablesTyped
    <2>2. CASE ~(Swapping(v) /\ CommitPublication(w))
      <3>1. UNCHANGED tables
        BY <1>7, <2>2 DEF Swap
      <3> QED BY <1>0, <3>1, TablesStay
    <2> QED BY <2>1, <2>2
  <1> QED BY <1>3, <1>4, <1>5, <1>6, <1>7

LEMMA SweepTables ==
  ASSUME TypesInv, SweepClear
  PROVE  TablesTyped'
  <1> DEFINE v == sweep.at
             a == [attempt[v] EXCEPT !.ref = FALSE, !.made = 0]
  <1>1. v \in Versions /\ TablesTyped
    BY VersionNumbers, KnowledgePublicationAssumption
    DEF SweepClear, TypesInv, QueueTyped, Versions
  <1>2. CASE attempt[v].status \in Failed
    <2>1. attempt' = [attempt EXCEPT ![v] = a] /\ UNCHANGED <<rev, status, pointer, retiring>>
      BY <1>2 DEF SweepClear
    <2>2. a \in Attempt /\ status[v] # "none" /\ status[v] \in Statuses
      BY <1>1, <1>2, AttemptTypes DEF TablesTyped, RowsTogether, Failed
    <2>3. status' = [status EXCEPT ![v] = status[v]] /\ rev' \in Nat
      BY <1>1, <2>1 DEF TablesTyped
    <2> HIDE DEF a, v
    <2> QED BY <1>1, <2>1, <2>2, <2>3, RowChanges DEF Exists
  <1>3. CASE attempt[v].status \notin Failed
    BY <1>1, <1>3, TablesStay DEF SweepClear, tables
  <1> QED BY <1>2, <1>3

LEMMA NewRequest ==
  ASSUME NEW v \in Versions, NEW pc \in {"batch", "retry", "enqueue", "clean"}
  PROVE  /\ RequestTyped([NoRequest EXCEPT !.pc = pc, !.v = v])
         /\ RequestTyped([NoRequest EXCEPT !.v = v, !.pc = pc])
  BY Blanks, VersionNumbers DEF RequestTyped, Admin

LEMMA RequestsTyped ==
  ASSUME TypesInv, NEW r \in Admins,
         \/ RequestPublication(r) \/ Delete(r) \/ Retire(r) \/ RequestDies(r) \/ AdminStep(r)
         \/ \E v \in Versions : EnsureEnqueued(r, v) \/ ResumeRetirementCleanup(r, v)
  PROVE  AdminTyped'
  <1>0. /\ AdminTyped /\ TablesTyped /\ RequestTyped(admin[r]) /\ admin[r] \in Admin
        /\ rev \in Nat /\ pointer \in 0..MaxVersion
    BY DEF TypesInv, TablesTyped, AdminTyped, RequestTyped
  <1>1. ASSUME NEW pc \in {"fail_enqueue", "complete", "purge"}, admin[r].pc \notin {"idle", "retire", "purge"},
               AdminGoes(r, [admin[r] EXCEPT !.pc = pc])
        PROVE  AdminTyped'
    <2> DEFINE k == [admin[r] EXCEPT !.pc = pc]
    <2>1. k \in Admin /\ k.v = admin[r].v /\ admin[r].v \in Versions
      BY <1>0, <1>1 DEF RequestTyped, Admin
    <2>2. AdminGoes(r, k)
      BY <1>1
    <2> HIDE DEF k
    <2>3. RequestTyped(k)
      BY <2>1 DEF RequestTyped
    <2> QED BY <1>0, <2>2, <2>3, RequestTypes
  <1>2. CASE RequestPublication(r)
    <2>1. ASSUME NEW v \in Versions, BatchWrites(r, v) PROVE AdminTyped'
      BY <1>0, <2>1, NewRequest, RequestTypes DEF BatchWrites
    <2>2. ASSUME NEW v \in Versions, NEW pc \in {"batch", "retry"},
                 AdminGoes(r, [NoRequest EXCEPT !.v = v, !.pc = pc])
          PROVE  AdminTyped'
      BY <1>0, <2>2, NewRequest, RequestTypes
    <2>3. Exists => Latest \in Versions
      BY <1>0, LatestTypes
    <2>4. AdminAt(r, "batch") => admin[r].v \in Versions
      BY <1>0 DEF AdminAt, RequestTyped
    <2>5. AdminEnds(r) => AdminTyped'
      BY <1>0, RequestsEnd
    <2> QED BY <1>2, <2>1, <2>2, <2>3, <2>4, <2>5 DEF RequestPublication
  <1>3. ASSUME NEW pc \in {"retire", "purge"}, NEW b \in BOOLEAN,
               AdminGoes(r, [NoRequest EXCEPT !.pc = pc, !.rev = rev, !.purge = b])
        PROVE  AdminTyped'
    <2> DEFINE k == [NoRequest EXCEPT !.pc = pc, !.rev = rev, !.purge = b]
    <2>1. k \in Admin /\ k.pc = pc
      BY <1>0, Blanks DEF Admin
    <2> HIDE DEF k
    <2>2. RequestTyped(k)
      BY <2>1 DEF RequestTyped
    <2>3. AdminGoes(r, k)
      BY <1>3 DEF k
    <2> QED BY <1>0, <2>2, <2>3, RequestTypes
  <1>4. CASE Delete(r)
    <2>1. \/ AdminGoes(r, [NoRequest EXCEPT !.pc = "retire", !.rev = rev, !.purge = TRUE])
          \/ AdminGoes(r, [NoRequest EXCEPT !.pc = "purge", !.rev = rev, !.purge = TRUE])
      BY <1>4 DEF Delete
    <2> QED BY <1>3, <2>1
  <1>5. CASE Retire(r)
    <2> DEFINE k == [NoRequest EXCEPT !.pc = "retire", !.rev = rev]
    <2>1. k \in Admin /\ k.pc = "retire"
      BY <1>0, Blanks DEF Admin
    <2>2. AdminGoes(r, k)
      BY <1>5 DEF Retire
    <2> HIDE DEF k
    <2>3. RequestTyped(k)
      BY <2>1 DEF RequestTyped
    <2> QED BY <1>0, <2>2, <2>3, RequestTypes
  <1>6. CASE RequestDies(r) \/ Purge(r) \/ Enqueue(r) \/ FailEnqueue(r)
    BY <1>0, <1>6, RequestsEnd DEF RequestDies, Purge, Enqueue, FailEnqueue
  <1>7. ASSUME NEW v \in Versions, EnsureEnqueued(r, v) \/ ResumeRetirementCleanup(r, v)
        PROVE  AdminTyped'
    BY <1>0, <1>7, NewRequest, RequestTypes DEF EnsureEnqueued, ResumeRetirementCleanup
  <1>8. CASE RetryRead(r)
    <2> DEFINE reuse == Reusable(admin[r].v)
               k == [admin[r] EXCEPT !.pc = "resume", !.reuse = reuse]
    <2>1. admin[r].v \in Versions
      BY <1>0, <1>8 DEF RetryRead, AdminAt, RequestTyped
    <2>2. attempt[admin[r].v].ref \in BOOLEAN
      BY <1>0, <2>1 DEF TablesTyped, Attempt
    <2>3. reuse \in BOOLEAN
      BY <2>2 DEF Reusable
    <2> HIDE DEF reuse
    <2>4. k \in Admin /\ k.v = admin[r].v
      BY <1>0, <2>3 DEF Admin
    <2>5. AdminGoes(r, k) \/ AdminEnds(r)
      BY <1>8 DEF RetryRead, reuse
    <2> HIDE DEF k
    <2>6. RequestTyped(k)
      BY <2>1, <2>4 DEF RequestTyped
    <2> QED BY <1>0, <2>5, <2>6, RequestTypes, RequestsEnd
  <1>9. CASE Resume(r)
    <2>1. admin[r].v \in Versions
      BY <1>0, <1>9 DEF Resume, AdminAt, RequestTyped
    <2>2. AdminGoes(r, [NoRequest EXCEPT !.pc = "enqueue", !.v = admin[r].v]) \/ AdminEnds(r)
      BY <1>9 DEF Resume
    <2> QED BY <1>0, <2>1, <2>2, NewRequest, RequestTypes, RequestsEnd
  <1>10. CASE EnqueueRaises(r)
    BY <1>1, <1>10 DEF EnqueueRaises, AdminAt
  <1>11. CASE BeginRetirement(r)
    <2>1. ASSUME NEW v \in Versions, RetireWrites(r, v) PROVE AdminTyped'
      <3> DEFINE k == [admin[r] EXCEPT !.pc = "clean", !.v = v]
      <3>1. k \in Admin /\ k.v = v
        BY <1>0, VersionNumbers DEF Admin
      <3>2. AdminGoes(r, k)
        BY <2>1 DEF RetireWrites
      <3> HIDE DEF k
      <3> QED BY <1>0, <3>1, <3>2, RequestTypes DEF RequestTyped
    <2>2. ASSUME admin[r].pc = "retire", AdminGoes(r, [admin[r] EXCEPT !.v = pointer]) PROVE AdminTyped'
      <3> DEFINE k == [admin[r] EXCEPT !.v = pointer]
      <3>1. k \in Admin /\ k.pc = "retire"
        BY <1>0, <2>2 DEF Admin
      <3>2. AdminGoes(r, k)
        BY <2>2
      <3> HIDE DEF k
      <3> QED BY <1>0, <3>1, <3>2, RequestTypes DEF RequestTyped
    <2>3. MayRetire(r) => pointer \in Versions
      BY <1>0, KnowledgePublicationAssumption DEF MayRetire, Versions
    <2>4. admin[r].v # 0 => admin[r].v \in Versions
      BY <1>0, KnowledgePublicationAssumption DEF Admin, Versions
    <2>5. AdminEnds(r) => AdminTyped'
      BY <1>0, RequestsEnd
    <2> QED BY <1>11, <2>1, <2>2, <2>3, <2>4, <2>5 DEF BeginRetirement, AdminAt
  <1>12. CASE RetirementCleanup(r)
    BY <1>0, <1>1, <1>12, RequestsEnd DEF RetirementCleanup, AdminAt, AfterCleanup
  <1>13. CASE CompleteRetirement(r)
    BY <1>0, <1>1, <1>13, RequestsEnd DEF CompleteRetirement, AdminAt, AfterCleanup
  <1> QED
    BY <1>2, <1>4, <1>5, <1>6, <1>7, <1>8, <1>9, <1>10, <1>11, <1>12, <1>13 DEF AdminStep

LEMMA RunsAreTyped ==
  ASSUME TypesInv, NEW w \in Workers,
         RunStep(w) \/ WorkerDies(w) \/ \E v \in Versions : Deliver(w, v)
  PROVE  RunsTyped'
  <1>0. RunsTyped /\ run[w] \in Run /\ TablesTyped
    BY DEF TypesInv, RunsTyped
  <1>1. CASE WorkerDies(w) \/ Report(w)
    BY <1>0, <1>1, RunTypes, Blanks DEF WorkerDies, Report, RunTyped
  <1>2. ASSUME NEW v \in Versions, Deliver(w, v) PROVE RunsTyped'
    <2> DEFINE last == job[v].claims + 1 >= MaxClaims
               k == [NoRun EXCEPT !.pc = "read", !.v = v, !.last = last]
    <2>1. last \in BOOLEAN
      OBVIOUS
    <2>2. RunGoes(w, k)
      BY <1>2 DEF Deliver
    <2> HIDE DEF last
    <2>3. k \in Run /\ k.v = v
      BY <2>1, NewRun
    <2> HIDE DEF k
    <2> QED BY <1>0, <2>2, <2>3, RunTypes DEF RunTyped
  <1>3. ASSUME run[w].pc # "idle", NEW k \in Run, k.v = run[w].v, RunGoes(w, k) PROVE RunsTyped'
    BY <1>0, <1>3, RunTypes DEF RunsTyped, RunTyped
  <1>4. CASE Read(w)
    <2> DEFINE a == attempt[run[w].v]
               k == [run[w] EXCEPT !.pc = "cleanup", !.content = a.old]
    <2>1. run[w].pc # "idle" /\ a.old \in 0..MaxVersion
      BY <1>0, <1>4 DEF Read, RunAt, RunsTyped, RunTyped, TablesTyped, Attempt
    <2>2. k \in Run /\ k.v = run[w].v
      BY <1>0, <2>1 DEF Run
    <2>3. \/ RunGoes(w, k) \/ RunRaises(w) \/ RunStage(w, "item") \/ RunStage(w, "swap")
          \/ \E b \in BOOLEAN : RunReports(w, b)
      BY <1>4 DEF Read
    <2> HIDE DEF k
    <2> QED BY <1>0, <1>3, <2>1, <2>2, <2>3, RunMoves
  <1>5. CASE ReadItem(w)
    <2> DEFINE k == [run[w] EXCEPT !.pc = "build", !.content = Latest]
    <2>1. CASE Exists
      <3>1. Latest \in 0..MaxVersion
        BY <1>0, <2>1, LatestTypes, VersionNumbers
      <3>2. k \in Run /\ k.v = run[w].v
        BY <1>0, <3>1 DEF Run
      <3>3. RunGoes(w, k) /\ run[w].pc # "idle"
        BY <1>5, <2>1 DEF ReadItem, RunAt
      <3> HIDE DEF k
      <3> QED BY <1>3, <3>2, <3>3
    <2>2. CASE ~Exists
      BY <1>0, <1>5, <2>2, RunMoves DEF ReadItem, RunAt
    <2> QED BY <2>1, <2>2
  <1>6. CASE Build(w)
    BY <1>0, <1>6, RunMoves DEF Build, RunAt
  <1>7. CASE TransientFailure(w)
    BY <1>0, <1>7, RunMoves DEF TransientFailure, RunAt
  <1>8. ASSUME NEW n \in 1..2, run[w].pc # "idle", RunGoes(w, [run[w] EXCEPT !.pc = "read", !.stage = n])
        PROVE  RunsTyped'
    <2> DEFINE k == [run[w] EXCEPT !.pc = "read", !.stage = n]
    <2>1. n \in 0..2
      OBVIOUS
    <2>2. k \in Run /\ k.v = run[w].v
      BY <1>0, <2>1 DEF Run
    <2>3. RunGoes(w, k)
      BY <1>8
    <2> HIDE DEF k
    <2> QED BY <1>3, <1>8, <2>2, <2>3
  <1>9. CASE RecordArtifact(w)
    BY <1>0, <1>8, <1>9, RunMoves DEF RecordArtifact, RunAt
  <1>10. CASE Swap(w)
    BY <1>0, <1>8, <1>10, RunMoves DEF Swap, RunAt, CommitPublication
  <1>11. CASE FailSwap(w)
    BY <1>0, <1>11, RunMoves DEF FailSwap, RunAt
  <1>12. CASE Cleanup(w)
    BY <1>0, <1>12, RunMoves DEF Cleanup, RunAt
  <1>13. CASE CompleteCleanup(w)
    BY <1>0, <1>13, RunMoves DEF CompleteCleanup, RunAt
  <1> QED BY <1>1, <1>2, <1>4, <1>5, <1>6, <1>7, <1>9, <1>10, <1>11, <1>12, <1>13 DEF RunStep

JobRow == [status : {"absent", "open", "settled"}, claims : Nat]

LEMMA JobChanges ==
  ASSUME QueueTyped, NEW v \in Versions,
         \/ InsertJob(v)
         \/ job' = [job EXCEPT ![v].claims = @ + 1]
         \/ job' = [job EXCEPT ![v].status = "settled"]
         \/ UNCHANGED job
  PROVE  job' \in [Versions -> JobRow]
  <1>1. job[v] \in JobRow /\ job[v].claims + 1 \in Nat /\ job \in [Versions -> JobRow]
    BY DEF QueueTyped, JobRow
  <1>2. /\ [job[v] EXCEPT !.status = "open"] \in JobRow
        /\ [job[v] EXCEPT !.status = "settled"] \in JobRow
        /\ [job[v] EXCEPT !.claims = @ + 1] \in JobRow
    BY <1>1 DEF JobRow
  <1>3. \/ job' = [job EXCEPT ![v] = [job[v] EXCEPT !.status = "open"]]
        \/ job' = [job EXCEPT ![v] = [job[v] EXCEPT !.status = "settled"]]
        \/ job' = [job EXCEPT ![v] = [job[v] EXCEPT !.claims = @ + 1]]
        \/ job' = job
    BY <1>1 DEF InsertJob
  <1> QED BY <1>1, <1>2, <1>3

LEMMA RequestQueue ==
  ASSUME TypesInv, NEW r \in Admins,
         \/ RequestPublication(r) \/ Delete(r) \/ Retire(r) \/ RequestDies(r) \/ AdminStep(r)
         \/ \E v \in Versions : EnsureEnqueued(r, v) \/ ResumeRetirementCleanup(r, v)
  PROVE  QueueTyped'
  <1>0. QueueTyped /\ admin[r].v \in 0..MaxVersion /\ RequestTyped(admin[r]) /\ 0 \in 0..MaxVersion
    BY VersionNumbers DEF TypesInv, AdminTyped, Admin
  <1>1. UNCHANGED <<sweep, newest>> /\ faults' \in 0..MaxFaults
    BY <1>0, FaultTypes
    DEF QueueTyped, RequestPublication, Delete, Retire, RequestDies, AdminStep, EnsureEnqueued,
        ResumeRetirementCleanup, RetryRead, Resume, Enqueue, EnqueueRaises, FailEnqueue,
        BeginRetirement, RetirementCleanup, CompleteRetirement, Purge
  <1>2. docs' \in [Versions -> 0..MaxVersion]
    BY <1>0
    DEF QueueTyped, RequestPublication, Delete, Retire, RequestDies, AdminStep, EnsureEnqueued,
        ResumeRetirementCleanup, RetryRead, Resume, Enqueue, EnqueueRaises, FailEnqueue,
        BeginRetirement, RetirementCleanup, CompleteRetirement, Purge
  <1>3. CASE UNCHANGED job
    BY <1>0, <1>1, <1>2, <1>3 DEF QueueTyped
  <1>4. CASE Enqueue(r) \/ EnqueueRaises(r)
    <2>1. admin[r].v \in Versions /\ (InsertJob(admin[r].v) \/ UNCHANGED job)
      BY <1>0, <1>4 DEF Enqueue, EnqueueRaises, AdminAt, RequestTyped
    <2>2. job' \in [Versions -> JobRow]
      BY <1>0, <2>1, JobChanges
    <2> QED BY <1>0, <1>1, <1>2, <2>2 DEF QueueTyped, JobRow
  <1> QED
    BY <1>3, <1>4
    DEF RequestPublication, Delete, Retire, RequestDies, AdminStep, EnsureEnqueued,
        ResumeRetirementCleanup, RetryRead, Resume, FailEnqueue, BeginRetirement,
        RetirementCleanup, CompleteRetirement, Purge

LEMMA RunQueue ==
  ASSUME TypesInv, NEW w \in Workers,
         RunStep(w) \/ WorkerDies(w) \/ \E v \in Versions : Deliver(w, v)
  PROVE  QueueTyped'
  <1>0. /\ QueueTyped /\ RunTyped(run[w]) /\ run[w] \in Run /\ run[w].content \in 0..MaxVersion
        /\ run[w].v \in 0..MaxVersion /\ 0 \in 0..MaxVersion
    BY VersionNumbers DEF TypesInv, RunsTyped, RunTyped, Run
  <1>1. UNCHANGED sweep /\ faults' \in 0..MaxFaults /\ newest' \in 0..MaxVersion
    BY <1>0, FaultTypes
    DEF QueueTyped, RunStep, WorkerDies, Deliver, Read, ReadItem, Build, TransientFailure,
        RecordArtifact, Swap, CommitPublication, FailSwap, Cleanup, CompleteCleanup, Report
  <1>2. docs' \in [Versions -> 0..MaxVersion]
    BY <1>0
    DEF QueueTyped, RunStep, WorkerDies, Deliver, Read, ReadItem, Build, TransientFailure,
        RecordArtifact, Swap, FailSwap, Cleanup, CompleteCleanup, Report
  <1>3. CASE UNCHANGED job
    BY <1>0, <1>1, <1>2, <1>3 DEF QueueTyped
  <1>4. CASE Report(w)
    <2>1. run[w].v \in Versions
      BY <1>0, <1>4 DEF Report, RunAt, RunTyped
    <2>2. UNCHANGED job \/ job' = [job EXCEPT ![run[w].v].status = "settled"]
      BY <1>4 DEF Report
    <2>3. job' \in [Versions -> JobRow]
      BY <1>0, <2>1, <2>2, JobChanges
    <2> QED BY <1>0, <1>1, <1>2, <2>3 DEF QueueTyped, JobRow
  <1>5. ASSUME NEW v \in Versions, Deliver(w, v) PROVE QueueTyped'
    <2>1. job' \in [Versions -> JobRow]
      BY <1>0, <1>5, JobChanges DEF Deliver
    <2> QED BY <1>0, <1>1, <1>2, <2>1 DEF QueueTyped, JobRow
  <1> QED
    BY <1>3, <1>4, <1>5
    DEF RunStep, WorkerDies, Read, ReadItem, Build, TransientFailure, RecordArtifact, Swap,
        FailSwap, Cleanup, CompleteCleanup

LEMMA SweepTypes == TypesInv /\ SweepNext => TypesInv'
  <1> SUFFICES ASSUME TypesInv, SweepNext PROVE TypesInv'
    OBVIOUS
  <1>0. TablesTyped /\ QueueTyped /\ UNCHANGED <<job, admin, run, newest>>
    BY DEF TypesInv, SweepNext, SweepList, SweepClear, SweepDies, SweepClean
  <1>1. AdminTyped' /\ RunsTyped'
    BY <1>0 DEF TypesInv, AdminTyped, RunsTyped
  <1>2. TablesTyped'
    BY <1>0, TablesStay, SweepTables DEF SweepNext, SweepList, SweepDies, SweepClean
  <1>3. docs' \in [Versions -> 0..MaxVersion] /\ faults' \in 0..MaxFaults
    BY <1>0, FaultTypes, VersionNumbers
    DEF QueueTyped, SweepNext, SweepList, SweepClear, SweepDies, SweepClean
  <1> DEFINE Sweeps == [todo : SUBSET Versions, at : 0..MaxVersion]
  <1>4. sweep \in Sweeps /\ sweep.todo \subseteq Versions
    BY <1>0 DEF QueueTyped
  <1>5. ASSUME SweepList PROVE sweep' \in Sweeps
    BY <1>5, VersionNumbers DEF SweepList
  <1>6. ASSUME SweepClear PROVE sweep' \in Sweeps
    BY <1>4, <1>6, VersionNumbers DEF SweepClear
  <1>7. ASSUME SweepDies PROVE sweep' \in Sweeps
    BY <1>7, Blanks DEF SweepDies
  <1>8. ASSUME NEW v \in Versions, SweepClean(v) PROVE sweep' \in Sweeps
    <2>1. /\ [sweep EXCEPT !.at = v] \in Sweeps
          /\ [sweep EXCEPT !.todo = @ \ {v}] \in Sweeps
      BY <1>4, VersionNumbers
    <2> QED BY <1>8, <2>1 DEF SweepClean
  <1>9. sweep' \in Sweeps
    BY <1>5, <1>6, <1>7, <1>8 DEF SweepNext
  <1>10. QueueTyped'
    BY <1>0, <1>3, <1>9 DEF QueueTyped
  <1> QED BY <1>1, <1>2, <1>10 DEF TypesInv

LEMMA TypesStep == TypesInv /\ [Next]_vars => TypesInv'
  <1> SUFFICES ASSUME TypesInv, [Next]_vars PROVE TypesInv'
    OBVIOUS
  <1>1. CASE UNCHANGED vars
    BY <1>1, TablesStay DEF vars, TypesInv, AdminTyped, RunsTyped, QueueTyped
  <1>2. ASSUME NEW r \in Admins, AdminNext(r) PROVE TypesInv'
    <2>1. UNCHANGED run
      BY <1>2
      DEF AdminNext, RequestPublication, Delete, Retire, RequestDies, AdminStep, EnsureEnqueued,
          ResumeRetirementCleanup, RetryRead, Resume, Enqueue, EnqueueRaises, FailEnqueue,
          BeginRetirement, RetirementCleanup, CompleteRetirement, Purge
    <2>2. UNCHANGED tables \/ TablesTyped'
      BY <1>2, RequestTables, RetirementTables
      DEF AdminNext, Delete, Retire, RequestDies, AdminStep, EnsureEnqueued,
          ResumeRetirementCleanup, RetryRead, Enqueue, EnqueueRaises, RetirementCleanup
    <2>3. AdminTyped' /\ QueueTyped'
      BY <1>2, RequestsTyped, RequestQueue DEF AdminNext
    <2> QED BY <2>1, <2>2, <2>3, TablesStay DEF TypesInv, RunsTyped
  <1>3. ASSUME NEW w \in Workers, WorkerNext(w) PROVE TypesInv'
    <2>1. UNCHANGED admin
      BY <1>3
      DEF WorkerNext, RunStep, WorkerDies, Deliver, Read, ReadItem, Build, TransientFailure,
          RecordArtifact, Swap, FailSwap, Cleanup, CompleteCleanup, Report
    <2>2. UNCHANGED tables \/ TablesTyped'
      BY <1>3, RunTables
      DEF WorkerNext, RunStep, WorkerDies, Deliver, Read, ReadItem, Build, Cleanup, Report
    <2>3. RunsTyped' /\ QueueTyped'
      BY <1>3, RunsAreTyped, RunQueue DEF WorkerNext
    <2> QED BY <2>1, <2>2, <2>3, TablesStay DEF TypesInv, AdminTyped
  <1> QED BY <1>1, <1>2, <1>3, ReviseTypes, SweepTypes DEF Next

\* The tables, the index, the queue, and what requests, runs and sweeps hold
\* between their transactions keep to their types, with no condition on who
\* overtakes whom: the revision stays a number, a version that has an attempt
\* or that the pointer names has a row, and every request and every run is at
\* a version there is (modules/knowledge_publication).
THEOREM PublicationTypes == Spec => []TypeOK
  <1>1. TypesInv => TypeOK
    BY DEF TypesInv, TablesTyped, AdminTyped, RunsTyped, QueueTyped, TypeOK, Statuses
  <1> QED BY <1>1, TypesStart, TypesStep, PTL DEF Spec
=============================================================================
