-------------------------- MODULE OptimizationLab --------------------------
(***************************************************************************)
(* Knowledge change candidates of one store: modules/optimization_lab.     *)
(* A simulation derives a candidate from voice evidence; operators edit,   *)
(* abandon and confirm it.  Every request reads the candidate in one       *)
(* transaction and writes the whole record back in another, and a          *)
(* confirmation calls knowledge publication in between; an item of the     *)
(* knowledge base is here its row revision and its content.  How that item *)
(* is revised depends on the backend: SQLite begins the transaction with   *)
(* BEGIN IMMEDIATE, PostgreSQL reads and writes at READ COMMITTED.         *)
(***************************************************************************)
EXTENDS Naturals, FiniteSets

CONSTANTS
  Operators,       \* concurrent requests
  MaxCandidates,   \* bound on the simulations that yield a candidate
  Contents,        \* proposed contents
  MaxRevision,     \* bound on the revisions of the item
  OnSqlite         \* TRUE: SQLite, whose revise_draft nobody can come into

ASSUME LabAssumption ==
  /\ Contents # {}
  /\ MaxCandidates \in Nat /\ MaxRevision \in Nat \ {0}
  /\ OnSqlite \in BOOLEAN

VARIABLES
  cand,      \* optimization_knowledge_candidates
  made,      \* number of candidates
  itemRev,   \* knowledge_items.row_revision of the item a candidate updates
  created,   \* contents of the items that candidates created
  op,        \* requests between two steps
  passed,    \* history: contents that passed the offline evaluation, by candidate
  applied    \* history: what confirmations wrote to the knowledge base

labVars == <<cand, made, itemRev, created, op, passed, applied>>

Candidates == 1..MaxCandidates
Record == [status : {"none", "pending", "abandoned", "stale", "confirmed"},
           action : {"update", "create"}, rev : 0..MaxRevision,
           content : Contents, accepted : BOOLEAN]
Request == [pc : {"idle", "analyze", "save", "edit", "abandon", "item", "duplicate",
                  "draft", "revise", "publish", "record"},
            c : 0..MaxCandidates, rec : Record]

LabTypeOK ==
  /\ cand \in [Candidates -> Record]
  /\ made \in 0..MaxCandidates
  /\ itemRev \in 1..MaxRevision
  /\ created \subseteq Contents
  /\ op \in [Operators -> Request]
  /\ passed \subseteq Candidates \X Contents
  /\ applied \subseteq [c : Candidates, content : Contents, rev : 1..MaxRevision]

NoRecord == [status |-> "none", action |-> "create", rev |-> 0,
             content |-> CHOOSE x \in Contents : TRUE, accepted |-> FALSE]
NoLabRequest == [pc |-> "idle", c |-> 0, rec |-> NoRecord]

LabInit ==
  /\ cand = [c \in Candidates |-> NoRecord]
  /\ made = 0
  /\ itemRev = 1
  /\ created = {}
  /\ op = [o \in Operators |-> NoLabRequest]
  /\ passed = {}
  /\ applied = {}

At(o, pc) == op[o].pc = pc
Goto(o, pc) == op' = [op EXCEPT ![o].pc = pc]
RequestEnds(o) == op' = [op EXCEPT ![o] = NoLabRequest]
UpdateCandidate(o, rec) == cand' = [cand EXCEPT ![op[o].c] = rec]

\* Authors revise and publish the item through the knowledge pages.
Author ==
  /\ itemRev < MaxRevision
  /\ itemRev' = itemRev + 1
  /\ UNCHANGED <<cand, made, created, op, passed, applied>>

\* simulate is refused while a candidate is pending.
Simulate(o) ==
  /\ At(o, "idle")
  /\ \A c \in Candidates : cand[c].status # "pending"
  /\ Goto(o, "analyze")
  /\ UNCHANGED <<cand, made, itemRev, created, passed, applied>>

\* The analysis accepts its findings and finds an item they touch, or none.
BuildCandidate(o, action, content) ==
  /\ At(o, "analyze")
  /\ op' = [op EXCEPT ![o].pc = "save",
            ![o].rec = [status |-> "pending", action |-> action, content |-> content,
                        rev |-> IF action = "update" THEN itemRev ELSE 0, accepted |-> TRUE]]
  /\ UNCHANGED <<cand, made, itemRev, created, passed, applied>>

CreateCandidate(o) ==
  /\ At(o, "save")
  /\ made < MaxCandidates
  /\ made' = made + 1
  /\ cand' = [cand EXCEPT ![made + 1] = op[o].rec]
  /\ passed' = passed \cup {<<made + 1, op[o].rec.content>>}
  /\ RequestEnds(o)
  /\ UNCHANGED <<itemRev, created, applied>>

\* The first transaction of an edit and of an abandonment: only a pending
\* candidate is changed.
OpenCandidate(o, c, pc) ==
  /\ At(o, "idle")
  /\ cand[c].status = "pending"
  /\ op' = [op EXCEPT ![o] = [pc |-> pc, c |-> c, rec |-> cand[c]]]
  /\ UNCHANGED <<cand, made, itemRev, created, passed, applied>>

\* Mutant of Verdict: an edit keeps the acceptance of what it replaces.
VerdictKept(rec, evaluated) == rec.accepted

\* An edited content is evaluated again.
Verdict(rec, evaluated) == evaluated

SaveEdit(o, content, evaluated) ==
  /\ At(o, "edit")
  /\ UpdateCandidate(o, [op[o].rec EXCEPT !.content = content,
                                          !.accepted = Verdict(op[o].rec, evaluated)])
  /\ passed' = IF evaluated THEN passed \cup {<<op[o].c, content>>} ELSE passed
  /\ RequestEnds(o)
  /\ UNCHANGED <<made, itemRev, created, applied>>

SaveAbandon(o) ==
  /\ At(o, "abandon")
  /\ UpdateCandidate(o, [op[o].rec EXCEPT !.status = "abandoned"])
  /\ RequestEnds(o)
  /\ UNCHANGED <<made, itemRev, created, passed, applied>>

\* confirm_candidate: what it read is what it goes on with.
ConfirmCandidate(o, c) ==
  /\ cand[c].accepted
  /\ OpenCandidate(o, c, IF cand[c].action = "update" THEN "item" ELSE "duplicate")

CheckItem(o) ==
  /\ At(o, "item")
  /\ IF itemRev # op[o].rec.rev
       THEN UpdateCandidate(o, [op[o].rec EXCEPT !.status = "stale"]) /\ RequestEnds(o)
       ELSE Goto(o, "duplicate") /\ UNCHANGED cand
  /\ UNCHANGED <<made, itemRev, created, passed, applied>>

\* _duplicate_warning: equal content is refused, and similar content is.
CheckDuplicate(o) ==
  /\ At(o, "duplicate")
  /\ \/ op[o].rec.content \notin created /\ Goto(o, "draft")
     \/ RequestEnds(o)
  /\ UNCHANGED <<cand, made, itemRev, created, passed, applied>>

\* revise_draft compares again, in the transaction that writes.  On PostgreSQL
\* the comparison is a plain SELECT and the UPDATE has no condition: the request
\* rests in between, at "revise", and writes whatever came since.
RevisionMatches(rec) == itemRev = rec.rev
MayWrite(o) == At(o, "revise") \/ (OnSqlite /\ RevisionMatches(op[o].rec))

Draft(o) ==
  LET rec == op[o].rec
      written == /\ applied' = applied \cup {[c |-> op[o].c, content |-> rec.content, rev |-> itemRev]}
                 /\ Goto(o, "publish") IN
  /\ op[o].pc \in {"draft", "revise"}
  /\ itemRev < MaxRevision
  /\ \/ /\ rec.action = "create"
        /\ created' = created \cup {rec.content}
        /\ written
        /\ UNCHANGED itemRev
     \/ /\ rec.action = "update"
        /\ MayWrite(o)
        /\ itemRev' = itemRev + 1
        /\ written
        /\ UNCHANGED created
     \/ /\ rec.action = "update"
        /\ ~MayWrite(o)
        /\ IF RevisionMatches(rec) THEN Goto(o, "revise") ELSE RequestEnds(o)
        /\ UNCHANGED <<itemRev, created, applied>>
  /\ UNCHANGED <<cand, made, passed>>

\* request_publication begins an attempt, skips the item, or raises: the
\* candidate then stays as it is.
PublishCandidate(o) ==
  /\ At(o, "publish")
  /\ itemRev < MaxRevision
  /\ \/ itemRev' = itemRev + 1 /\ op[o].rec.action = "update" /\ Goto(o, "record")
     \/ UNCHANGED itemRev /\ (Goto(o, "record") \/ RequestEnds(o))
  /\ UNCHANGED <<cand, made, created, passed, applied>>

RecordConfirmed(o) ==
  /\ At(o, "record")
  /\ UpdateCandidate(o, [op[o].rec EXCEPT !.status = "confirmed"])
  /\ RequestEnds(o)
  /\ UNCHANGED <<made, itemRev, created, passed, applied>>

RequestDies(o) ==
  /\ ~At(o, "idle")
  /\ RequestEnds(o)
  /\ UNCHANGED <<cand, made, itemRev, created, passed, applied>>

LabNext ==
  \/ Author
  \/ \E o \in Operators :
       \/ Simulate(o) \/ CreateCandidate(o) \/ SaveAbandon(o) \/ RequestDies(o)
       \/ CheckItem(o) \/ CheckDuplicate(o) \/ Draft(o) \/ PublishCandidate(o) \/ RecordConfirmed(o)
       \/ \E a \in {"update", "create"}, x \in Contents : BuildCandidate(o, a, x)
       \/ \E x \in Contents, e \in BOOLEAN : SaveEdit(o, x, e)
       \/ \E c \in Candidates : OpenCandidate(o, c, "edit") \/ OpenCandidate(o, c, "abandon") \/ ConfirmCandidate(o, c)

LabSpec == LabInit /\ [][LabNext]_labVars

-----------------------------------------------------------------------------
\* However edits, abandonments and confirmations overlap, what a confirmation
\* writes to the knowledge base passed the offline evaluation as it stands.
AppliedWasAccepted == \A w \in applied : <<w.c, w.content>> \in passed

\* A candidate that updates an item is written at most once, also when a
\* confirmation dies before it is recorded, two overlap, or an edit brings the
\* candidate back.  On PostgreSQL two confirmations that overlap can write it twice.
UpdateAppliedOnce ==
  \A c \in Candidates :
    cand[c].action = "update" => Cardinality({w \in applied : w.c = c}) <= 1

\* A candidate reaches the knowledge base as it was accepted, and once, where
\* revise_draft is one step.
AppliedAsAccepted == AppliedWasAccepted /\ UpdateAppliedOnce
=============================================================================
