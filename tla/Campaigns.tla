----------------------------- MODULE Campaigns -----------------------------
(***************************************************************************)
(* One marketing campaign: modules/promotion/application.py over           *)
(* repositories/campaign_repository.py.  A campaign is a list of versions, *)
(* each with a status and a content, that only grows; what the kiosk shows *)
(* is a projection written by another transaction.  publish_campaign is a  *)
(* chain of such steps, and each may be the last: a request can die, and   *)
(* its audit entry, whose failure ends it, comes after every one of them.  *)
(***************************************************************************)
EXTENDS Naturals, Sequences

CONSTANTS
  Editors,       \* concurrent requests of operators
  Designs,       \* contents of a campaign
  MaxVersions,   \* bound on the versions
  Overtaking     \* TRUE: a projection can be overtaken by another request

ASSUME CampaignsAssumption ==
  /\ Designs # {}
  /\ MaxVersions \in Nat \ {0}
  /\ Overtaking \in BOOLEAN

VARIABLES
  versions,   \* campaign_versions
  air,        \* the promotion that project_legacy wrote for the kiosk
  missed,     \* history: the last version to be projected was not, its request ended
  edit        \* requests between two transactions

campaignVars == <<versions, air, missed, edit>>

Statuses == {"draft", "review", "scheduled", "active", "paused", "ended", "archived"}
\* CAMPAIGN_TRANSITIONS
Successors(s) ==
  CASE s = "draft" -> {"review", "archived"}
    [] s = "review" -> {"draft", "scheduled", "active", "archived"}
    [] s = "scheduled" -> {"active", "paused", "ended"}
    [] s = "active" -> {"paused", "ended"}
    [] s = "paused" -> {"active", "ended", "archived", "draft"}
    [] s = "ended" -> {"archived", "draft"}
    [] s = "archived" -> {}
Editable == {"draft", "review", "paused", "ended"}
Publishable == {"draft", "review"}
Projected == {"scheduled", "active", "paused", "ended", "archived"}
OnAir == {"scheduled", "active"}

Version == [status : Statuses, design : Designs]
NoVersion == [status |-> "draft", design |-> CHOOSE d \in Designs : TRUE]
NoEdit == [pc |-> "idle", expected |-> 0, new |-> NoVersion, plan |-> <<>>]
CurrentVersion == versions[Len(versions)]

CampaignsTypeOK ==
  /\ versions \in Seq(Version) /\ Len(versions) \in 1..MaxVersions
  /\ air \in [version : 0..MaxVersions, on : BOOLEAN]
  /\ missed \in BOOLEAN
  /\ edit \in [Editors -> [pc : {"idle", "transition", "append", "project"},
                           expected : 0..MaxVersions, new : Version, plan : Seq(Statuses)]]

\* create_campaign_draft
CampaignsInit ==
  /\ versions = <<NoVersion>>
  /\ air = [version |-> 0, on |-> FALSE]
  /\ missed = FALSE
  /\ edit = [e \in Editors |-> NoEdit]

Idle(e) == edit[e].pc = "idle"
EditEnds(e) == edit' = [edit EXCEPT ![e] = NoEdit]
\* No version is appended between another one and its projection.
Free == Overtaking \/ \A e \in Editors : edit[e].pc # "project"
Appends(e, expected, new, plan) ==
  edit' = [edit EXCEPT ![e] = [pc |-> "append", expected |-> expected, new |-> new, plan |-> plan]]

\* revise_campaign_draft, with the version that the operator's form was based on.
Revise(e, expected, design) ==
  /\ Idle(e)
  /\ CurrentVersion.status \in Editable
  /\ Appends(e, expected, [status |-> CurrentVersion.status, design |-> design], <<>>)
  /\ UNCHANGED <<versions, air, missed>>

\* publish_campaign: the content in the status it has, then through review to
\* the schedule or on air.
PublishCampaign(e, expected, design, target) ==
  /\ Idle(e)
  /\ CurrentVersion.status \in Publishable
  /\ target \in OnAir
  /\ Appends(e, expected, [status |-> CurrentVersion.status, design |-> design],
             IF CurrentVersion.status = "draft" THEN <<"review", target>> ELSE <<target>>)
  /\ UNCHANGED <<versions, air, missed>>

\* transition_campaign reads the campaign and keeps its content.
MayBecome(target) == target \in Successors(CurrentVersion.status)

Transition(e, expected, target) ==
  /\ Idle(e)
  /\ MayBecome(target)
  /\ Appends(e, expected, [CurrentVersion EXCEPT !.status = target], <<>>)
  /\ UNCHANGED <<versions, air, missed>>

NextTransition(e) ==
  /\ edit[e].pc = "transition"
  /\ LET target == Head(edit[e].plan) IN
       IF MayBecome(target)
         THEN Appends(e, edit[e].expected, [CurrentVersion EXCEPT !.status = target], Tail(edit[e].plan))
         ELSE EditEnds(e)
  /\ UNCHANGED <<versions, air, missed>>

Conflict(expected) == Len(versions) # expected

GoesOn(e) ==
  edit' = [edit EXCEPT ![e] =
             IF @.plan = <<>> THEN NoEdit ELSE [@ EXCEPT !.pc = "transition"]]

\* append_version
Append_(e) ==
  /\ edit[e].pc = "append" /\ Free
  /\ Len(versions) < MaxVersions
  /\ IF Conflict(edit[e].expected)
       THEN EditEnds(e) /\ UNCHANGED versions
       ELSE /\ versions' = Append(versions, edit[e].new)
            /\ LET n == Len(versions) + 1
                   moved == edit[e].new.status # CurrentVersion.status IN
               IF moved /\ edit[e].new.status \in Projected
                 THEN edit' = [edit EXCEPT ![e].pc = "project", ![e].expected = n]
                 ELSE edit' = [edit EXCEPT ![e] =
                        IF @.plan = <<>> THEN NoEdit
                        ELSE [@ EXCEPT !.pc = "transition", !.expected = n]]
  /\ UNCHANGED <<air, missed>>

\* Mutant of Shown: a campaign that leaves the air is not projected.
ShownOnly(n) == IF versions[n].status \in OnAir THEN [version |-> n, on |-> TRUE] ELSE air

Shown(n) == [version |-> n, on |-> versions[n].status \in OnAir]

\* project_legacy writes the version of its transition over any other.
Project(e) ==
  /\ edit[e].pc = "project"
  /\ air' = Shown(edit[e].expected)
  /\ missed' = FALSE
  /\ GoesOn(e)
  /\ UNCHANGED versions

\* Also between a version and its projection: the campaign is then on air, or
\* off it, without the kiosk having been told.
Abort(e) ==
  /\ ~Idle(e)
  /\ missed' = (missed \/ edit[e].pc = "project")
  /\ EditEnds(e)
  /\ UNCHANGED <<versions, air>>

CampaignsNext == \E e \in Editors :
  \/ \E n \in 1..Len(versions), d \in Designs :
       Revise(e, n, d) \/ \E t \in OnAir : PublishCampaign(e, n, d, t)
  \/ \E n \in 1..Len(versions), t \in Statuses : Transition(e, n, t)
  \/ NextTransition(e) \/ Append_(e) \/ Project(e) \/ Abort(e)

CampaignsSpec == CampaignsInit /\ [][CampaignsNext]_campaignVars

-----------------------------------------------------------------------------
\* Whatever requests overlap or break off, every version follows from the one
\* before: by a step of the lifecycle that keeps the content, or by a revision
\* that keeps the status and is made only where the campaign is off air.
VersionsFollow ==
  \A n \in 1..(Len(versions) - 1) :
    LET old == versions[n]
        new == versions[n + 1] IN
    \/ new.status \in Successors(old.status) /\ new.design = old.design
    \/ new.status = old.status /\ old.status \in Editable

\* When no version waits for its projection, and none went without it because its
\* request ended in between, the kiosk shows the campaign exactly while its latest
\* version is scheduled or active, with the content of that version.  The next
\* transition that is projected makes good what a request left undone.
AirTellsCampaign ==
  ~missed /\ (\A e \in Editors : edit[e].pc # "project") =>
    /\ air.on <=> CurrentVersion.status \in OnAir
    /\ air.on => versions[air.version] = CurrentVersion

\* The history of a campaign is lawful and the kiosk shows where it stands.
CampaignIsKept == VersionsFollow /\ AirTellsCampaign
=============================================================================
