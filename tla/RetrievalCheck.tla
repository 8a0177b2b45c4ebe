--------------------------- MODULE RetrievalCheck ---------------------------
(***************************************************************************)
(* Retrieval checks and the configuration they vouch for:                  *)
(* modules/retrieval_check and modules/retrieval_configuration of a store. *)
(* A check reads what is published, retrieves, reads again and is stored   *)
(* as eligible if nothing changed; an administrator confirms it, and the   *)
(* store is ready while a confirmation names the index and the version of  *)
(* the configuration that are published.                                   *)
(***************************************************************************)
EXTENDS Naturals

CONSTANTS
  Admins,       \* requests at a time
  Methods,      \* what a configuration says
  MaxIndex,     \* bound on the publications of the index
  MaxVersion,   \* bound on the versions of the configuration
  MaxChecks,    \* bound on the checks
  Reused        \* TRUE: an identity can come back for something else

ASSUME RetrievalAssumption ==
  /\ Methods # {}
  /\ MaxIndex \in Nat /\ MaxVersion \in Nat /\ MaxChecks \in Nat
  /\ Reused \in BOOLEAN

VARIABLES
  index,     \* identity of the published attempts; 0 is none
  indexed,   \* number of publications
  config,    \* retrieval_configurations
  checks,    \* rag_retrieval_checks
  admin      \* requests between two steps

retrievalVars == <<index, indexed, config, checks, admin>>

Configuration == [version : 0..MaxVersion, method : Methods]
Identities == [index : 0..MaxIndex, config : Configuration]
Check == [state : {"none", "pending", "confirmed", "deleted"}, of : Identities,
          saw : Identities, eligible : BOOLEAN, expired : BOOLEAN]
AdminStep == [pc : {"idle", "save", "delete", "retrieve", "after", "store", "mark"},
              was : Identities, check : Check, id : 0..MaxChecks]

RetrievalTypeOK ==
  /\ index \in 0..MaxIndex /\ indexed \in 0..MaxIndex
  /\ config \in Configuration
  /\ checks \in [1..MaxChecks -> Check]
  /\ admin \in [Admins -> AdminStep]

Unpublished == [version |-> 0, method |-> CHOOSE m \in Methods : TRUE]
Nothing == [index |-> 0, config |-> Unpublished]
NoCheck == [state |-> "none", of |-> Nothing, saw |-> Nothing, eligible |-> FALSE, expired |-> FALSE]
AtRest == [pc |-> "idle", was |-> Nothing, check |-> NoCheck, id |-> 0]

RetrievalInit ==
  /\ index = 0 /\ indexed = 0
  /\ config = Unpublished
  /\ checks = [k \in 1..MaxChecks |-> NoCheck]
  /\ admin = [a \in Admins |-> AtRest]

AdminAt(a, pc) == admin[a].pc = pc
AdminRests(a) == admin' = [admin EXCEPT ![a] = AtRest]
PublishedNow == [index |-> index, config |-> config]

\* Knowledge publication gives the index a new identity, and takes it back to
\* an earlier one when what it published is retired.
PublishIndex ==
  /\ indexed < MaxIndex
  /\ indexed' = indexed + 1
  /\ index' = indexed + 1
  /\ UNCHANGED <<config, checks, admin>>

RetireIndex ==
  /\ Reused \/ \A a \in Admins : admin[a].pc \notin {"retrieve", "after"}
  /\ index # 0
  /\ index' = 0
  /\ UNCHANGED <<indexed, config, checks, admin>>

\* RetrievalConfigurationModule.publish reads the version in one transaction
\* and saves the next one in another.
PublishConfiguration(a, m) ==
  /\ AdminAt(a, "idle")
  /\ config.version < MaxVersion
  /\ Reused \/ ~\E b \in Admins : AdminAt(b, "save")
  /\ admin' = [admin EXCEPT ![a] = [AtRest EXCEPT !.pc = "save",
                 !.was = [Nothing EXCEPT !.config = [version |-> config.version + 1, method |-> m]]]]
  /\ UNCHANGED <<index, indexed, config, checks>>

SaveConfiguration(a) ==
  /\ AdminAt(a, "save")
  /\ config' = admin[a].was.config
  /\ AdminRests(a)
  /\ UNCHANGED <<index, indexed, checks>>

\* The next publication counts from 1 again.
DeleteConfiguration ==
  /\ Reused \/ /\ \A a \in Admins : AdminAt(a, "idle")
               /\ \A k \in 1..MaxChecks : checks[k].state \in {"none", "deleted"}
  /\ config.version > 0
  /\ config' = Unpublished
  /\ UNCHANGED <<index, indexed, checks, admin>>

\* execute: the identities before ..
Execute(a) ==
  /\ AdminAt(a, "idle")
  /\ admin' = [admin EXCEPT ![a] = [AtRest EXCEPT !.pc = "retrieve", !.was = PublishedNow]]
  /\ UNCHANGED <<index, indexed, config, checks>>

\* .. the retrieval with the method that was asked for, which sees the index of
\* now and perhaps falls back to another method ..
Retrieve(a, m, plain) ==
  /\ AdminAt(a, "retrieve")
  /\ admin' = [admin EXCEPT ![a].pc = "after",
                 ![a].check = [NoCheck EXCEPT !.saw = [index |-> index, config |-> [config EXCEPT !.method = m]],
                                              !.eligible = plain /\ index # 0]]
  /\ UNCHANGED <<index, indexed, config, checks>>

\* Mutant of Stable: identities are not compared.
StableAlways(before, after) == TRUE

Stable(before, after) == before = after

\* .. and the identities after, which decide whether it may be confirmed.
Judge(a) ==
  LET check == admin[a].check
      eligible == /\ check.eligible
                  /\ Stable(admin[a].was, PublishedNow)
                  /\ config.version # 0
                  /\ check.saw.config.method = config.method IN
  /\ AdminAt(a, "after")
  /\ admin' = [admin EXCEPT ![a].pc = "store", ![a].was = Nothing, ![a].check =
                 [check EXCEPT !.state = "pending", !.of = PublishedNow, !.eligible = eligible]]
  /\ UNCHANGED <<index, indexed, config, checks>>

StoreCheck(a, k) ==
  /\ AdminAt(a, "store")
  /\ checks[k].state = "none" /\ \A j \in 1..MaxChecks : j < k => checks[j].state # "none"
  /\ checks' = [checks EXCEPT ![k] = admin[a].check]
  /\ AdminRests(a)
  /\ UNCHANGED <<index, indexed, config>>

\* confirm compares the stored identities with those of now ..
ConfirmCheck(a, k) ==
  /\ AdminAt(a, "idle")
  /\ checks[k].state = "pending" /\ ~checks[k].expired /\ checks[k].eligible
  /\ config.version # 0
  /\ checks[k].of.index = index /\ checks[k].of.config.version = config.version
  /\ admin' = [admin EXCEPT ![a] = [AtRest EXCEPT !.pc = "mark", !.id = k]]
  /\ UNCHANGED <<index, indexed, config, checks>>

\* .. and marks the check, if a cleanup has not deleted it meanwhile.
MarkConfirmed(a) ==
  /\ AdminAt(a, "mark")
  /\ checks' = [checks EXCEPT ![admin[a].id].state = IF @ = "pending" THEN "confirmed" ELSE @]
  /\ AdminRests(a)
  /\ UNCHANGED <<index, indexed, config>>

Expire(k) ==
  /\ checks[k].state = "pending" /\ ~checks[k].expired
  /\ checks' = [checks EXCEPT ![k].expired = TRUE]
  /\ UNCHANGED <<index, indexed, config, admin>>

CleanUpExpired(k) ==
  /\ checks[k].state = "pending" /\ checks[k].expired
  /\ checks' = [checks EXCEPT ![k].state = "deleted"]
  /\ UNCHANGED <<index, indexed, config, admin>>

AdminDies(a) ==
  /\ ~AdminAt(a, "idle")
  /\ AdminRests(a)
  /\ UNCHANGED <<index, indexed, config, checks>>

RetrievalNext ==
  \/ PublishIndex \/ RetireIndex \/ DeleteConfiguration
  \/ \E k \in 1..MaxChecks : Expire(k) \/ CleanUpExpired(k)
  \/ \E a \in Admins :
       \/ SaveConfiguration(a) \/ Execute(a) \/ Judge(a) \/ MarkConfirmed(a) \/ AdminDies(a)
       \/ \E m \in Methods : PublishConfiguration(a, m) \/ \E p \in BOOLEAN : Retrieve(a, m, p)
       \/ \E k \in 1..MaxChecks : StoreCheck(a, k) \/ ConfirmCheck(a, k)

RetrievalSpec == RetrievalInit /\ [][RetrievalNext]_retrievalVars

\* latest_confirmation of readiness
Vouches(k) ==
  /\ checks[k].state = "confirmed"
  /\ checks[k].of.index = index /\ checks[k].of.config.version = config.version
Ready == config.version # 0 /\ \E k \in 1..MaxChecks : Vouches(k)

-----------------------------------------------------------------------------
\* Readiness is earned, whatever was published while a check retrieved, was
\* stored or was confirmed: if the store is called ready, a retrieval that a
\* person confirmed ran on the index and with the configuration published now.
ReadinessIsEarned ==
  Ready => \E k \in 1..MaxChecks : Vouches(k) /\ checks[k].saw = PublishedNow
=============================================================================
