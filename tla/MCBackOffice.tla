---------------------------- MODULE MCBackOffice ----------------------------
(***************************************************************************)
(* Eleven components that share no state, checked by one run: a behavior   *)
(* chooses one of them and takes the steps of that one only, so the states *)
(* are the sum, and not the product, of what the components reach.  The    *)
(* properties come with the modules of the components.                     *)
(***************************************************************************)
EXTENDS OptimizationLab, Members, Campaigns, Identity, RetrievalCheck, VoiceEvidence,
        OrderOutbox, PushCopyBatch, Catalog, ConnectionPool, LlmGateway, TLC

VARIABLE active

Components == {"lab", "members", "campaigns", "identity", "retrieval", "evidence",
               "outbox", "pushcopy", "catalog", "pool", "gateway"}

\* All components but the one that steps stay as they are.
Others(name) ==
  /\ UNCHANGED active
  /\ IF name = "lab" THEN TRUE ELSE UNCHANGED labVars
  /\ IF name = "members" THEN TRUE ELSE UNCHANGED memberVars
  /\ IF name = "campaigns" THEN TRUE ELSE UNCHANGED campaignVars
  /\ IF name = "identity" THEN TRUE ELSE UNCHANGED identityVars
  /\ IF name = "retrieval" THEN TRUE ELSE UNCHANGED retrievalVars
  /\ IF name = "evidence" THEN TRUE ELSE UNCHANGED evidenceVars
  /\ IF name = "outbox" THEN TRUE ELSE UNCHANGED orderOutboxVars
  /\ IF name = "pushcopy" THEN TRUE ELSE UNCHANGED pushCopyVars
  /\ IF name = "catalog" THEN TRUE ELSE UNCHANGED catalogVars
  /\ IF name = "pool" THEN TRUE ELSE UNCHANGED poolVars
  /\ IF name = "gateway" THEN TRUE ELSE UNCHANGED gatewayVars

vars == <<active, labVars, memberVars, campaignVars, identityVars, retrievalVars,
          evidenceVars, orderOutboxVars, pushCopyVars, catalogVars, poolVars, gatewayVars>>

Init ==
  /\ active \in Components
  /\ LabInit /\ MembersInit /\ CampaignsInit /\ IdentityInit /\ RetrievalInit
  /\ VoiceEvidenceInit /\ OrderOutboxInit /\ PushCopyInit /\ CatalogInit /\ PoolInit
  /\ GatewayInit

Next ==
  \/ active = "lab" /\ LabNext /\ Others("lab")
  \/ active = "members" /\ MembersNext /\ Others("members")
  \/ active = "campaigns" /\ CampaignsNext /\ Others("campaigns")
  \/ active = "identity" /\ IdentityNext /\ Others("identity")
  \/ active = "retrieval" /\ RetrievalNext /\ Others("retrieval")
  \/ active = "evidence" /\ VoiceEvidenceNext /\ Others("evidence")
  \/ active = "outbox" /\ OrderOutboxNext /\ Others("outbox")
  \/ active = "pushcopy" /\ PushCopyNext /\ Others("pushcopy")
  \/ active = "catalog" /\ CatalogNext /\ Others("catalog")
  \/ active = "pool" /\ PoolNext /\ Others("pool")
  \/ active = "gateway" /\ GatewayNext /\ Others("gateway")

Spec == Init /\ [][Next]_vars

\* The actors of the components are the same two.
Symmetry == Permutations(Operators)

\* The types of the component that steps; the others are as they began.
TypeOK ==
  /\ active \in Components
  /\ active = "lab" => LabTypeOK
  /\ active = "members" => MembersTypeOK
  /\ active = "campaigns" => CampaignsTypeOK
  /\ active = "identity" => IdentityTypeOK
  /\ active = "retrieval" => RetrievalTypeOK
  /\ active = "evidence" => VoiceEvidenceTypeOK
  /\ active = "outbox" => OrderOutboxTypeOK
  /\ active = "pushcopy" => PushCopyTypeOK
  /\ active = "catalog" => CatalogTypeOK
  /\ active = "pool" => PoolTypeOK
  /\ active = "gateway" => GatewayTypeOK
=============================================================================
