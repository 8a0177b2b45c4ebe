-------------------------- MODULE KnowledgeServing --------------------------
(***************************************************************************)
(* What a store is promised about one knowledge item (CONTEXT.md under     *)
(* Published, docs/adr/0002): retrieval serves at most one version, a      *)
(* newer one takes over in one step, nothing older ever comes back, and    *)
(* what is served is in the index.                                         *)
(***************************************************************************)
EXTENDS Naturals

CONSTANT Versions   \* version numbers of the item

VARIABLES
  live,    \* the version that retrieval serves, 0 for none
  newest   \* the newest version that was ever served

vars == <<live, newest>>

Init == live = 0 /\ newest = 0

\* The atomic publication swap.
Swap == \E v \in Versions :
  /\ v > newest
  /\ live' = v
  /\ newest' = v

Withdraw ==
  /\ live # 0
  /\ live' = 0
  /\ UNCHANGED newest

Next == Swap \/ Withdraw

Spec == Init /\ [][Next]_vars
=============================================================================
