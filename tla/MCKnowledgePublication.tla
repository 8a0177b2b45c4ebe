----------------------- MODULE MCKnowledgePublication -----------------------
(***************************************************************************)
(* Two versions of an item, two requests, a worker and the retention sweep.*)
(***************************************************************************)
EXTENDS KnowledgePublication

CONSTANTS r1, r2, w1
TwoAdmins == {r1, r2}
OneAdmin == {r1}
OneWorker == {w1}
=============================================================================
