---------------------------- MODULE MCVoiceTurn -----------------------------
(* Small instances of VoiceTurn for TLC.                                   *)
EXTENDS VoiceTurn, TLC

\* Texts and threads are interchangeable (for runs without liveness).
Symmetry == Permutations(Texts) \cup Permutations(Runs)

=============================================================================
