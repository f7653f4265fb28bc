---------------------------- MODULE MCQueueBackends ----------------------------
(* QueueBackends for TLC: every instance is finite because a run has one job. *)
EXTENDS QueueBackends

MCSymmetry == Permutations(Runs) \cup Permutations(Workers)
=============================================================================
