--------------------------- MODULE MCAnalysisSystem ---------------------------
(* AnalysisSystem for TLC.  Every instance is finite: a run has one job,    *)
(* attempts end at MaxAttempts and dead workers do not come back.           *)
EXTENDS AnalysisSystem

MCSymmetry == Permutations(Workers) \cup Permutations(Runs) \cup Permutations(Handlers)
=============================================================================
