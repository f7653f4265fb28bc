-------------------------- MODULE MCAnalysisHistory --------------------------
(* AnalysisHistory for TLC: three rows of which two were created at once.   *)
EXTENDS AnalysisHistory

MCTimes == 1 .. 2
MCStatuses == {"failed", "completed"}
=============================================================================
