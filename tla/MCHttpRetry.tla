----------------------------- MODULE MCHttpRetry -----------------------------
(* HttpRetry for TLC: one second is four units of time.                     *)
EXTENDS HttpRetry

MCSecond == 4
MCBaseDelay == MCSecond
MCAskedDelays == {0, 3, 9, 10, 11}
=============================================================================
