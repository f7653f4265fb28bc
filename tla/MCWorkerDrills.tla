---------------------------- MODULE MCWorkerDrills ----------------------------
(* Both worker drills for TLC: the victim, two replicas and two jobs.        *)
EXTENDS ReplicaDrill

CONSTANTS v, w1, w2, r1, r2

MCWorkers == {v, w1, w2}
MCRuns == {r1, r2}
MCBatch == <<r2>>
MCSymmetry == Permutations({w1, w2})
=============================================================================
