---------------------------- MODULE MCDockerDrills ----------------------------
(***************************************************************************)
(* Two invocations of one drill with the same run id; or the evidence of a *)
(* recovery drill, which shares no state with them and therefore only      *)
(* starts while no invocation has.                                         *)
(***************************************************************************)
EXTENDS DockerDrills, RecoveryEvidence

CONSTANTS d1, d2

MCDrills == {d1, d2}
MCSymmetry == Permutations(MCDrills)

DrillsUntouched == \A d \in Drills : at[d] = "check"
RecoveryUntouched == defects = {} /\ judgement = "none"

MCInit == Init /\ RecoveryInit

MCNext ==
    \/ Next /\ RecoveryUntouched /\ UNCHANGED recoveryVars
    \/ RecoveryNext /\ DrillsUntouched /\ UNCHANGED drillVars

MCSpec == MCInit /\ [][MCNext]_<<drillVars, recoveryVars>>
=============================================================================
