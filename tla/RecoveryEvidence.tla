--------------------------- MODULE RecoveryEvidence ---------------------------
(***************************************************************************)
(* verify_drill_evidence.py of ops/recovery: the judgement on a recovery   *)
(* drill (both restores, a cutover and a rollback) from an observation that*)
(* people write down.  Times are whole milliseconds, so that rounding the  *)
(* rollback duration to three decimals of a second is exact; identifiers,  *)
(* digests and field sets are well formed.                                 *)
(***************************************************************************)
EXTENDS Integers, Sequences, FiniteSets

CONSTANT MaxDefects  \* bound: what goes wrong in one recovery drill

VARIABLES
    observation,  \* the observation file
    defects,      \* history: what went wrong
    judgement     \* result of the evidence, "rejected" if the file is refused

recoveryVars == <<observation, defects, judgement>>

-----------------------------------------------------------------------------

\* ordered_timestamps
Chronological(times) == \A i \in 1 .. Len(times) - 1 : times[i] <= times[i + 1]

\* parse_service
ServiceParses(s) ==
    /\ Chronological(s.timeline)        \* freeze, backup, restore, validated
    /\ s.backup_bytes > 0 /\ s.minimum_bytes > 0
    /\ s.backup_seconds > 0 /\ s.restore_seconds > 0 /\ s.recovery_seconds > 0
    /\ s.observed_rpo >= 0

AllTimes(o) ==
    LET Times(t) == {t[i] : i \in DOMAIN t}
    IN Times(o.postgres.timeline) \cup Times(o.grafana.timeline)
       \cup Times(o.cutover) \cup Times(o.rollback)

\* Every ValueError of compile_evidence that a well-formed file can raise.
DrillParses(o) ==
    /\ o.started_at < o.completed_at
    /\ o.postgres_rto > 0 /\ o.grafana_rto > 0 /\ o.rpo > 0 /\ o.rollback_rto > 0
    /\ ServiceParses(o.postgres) /\ ServiceParses(o.grafana)
    /\ Chronological(o.cutover)         \* approved, started, completed
    /\ Chronological(o.rollback)        \* initiated, completed
    /\ o.rollback[1] >= o.cutover[3]
    /\ o.secret_scan_matches >= 0
    /\ \A t \in AllTimes(o) : o.started_at <= t /\ t <= o.completed_at
    /\ o.completed_at <= o.checked_at

\* Mutant: the backup may be as small as it likes.
service_passed_any_size(o, s, rto) ==
    /\ s.recovery_seconds <= rto
    /\ s.observed_rpo <= o.rpo
    /\ s.integrity_checks_passed
    /\ s.source_preserved

service_passed(o, s, rto) ==
    /\ s.backup_bytes >= s.minimum_bytes
    /\ s.recovery_seconds <= rto
    /\ s.observed_rpo <= o.rpo
    /\ s.integrity_checks_passed
    /\ s.source_preserved

\* The flags that have to be set for rollback_verified.
RollbackFlags ==
    {"used_preserved_postgres_source", "used_preserved_grafana_source",
     "postgres_integrity_verified", "grafana_content_verified",
     "grafana_access_policy_verified", "client_smoke_verified"}

DrillChecks(o) ==
    [postgres_recovery |-> service_passed(o, o.postgres, o.postgres_rto),
     grafana_recovery |-> service_passed(o, o.grafana, o.grafana_rto),
     cutover_approved |-> o.approved,
     rollback_verified |->
        /\ RollbackFlags \subseteq o.flags
        /\ o.rollback[2] - o.rollback[1] <= o.rollback_rto,
     point_of_no_return_controlled |->
        "crossed_point_of_no_return" \notin o.flags \/ "reconciliation_plan_reviewed" \in o.flags,
     artifacts_reviewed_and_clean |-> o.reviewed /\ o.secret_scan_matches = 0]

judge_drill(o) ==
    IF ~DrillParses(o) THEN "rejected"
    ELSE IF \A c \in DOMAIN DrillChecks(o) : DrillChecks(o)[c] THEN "passed"
    ELSE "failed"

-----------------------------------------------------------------------------
(* Properties                                                              *)

\* A drill at every limit at once: nothing to spare, and nothing wrong.
GoodService ==
    [timeline |-> <<1, 2, 3, 4>>, backup_bytes |-> 10, minimum_bytes |-> 10,
     backup_seconds |-> 1, restore_seconds |-> 1, recovery_seconds |-> 10, observed_rpo |-> 5,
     integrity_checks_passed |-> TRUE, source_preserved |-> TRUE]

GoodDrill ==
    [started_at |-> 1, completed_at |-> 11, checked_at |-> 11,
     postgres_rto |-> 10, grafana_rto |-> 10, rpo |-> 5, rollback_rto |-> 3,
     postgres |-> GoodService, grafana |-> GoodService,
     cutover |-> <<5, 6, 7>>, approved |-> TRUE, rollback |-> <<8, 11>>,
     flags |-> RollbackFlags, reviewed |-> TRUE, secret_scan_matches |-> 0]

ServiceDefects == {"small", "slow", "stale", "corrupt", "source_lost", "disordered"}

SpoiledService(s, defect) ==
    IF defect = "small" THEN [s EXCEPT !.backup_bytes = @ - 1]
    ELSE IF defect = "slow" THEN [s EXCEPT !.recovery_seconds = @ + 1]
    ELSE IF defect = "stale" THEN [s EXCEPT !.observed_rpo = @ + 1]
    ELSE IF defect = "corrupt" THEN [s EXCEPT !.integrity_checks_passed = FALSE]
    ELSE IF defect = "source_lost" THEN [s EXCEPT !.source_preserved = FALSE]
    ELSE [s EXCEPT !.timeline = <<@[1], @[3] + 1, @[3], @[4]>>]

DrillDefects ==
    (({"postgres", "grafana"} \X ServiceDefects) \cup ({"flag"} \X RollbackFlags))
    \cup {<<"drill", x>> : x \in {"early", "late", "late_approval", "early_rollback",
                                  "unapproved", "long_rollback", "crossed", "unreviewed",
                                  "secret", "future"}}

SpoiledDrill(o, d) ==
    IF d[1] = "postgres" THEN [o EXCEPT !.postgres = SpoiledService(@, d[2])]
    ELSE IF d[1] = "grafana" THEN [o EXCEPT !.grafana = SpoiledService(@, d[2])]
    ELSE IF d[1] = "flag" THEN [o EXCEPT !.flags = @ \ {d[2]}]
    ELSE IF d[2] = "early" THEN [o EXCEPT !.started_at = @ + 1]
    ELSE IF d[2] = "late" THEN [o EXCEPT !.completed_at = @ - 1]
    ELSE IF d[2] = "late_approval" THEN [o EXCEPT !.cutover = <<7, 6, 7>>]
    ELSE IF d[2] = "early_rollback" THEN [o EXCEPT !.rollback = <<6, 7>>]
    ELSE IF d[2] = "unapproved" THEN [o EXCEPT !.approved = FALSE]
    ELSE IF d[2] = "long_rollback" THEN [o EXCEPT !.rollback_rto = @ - 1]
    ELSE IF d[2] = "crossed" THEN [o EXCEPT !.flags = @ \cup {"crossed_point_of_no_return"}]
    ELSE IF d[2] = "unreviewed" THEN [o EXCEPT !.reviewed = FALSE]
    ELSE IF d[2] = "secret" THEN [o EXCEPT !.secret_scan_matches = 1]
    ELSE [o EXCEPT !.checked_at = @ - 1]

RecoveryInit ==
    /\ observation = GoodDrill
    /\ defects = {}
    /\ judgement = "none"

\* Something goes wrong in the drill, or in what is written down of it.
GoesWrong(d) ==
    /\ judgement = "none"
    /\ d \notin defects /\ Cardinality(defects) < MaxDefects
    /\ observation' = SpoiledDrill(observation, d)
    /\ defects' = defects \cup {d}
    /\ UNCHANGED judgement

\* main(): the evidence is compiled once the drill is over.
Compile ==
    /\ judgement = "none"
    /\ judgement' = judge_drill(observation)
    /\ UNCHANGED <<observation, defects>>

RecoveryNext == (\E d \in DrillDefects : GoesWrong(d)) \/ Compile

RecoverySpec == RecoveryInit /\ [][RecoveryNext]_recoveryVars

-----------------------------------------------------------------------------
(* Properties                                                              *)

(***************************************************************************)
(* A drill that just meets every objective passes, and each defect that    *)
(* docs/production-recovery-drill.md lists (lines 59-67: the measures, the *)
(* order of approval, cutover and rollback, and the flags), or that lies   *)
(* outside the drill's window or in the future, keeps it from passing,     *)
(* alone and together with others: no check is off by one and no defect    *)
(* hides another.  (A rollback that starts early is also a shorter one,    *)
(* and a rejected file has no checks.)                                     *)
(***************************************************************************)
NoDefectIsMasked ==
    judgement # "none" => (judgement = "passed" <=> defects = {})

=============================================================================
