----------------------------- MODULE SoakEvidence -----------------------------
(***************************************************************************)
(* The judge of the container soak: what run_container_soak.py writes into *)
(* observation.json and what verify_soak_evidence.py makes of it.  Field   *)
(* sets, identifiers and digests are well formed here by construction, and *)
(* so are the numbers that nothing depends on (concurrency, throughput,    *)
(* limits of a worker, thresholds): the verifier only asks them to be      *)
(* positive or finite.  Every other comparison is kept.  Fractions are     *)
(* scaled to integers.                                                     *)
(***************************************************************************)
EXTENDS Naturals, FiniteSets, FiniteSetsExt

-----------------------------------------------------------------------------
(* Load profile                                                            *)

\* Ceiling of a / b.
Ceiling(a, b) == (a + b - 1) \div b

\* Mutant: the victim's job, which the coordinator does not send, is counted.
PlannedAllJobs(jobs, burst) == (Ceiling(jobs, burst) - 1) * burst

\* Profile.planned_duration and planned_arrival_seconds, in units of 1 / arrival_rate.
Planned(jobs, burst) == (Ceiling(jobs - 1, burst) - 1) * burst

\* run_coordinator and enqueue_jobs sleep after these jobs, until position / rate.
PausesAt(jobs, burst) == {p \in 1 .. jobs - 1 : p % burst = 0 /\ p < jobs - 1}

\* When the last batch is sent.
LastBatchAt(jobs, burst) == Max(PausesAt(jobs, burst) \cup {0})

-----------------------------------------------------------------------------
(* Observation                                                             *)

(***************************************************************************)
(* ProviderState.audit of a provider that has answered n requests: the     *)
(* first with 429, the second with 503, the others with 200.  Each answer  *)
(* takes at least the time slept, here one unit; nearest_rank is 0 for no  *)
(* answer, and otherwise grows with the percentage.                        *)
(***************************************************************************)
Audit(n) ==
    [requests             |-> n,
     latencyP50           |-> IF n >= 1 THEN 1 ELSE 0,
     latencyP95           |-> IF n >= 1 THEN 1 ELSE 0,
     rate_limit_responses |-> IF n >= 1 THEN 1 ELSE 0,
     transient_failures   |-> IF n >= 2 THEN 1 ELSE 0,
     retry_successes      |-> Min({2, IF n >= 2 THEN n - 2 ELSE 0})]

\* A fault of the runner's report: "recovered_jobs": 1 and "lost_jobs": 0 are
\* written down, not counted.
Fault(injected, recoveredAt) ==
    [injected_at |-> injected, recovered_at |-> recoveredAt, count |-> 1, lost_jobs |-> 0]

\* resource_limits and max_resource_utilization_percent of the soak
Replicas == 4
PoolSize == 5
MaxConnections == 50
MaxUtilization == 90

-----------------------------------------------------------------------------
(* compile_evidence                                                        *)

\* parse_provider
ProviderParses(p) ==
    /\ p.requests > 0
    /\ p.latencyP50 > 0 /\ p.latencyP95 > 0 /\ p.latencyP95 >= p.latencyP50
    /\ p.rate_limit_responses + p.transient_failures <= p.requests
    /\ p.retry_successes <= p.rate_limit_responses + p.transient_failures

\* parse_fault, ordered_timestamps
FaultParses(f) == f.injected_at <= f.recovered_at /\ f.count > 0

\* load_profile; planned_duration_seconds is a positive_number.
LoadParses(o) ==
    /\ o.jobs > 0 /\ o.arrivalRate > 0 /\ o.burst > 0 /\ o.planned > 0
    /\ o.burst <= o.jobs

\* The percentage() fields of results, resource_observation and capacity_recommendation.
ResultsParse(o) == o.startSlo <= 100 /\ o.completionSlo <= 100

ResourcesParse(o) ==
    /\ \A x \in {o.cpu, o.memory, o.redis} : x <= 100
    /\ o.pool > 0 /\ o.connections > 0

CapacityParses(o) == o.sustainedRate > 0 /\ o.recommendedRate > 0 /\ o.headroom <= 100

\* Faults and telemetry are within the soak window, and that is over.
WithinWindow(o) ==
    LET times == {o.captured_at}
            \cup UNION {{o.faults[f].injected_at, o.faults[f].recovered_at} : f \in DOMAIN o.faults}
    IN /\ Min(times) >= o.started_at /\ Max(times) <= o.completed_at
       /\ o.completed_at <= o.checked_at

\* Every ValueError of compile_evidence that a well-formed file can raise.
Parses(o) ==
    /\ o.started_at < o.completed_at
    /\ LoadParses(o)
    /\ \A p \in DOMAIN o.providers : ProviderParses(o.providers[p])
    /\ \A f \in DOMAIN o.faults : FaultParses(o.faults[f])
    /\ ResultsParse(o) /\ ResourcesParse(o) /\ CapacityParses(o)
    /\ WithinWindow(o)

\* Mutant: the first failure is enough.
ProviderExercisesOne(p) == p.retry_successes = p.rate_limit_responses

\* provider_exercises
ProviderExercised(p) ==
    /\ p.rate_limit_responses >= 1
    /\ p.transient_failures >= 1
    /\ p.retry_successes = p.rate_limit_responses + p.transient_failures

ChecksOf(o) ==
    [production_duration |->
        /\ o.completed_at - o.started_at >= o.minDuration
        /\ o.planned >= o.minDuration,
     resource_limits_consistent |-> Replicas * PoolSize <= MaxConnections,
     provider_failures_exercised |->
        \A p \in DOMAIN o.providers : ProviderExercised(o.providers[p]),
     faults_recovered |->
        \A f \in DOMAIN o.faults :
            /\ o.faults[f].lost_jobs = 0
            /\ o.faults[f].recovered_at - o.faults[f].injected_at <= o.maxRecovery,
     exactly_once_and_drained |->
        /\ o.completed_jobs = o.jobs
        /\ o.duplicate_completions = 0
        /\ o.lost_jobs = 0
        /\ o.exactly_once
        /\ o.queue_drained,
     analysis_slo |->
        /\ o.startP95 <= 60 /\ o.completionP95 <= 120
        /\ o.startSlo >= o.minSlo /\ o.completionSlo >= o.minSlo,
     resource_headroom |->
        /\ \A x \in {o.cpu, o.memory, o.redis} : x <= MaxUtilization
        /\ o.pool <= Replicas * PoolSize
        /\ o.connections <= MaxConnections,
     capacity_recommendation |->
        /\ o.recommendedRate <= o.sustainedRate
        /\ o.recommendedRate >= o.arrivalRate
        /\ o.headroom >= 20
        /\ o.reviewed,
     artifact_secret_scan |-> o.secret_scan_matches = 0]

\* "rejected" is a ValueError, "failed" is evidence with passed = false.
compile_evidence(o) ==
    IF ~Parses(o) THEN "rejected"
    ELSE IF \A c \in DOMAIN ChecksOf(o) : ChecksOf(o)[c] THEN "passed"
    ELSE "failed"

=============================================================================
