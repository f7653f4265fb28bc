----------------------------- MODULE ReplicaDrill -----------------------------
(***************************************************************************)
(* The replica drill, run_drill of verify_replica_recovery.py: one process *)
(* holds the producer, an "abandoned" queue that claims a job and never    *)
(* settles it, and the worker replicas as tasks of one event loop.  SLO    *)
(* comparisons are left out: latencies are not modelled.                   *)
(***************************************************************************)
EXTENDS ContainerSoak

ReplicaOnly == UNCHANGED <<left, empty, evidence>>

\* enqueue_jobs(stop_offset=1)
EnqueueFirst ==
    /\ drill = "replica"
    /\ step = "first"
    /\ EnqueueAnswered(VictimRun, "abandon")
    /\ UNCHANGED sent
    /\ SenderOnly /\ Reading

\* abandoned.dequeue: heartbeat ...
AbandonedBeats ==
    /\ drill = "replica"
    /\ step = "abandon"
    /\ Heartbeat(Victim)
    /\ To("abandoned")
    /\ UNCHANGED <<netVars, sent, uncertain, verdict>>
    /\ DriverOnly /\ ReplicaOnly

\* ... and claim.
AbandonedClaims ==
    /\ drill = "replica"
    /\ step = "abandoned"
    /\ Claim(Victim)
    /\ To("replicas")
    /\ UNCHANGED <<netVars, sent, uncertain, verdict>>
    /\ DriverOnly /\ ReplicaOnly

\* worker.start() of every replica: the tasks exist, none has run yet.
StartReplicas ==
    /\ drill = "replica"
    /\ step = "replicas"
    /\ pc' = [w \in Workers |-> IF w = Victim THEN "dead" ELSE "boot"]
    /\ To("send")
    /\ UNCHANGED <<queueVars, netVars, drill, job, call, tally, requests, trackerVars,
                   metricVars, historyVars, sent, uncertain, verdict>>
    /\ ReplicaOnly

\* tracker.completed is set by the last process(); asyncio.timeout ends the wait.
CompletionWaited ==
    /\ drill = "replica"
    /\ step = "wait"
    /\ \/ Completed = Runs /\ To("acked") /\ KeepVerdict
       \/ Completed # Runs /\ Stuck /\ Fail("timeout") /\ UNCHANGED step
    /\ UNCHANGED <<queueVars, netVars, sent, uncertain>>
    /\ DriverOnly /\ Reading

\* Mutant: the drill does not wait.
AcknowledgementUnawaited ==
    /\ drill = "replica"
    /\ step = "acked"
    /\ Up
    /\ To("check")
    /\ UNCHANGED <<queueVars, netVars, sent, uncertain>>
    /\ DriverOnly /\ Reading /\ KeepVerdict

\* wait_until_acknowledged: SCARD, which nobody retries.
AcknowledgementWaited ==
    /\ drill = "replica"
    /\ step = "acked"
    /\ \/ Up /\ dedupe = {} /\ To("check") /\ KeepVerdict
       \/ Up /\ dedupe # {} /\ Stuck /\ Fail("timeout") /\ UNCHANGED step
       \/ ~Up /\ Fail("redis error") /\ UNCHANGED step
    /\ UNCHANGED <<queueVars, netVars, sent, uncertain>>
    /\ DriverOnly /\ Reading

\* start_counts and completion_counts of every enqueued run are 1.
OnceEach == \A r \in Runs : starts[r] = 1 /\ completions[r] = 1

\* The checks after the waits, in their order, and the final size().
CheckResults ==
    /\ drill = "replica"
    /\ step = "check"
    /\ To("checked")
    /\ IF ~OnceEach THEN Fail("not exactly once")
       ELSE IF ~(Workers \ {Victim} \subseteq worked) THEN Fail("idle replica")
       ELSE IF recovered # 1 THEN Fail("recovered")
       ELSE IF ~Up THEN Fail("redis error")
       ELSE IF pending # <<>> THEN Fail("not drained")
       ELSE verdict' = "passed" /\ UNCHANGED evidence
    /\ UNCHANGED <<queueVars, netVars, sent, uncertain>>
    /\ DriverOnly /\ Reading

\* finally: the workers are cancelled and the drill's keys deleted.
EndReplicaDrill ==
    /\ drill = "replica"
    /\ verdict # "none"
    /\ step # "ended"
    /\ Up
    /\ To("ended")
    /\ pc' = [w \in Workers |-> "dead"]
    /\ job' = [w \in Workers |-> NoJob]
    /\ pending' = <<>>
    /\ processing' = [w \in Workers |-> <<>>]
    /\ registered' = {} /\ leased' = {} /\ dedupe' = {}
    /\ scan' = [w \in Workers |-> {}]
    /\ UNCHANGED <<netVars, drill, call, tally, requests, trackerVars, metricVars, historyVars,
                   sent, uncertain, verdict>>
    /\ ReplicaOnly

ReplicaNext ==
    \/ EnqueueFirst \/ AbandonedBeats \/ AbandonedClaims \/ StartReplicas
    \/ CompletionWaited \/ AcknowledgementWaited \/ CheckResults
    \/ drill = "replica" /\ (SendBatch \/ BatchSent("wait"))

-----------------------------------------------------------------------------

Init ==
    /\ DrillInit
    /\ pc = [w \in Workers |-> IF w = Victim /\ drill = "soak" THEN "boot" ELSE "off"]
    /\ step = IF drill = "soak" THEN "seed" ELSE "first"
    /\ sent = 0
    /\ uncertain = FALSE
    /\ left = {}
    /\ empty = FALSE
    /\ verdict = "none"
    /\ evidence = "none"

\* Once there is a verdict only the driver goes on.
Next ==
    \/ /\ verdict = "none"
       /\ \/ SoakNext
          \/ ReplicaNext
          \/ UnplannedBreak
          \/ WorkerNext /\ UNCHANGED driverVars
    \/ NetworkReturns
    \/ CompileEvidence
    \/ EndReplicaDrill

Spec == Init /\ [][Next]_soakVars

-----------------------------------------------------------------------------
(* Properties                                                              *)

\* The victim was killed with a job in its hands, a replica started that job
\* again, no other job was recovered unless the network broke under one, and
\* a worker lost and found its connection.
FaultsHappened ==
    /\ starts[VictimRun] >= 2
    /\ Victim \in worked /\ pc[Victim] = "dead"
    /\ recovered <= 1 \/ spoiled
    /\ reconnected

(***************************************************************************)
(* A drill that passes is right: every job was really finished, none is in *)
(* any list, registered or not, and no run id is left behind; and a job    *)
(* that was finished twice is still in the hands of a worker, which will   *)
(* record it when the drill is over.  The coordinator reads the keys one   *)
(* by one while workers and recoveries move jobs between them, and the     *)
(* replica drill looks at two of the keys only.  What the runner of the    *)
(* soak writes down without counting is true as well (FaultsHappened).     *)
(***************************************************************************)
PassIsTrue ==
    verdict = "passed" =>
        /\ step # "ended" =>
            /\ \A r \in Runs : \/ done[r] = 1
                               \/ done[r] > 1 /\ \E w \in Workers : Busy(w) /\ job[w].run = r
            /\ pending = <<>> /\ dedupe = {}
            /\ \A w \in Workers : processing[w] = <<>>
        /\ drill = "soak" => FaultsHappened

(***************************************************************************)
(* Producer and verifier agree: the failures of the provider are absorbed  *)
(* by the retries, so that no synthetic analysis raises, and whatever the  *)
(* interleaving of the provider's answers a soak that passed and stayed    *)
(* within the limits is accepted, and one beyond a limit never is.         *)
(***************************************************************************)
HealthySoakIsAccepted ==
    /\ \A w \in Workers : pc[w] # "raise"
    /\ evidence # "none" => (step = "within" <=> evidence = "passed")

(***************************************************************************)
(* The duration that evidence states as planned is the one the pacing loop *)
(* produces, for every number of jobs and burst size: the last batch leaves*)
(* exactly planned_duration after the first, whether or not the last batch *)
(* is full.  production_duration compares the plan with the required       *)
(* minimum, and the launch profile meets it with nothing to spare (3600 of *)
(* 3600).                                                                  *)
(***************************************************************************)
PlanIsPaced ==
    evidence # "none" =>
        \A jobs \in 2 .. 30 : \A burst \in 1 .. jobs :
            Planned(jobs, burst) = LastBatchAt(jobs, burst)

(***************************************************************************)
(* No false alarm: a drill fails only if a break of the network made a     *)
(* worker forget a job it held or lose it to another while it ran, made    *)
(* RedisTracker count a completion twice or a recovery go uncounted, made  *)
(* the producer send a job again that was already finished, or hit the     *)
(* replica drill's own reads, or its enqueue until it gave up; or if a     *)
(* replica got nothing to do, or the round that recovered the job had not  *)
(* come to its end, where the metric is raised.  In particular a lost      *)
(* answer to an enqueue, which the producers treat as uncertain, fails no  *)
(* drill by itself.                                                        *)
(***************************************************************************)
FailureHasCause ==
    verdict \notin {"none", "passed"} =>
        \/ spoiled
        \/ verdict \in {"redis error", "idle replica"}
        \/ verdict = "unreachable" /\ breaks > 0
        \/ verdict = "recovered" /\ (breaks > 0 \/ \E w \in Workers : tally[w] > 0)

=============================================================================
