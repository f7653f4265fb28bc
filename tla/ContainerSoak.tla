----------------------------- MODULE ContainerSoak -----------------------------
(***************************************************************************)
(* The container soak: execute() of run_container_soak.py drives the       *)
(* faults, seed-victim and coordinator of container_runtime.py send the    *)
(* jobs and judge the outcome, and the evidence is compiled from it.       *)
(*                                                                         *)
(* Timeouts are generous compared with a lease, so a wait gives up only    *)
(* when nothing in the system can move any more (Stuck).  Docker commands  *)
(* do not fail here; DockerDrills is about those.                          *)
(***************************************************************************)
EXTENDS DrillWorkers, SoakEvidence

CONSTANTS Batch   \* the run ids the driver sends after the victim's, in order

ASSUME BatchAssumption ==
    Batch \in Seq(Runs) /\ IsInjective(Batch) /\ Range(Batch) = Runs \ {VictimRun}

VARIABLES
    step,       \* where the driver is
    sent,       \* how many jobs of Batch are sent
    uncertain,  \* an enqueue of the current job has failed
    left,       \* processing keys that processing_count still has to read
    empty,      \* every length read in this pass of the drain loop was 0
    verdict,    \* "none", "passed" or why the drill failed
    evidence    \* "none" or the outcome of compile_evidence

driverVars == <<step, sent, uncertain, left, empty, verdict, evidence>>
soakVars == <<drillVars, driverVars>>

\* The steps of execute() that put a time into the observation, in order.
Marks == <<"seed", "claim", "recovery", "cut", "reconnect", "drain", "sample", "check">>
TimeOf(mark) == CHOOSE i \in DOMAIN Marks : Marks[i] = mark

DriverOnly == UNCHANGED <<drill, workerVars, requests, trackerVars, metricVars, historyVars>>
SenderOnly == UNCHANGED <<drill, workerVars, requests, trackerVars, metricVars, done>>
To(next) == step' = next
KeepVerdict == UNCHANGED <<verdict, evidence>>
Reading == UNCHANGED <<left, empty>>

Fail(why) ==
    /\ verdict' = why
    /\ UNCHANGED evidence

(***************************************************************************)
(* Nothing moves any more: no worker is busy, no job waits, and every list *)
(* with a job in it belongs to a live worker that renews its lease.        *)
(***************************************************************************)
Stuck ==
    /\ Up
    /\ pending = <<>>
    /\ \A w \in Workers : ~Busy(w)
    /\ \A w \in Workers : processing[w] # <<>> => Alive(w) /\ w \in leased

-----------------------------------------------------------------------------
(* Sending jobs                                                            *)

\* Mutant: created = False always means a duplicate run id.
EnqueueNeverUncertain(r, next) ==
    /\ Up
    /\ IF r \in dedupe
       THEN Fail("duplicate") /\ UNCHANGED <<queueVars, step, uncertain>>
       ELSE Enqueue(r) /\ To(next) /\ uncertain' = FALSE /\ KeepVerdict
    /\ UNCHANGED <<netVars, spoiled>>

\* A job whose first enqueue had effect may be finished by now: this one sends
\* it again.
SentAgain(r) == uncertain /\ r \notin dedupe /\ starts[r] > 0

\* enqueue_with_retry, and the loop in enqueue_jobs: an answer arrives.
EnqueueAnswered(r, next) ==
    /\ Up
    /\ IF r \in dedupe /\ ~uncertain
       THEN Fail("duplicate") /\ UNCHANGED <<queueVars, step, uncertain>>
       ELSE Enqueue(r) /\ To(next) /\ uncertain' = FALSE /\ KeepVerdict
    /\ spoiled' = (spoiled \/ SentAgain(r))
    /\ UNCHANGED netVars

\* ... or the call raises, with or without effect.  The replica drill gives up
\* once redis_recovery_timeout_seconds have passed.
EnqueueRaises(r) ==
    /\ \/ AnswerLost(Driver, "main") /\ Enqueue(r) /\ spoiled' = (spoiled \/ SentAgain(r))
       \/ Refused(Driver, "main") /\ UNCHANGED <<queueVars, spoiled>>
    /\ uncertain' = TRUE
    /\ UNCHANGED step
    /\ KeepVerdict \/ (drill = "replica" /\ Fail("unreachable"))

Send(r, next) ==
    /\ EnqueueAnswered(r, next) \/ EnqueueRaises(r)
    /\ SenderOnly

\* The job at the head of what is left of the batch.
SendBatch ==
    /\ step = "send"
    /\ sent < Len(Batch)
    /\ Send(Batch[sent + 1], "send")
    /\ sent' = IF uncertain' \/ verdict' # "none" THEN sent ELSE sent + 1
    /\ Reading

BatchSent(next) ==
    /\ step = "send"
    /\ sent = Len(Batch)
    /\ To(next)
    /\ UNCHANGED <<queueVars, netVars, sent, uncertain>>
    /\ DriverOnly /\ Reading /\ KeepVerdict

-----------------------------------------------------------------------------
(* Runner: the faults                                                      *)

Waiting(from, next, condition) ==
    /\ drill = "soak"
    /\ step = from
    /\ condition
    /\ To(next)
    /\ UNCHANGED <<sent, uncertain>> /\ Reading /\ KeepVerdict

\* seed-victim, with the victim container running
SeedVictim ==
    /\ drill = "soak"
    /\ step = "seed"
    /\ EnqueueAnswered(VictimRun, "claim")   \* no break comes this early
    /\ UNCHANGED sent
    /\ SenderOnly /\ Reading

\* Mutant: the victim is killed as soon as it runs.
KillVictimEarly ==
    /\ Waiting("claim", "workers", Alive(Victim))
    /\ Goto(Victim, "dead")
    /\ job' = [job EXCEPT ![Victim] = NoJob]
    /\ AbortScan(Victim)
    /\ tally' = [tally EXCEPT ![Victim] = 0]
    /\ UNCHANGED <<netVars, drill, call, requests, trackerVars, metricVars, historyVars>>

\* victim_ready is set while the victim sleeps in analyze: docker kill, docker rm.
KillVictim ==
    /\ Waiting("claim", "workers", pc[Victim] = "hold")
    /\ Goto(Victim, "dead")
    /\ job' = [job EXCEPT ![Victim] = NoJob]
    /\ AbortScan(Victim)
    /\ tally' = [tally EXCEPT ![Victim] = 0]
    /\ UNCHANGED <<netVars, drill, call, requests, trackerVars, metricVars, historyVars>>

\* start_worker of the next replica; the last one lets the runner wait.
StartWorker(w) ==
    /\ Waiting("workers", IF \A v \in Workers \ {w} : pc[v] # "off" THEN "recovery" ELSE "workers",
               pc[w] = "off")
    /\ Goto(w, "boot")
    /\ UNCHANGED <<queueVars, netVars, drill, job, call, tally, requests, trackerVars,
                   metricVars, historyVars>>

\* HLEN first_completion = 1: the expired lease is recovered and its job done.
VictimRecovered ==
    /\ Waiting("recovery", "cut", Cardinality(Completed) = 1)
    /\ UNCHANGED <<queueVars, netVars>>
    /\ DriverOnly

\* docker network disconnect, once every worker holds its connection pool; the
\* workers that opened theirs are taken to have entered their loops.
CutNetwork ==
    /\ Waiting("cut", "reconnect", \A w \in Workers : pc[w] \notin {"boot", "booting"})
    /\ Break
    /\ UNCHANGED <<queueVars, breaks>>
    /\ DriverOnly

\* docker network connect, after an outage longer than a pop or a heartbeat takes.
RestoreNetwork ==
    /\ Waiting("reconnect", "reconnected", noticed # {} \/ reconnected)
    /\ ~Up
    /\ Heal
    /\ UNCHANGED <<queueVars, breaks>>
    /\ DriverOnly

\* A worker counts a reconnection; the coordinator is started.
ReconnectionSeen ==
    /\ Waiting("reconnected", "send", reconnected)
    /\ UNCHANGED <<queueVars, netVars>>
    /\ DriverOnly

-----------------------------------------------------------------------------
(* Coordinator.  Every read goes through RedisTracker.retry, which waits   *)
(* for the network.                                                        *)

Read(from, next, condition) ==
    /\ Waiting(from, next, condition)
    /\ Up
    /\ UNCHANGED <<queueVars, netVars>>
    /\ DriverOnly

AllCompleted == Read("complete", "members", Completed = Runs)

\* The drain loop: SMEMBERS, LLEN of pending, LLEN of every key, SCARD.
ReadMembers ==
    /\ drill = "soak" /\ step = "members" /\ Up
    /\ left' = registered
    /\ empty' = TRUE
    /\ To("size")
    /\ UNCHANGED <<queueVars, netVars, sent, uncertain>>
    /\ DriverOnly /\ KeepVerdict

ReadSize ==
    /\ drill = "soak" /\ step = "size" /\ Up
    /\ empty' = (empty /\ pending = <<>>)
    /\ To("count")
    /\ UNCHANGED <<queueVars, netVars, sent, uncertain, left>>
    /\ DriverOnly /\ KeepVerdict

\* processing_count, one key
ReadLength(w) ==
    /\ drill = "soak" /\ step = "count" /\ Up
    /\ w \in left
    /\ left' = left \ {w}
    /\ empty' = (empty /\ processing[w] = <<>>)
    /\ UNCHANGED <<queueVars, netVars, step, sent, uncertain>>
    /\ DriverOnly /\ KeepVerdict

\* pending == 0 and processing == 0 and deduplicated == 0
Drained == empty /\ dedupe = {}

\* SCARD, and the decision to leave the loop, to repeat it or to give up.
ReadCardinality ==
    /\ drill = "soak" /\ step = "count" /\ Up
    /\ left = {}
    /\ IF Drained THEN To("judge") /\ KeepVerdict
       ELSE IF Stuck /\ dedupe # {} THEN Fail("not drained") /\ UNCHANGED step
       ELSE To("members") /\ KeepVerdict
    /\ empty' = FALSE
    /\ UNCHANGED <<queueVars, netVars, sent, uncertain, left>>
    /\ DriverOnly

\* The coordinator reaches its deadline: nothing more will happen.
WaitExpires ==
    /\ drill = "soak" /\ step = "complete"
    /\ Completed # Runs
    /\ Stuck
    /\ Fail("timeout")
    /\ UNCHANGED <<queueVars, netVars, step, sent, uncertain>>
    /\ DriverOnly /\ Reading

\* The results, computed from the hashes, and the exit status they lead to.  The
\* duplicates are the completions of a run after its first.
Lost == Runs \ Completed
DuplicateCompletions == Cardinality(UNION {{r} \X (2 .. completions[r]) : r \in Completed})
ExactlyOnce == Lost = {} /\ DuplicateCompletions = 0
QueueDrained == pending = <<>> /\ \A w \in registered : processing[w] = <<>>

Judge ==
    /\ drill = "soak" /\ step = "judge" /\ Up
    /\ To("observe")
    /\ IF ExactlyOnce /\ QueueDrained
       THEN verdict' = "passed" /\ UNCHANGED evidence
       ELSE Fail("not exactly once")
    /\ UNCHANGED <<queueVars, netVars, sent, uncertain>>
    /\ DriverOnly /\ Reading

-----------------------------------------------------------------------------
(* Evidence                                                                *)

(***************************************************************************)
(* build_observation with the measurements m: what docker stats, Postgres, *)
(* Redis and the latencies of the jobs amounted to.                        *)
(***************************************************************************)
build_observation(m) ==
    [started_at |-> TimeOf("seed"), completed_at |-> TimeOf("sample"),
     captured_at |-> TimeOf("sample"), checked_at |-> TimeOf("check"),
     minDuration |-> 0, minSlo |-> 99, maxRecovery |-> Len(Marks),
     jobs |-> Cardinality(Runs), burst |-> 1, planned |-> Max({1, Planned(Cardinality(Runs), 1)}),  \* at least 0.001
     arrivalRate |-> 4, recommendedRate |-> 4, sustainedRate |-> 5,
     headroom |-> 20, reviewed |-> TRUE,
     providers |-> [p \in Providers |-> Audit(requests[p])],
     faults |-> [worker_termination   |-> Fault(TimeOf("claim"), TimeOf("recovery")),
                 expired_lease        |-> Fault(TimeOf("claim"), TimeOf("recovery")),
                 network_interruption |-> Fault(TimeOf("cut"), TimeOf("reconnect"))],
     completed_jobs |-> Cardinality(Completed), lost_jobs |-> Cardinality(Lost),
     duplicate_completions |-> DuplicateCompletions,
     exactly_once |-> ExactlyOnce, queue_drained |-> QueueDrained,
     startP95 |-> m.startP95, completionP95 |-> m.completionP95,
     startSlo |-> m.startSlo, completionSlo |-> m.completionSlo,
     cpu |-> m.cpu, memory |-> m.memory, redis |-> m.redis,
     pool |-> m.pool, connections |-> m.connections,
     secret_scan_matches |-> m.secrets]

\* Every measurement at its limit ...
Within ==
    [startP95 |-> 60, completionP95 |-> 120, startSlo |-> 99, completionSlo |-> 99,
     cpu |-> MaxUtilization, memory |-> MaxUtilization, redis |-> MaxUtilization,
     pool |-> Replicas * PoolSize, connections |-> MaxConnections, secrets |-> 0]

\* ... and the values next beyond it, or that do not parse.
Beyond ==
    [startP95 |-> {61}, completionP95 |-> {121}, startSlo |-> {98}, completionSlo |-> {98},
     cpu |-> {MaxUtilization + 1, 101}, memory |-> {MaxUtilization + 1, 101},
     redis |-> {MaxUtilization + 1, 101}, pool |-> {0, Replicas * PoolSize + 1},
     connections |-> {MaxConnections + 1}, secrets |-> {1}]

\* Bound: at most one measurement is beyond its limit.
Measurements ==
    {Within} \cup UNION {{[Within EXCEPT ![f] = x] : x \in Beyond[f]} : f \in DOMAIN Within}

CompileEvidence ==
    /\ drill = "soak" /\ step = "observe" /\ verdict = "passed" /\ evidence = "none"
    /\ \E m \in Measurements :
        /\ evidence' = compile_evidence(build_observation(m))
        /\ step' = IF m = Within THEN "within" ELSE "beyond"
    /\ UNCHANGED <<queueVars, netVars, sent, uncertain, verdict>>
    /\ DriverOnly /\ Reading

-----------------------------------------------------------------------------

\* The network fails without being asked to, and comes back.  (The driver may
\* stay at "send" for as long as it likes after its last job.)
UnplannedBreak ==
    /\ step = "send"
    /\ breaks < MaxBreaks
    /\ Break
    /\ breaks' = breaks + 1
    /\ UNCHANGED <<queueVars, driverVars>>
    /\ DriverOnly

NetworkReturns ==
    /\ ~Up
    /\ step # "reconnect"
    /\ Heal
    /\ UNCHANGED <<queueVars, breaks, driverVars>>
    /\ DriverOnly

SoakNext ==
    \/ SeedVictim \/ KillVictim \/ VictimRecovered \/ CutNetwork \/ RestoreNetwork
    \/ ReconnectionSeen \/ AllCompleted \/ ReadMembers \/ ReadSize \/ ReadCardinality
    \/ WaitExpires \/ Judge
    \/ drill = "soak" /\ (SendBatch \/ BatchSent("complete"))
    \/ \E w \in Workers : StartWorker(w) \/ ReadLength(w)

=============================================================================
