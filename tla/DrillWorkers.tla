----------------------------- MODULE DrillWorkers -----------------------------
(***************************************************************************)
(* What the two worker drills of ops/worker run: AnalysisWorker (worker.py)*)
(* over the real Redis queue, with a synthetic pipeline that counts what   *)
(* it does.  In the container soak (container_runtime.py) the counters are *)
(* Redis hashes and the pipeline calls a provider that fails at first; in  *)
(* the replica drill (verify_replica_recovery.py) they are Python objects  *)
(* of the drill's own process.                                             *)
(*                                                                         *)
(* The network between the clients and Redis may break.  A command issued  *)
(* before the break may have been carried out although its answer is lost, *)
(* at most one per client; every other command raises RedisError.          *)
(*                                                                         *)
(* The heartbeat interval is shorter than the lease (validate_args, and    *)
(* the profiles of the soak), so a lease runs out only while its worker is *)
(* gone or cut off.  Outages of the soak are shorter than a lease, as the  *)
(* one that it plans is (network_fault_seconds 2 of 3, and 5 of 30); those *)
(* of the replica drill may be longer.  The soak kills the victim before   *)
(* its sleep in analyze (victim_hold_seconds, four leases) ends: a runner  *)
(* that takes longer to see victim_ready and to kill it, in which case the *)
(* victim goes on and finishes its job, is not modelled.                   *)
(***************************************************************************)
EXTENDS RedisQueue

CONSTANTS
    Victim,       \* worker-1 of the soak, the "abandoned" queue of the replica drill
    VictimRun,    \* the job that it claims and never settles
    Driver,       \* the producer: seed-victim and coordinator, or run_drill
    NoRun,        \* no job at hand
    MaxBreaks     \* bound: breaks of the network that the drill did not plan

ASSUME DrillAssumption ==
    /\ Victim \in Workers
    /\ VictimRun \in Runs
    /\ Driver \notin Workers
    /\ NoRun \notin Runs
    /\ MaxBreaks \in Nat

VARIABLES
    drill,        \* "soak" or "replica"
    pc,           \* where the main loop of a worker is
    job,          \* the job process_next holds
    call,         \* provider and tries of the HTTP call a pipeline is in
    tally,        \* jobs recover_orphaned counted in this round; Raised after an error
    net,          \* "up" or "down"
    inflight,     \* tasks whose last command may yet have taken effect
    breaks,       \* unplanned breaks so far
    requests,     \* requests a provider has numbered, counted up to Healthy
    starts,       \* start counter of every job
    completions,  \* completion counter of every job
    worked,       \* workers that started a job (worker_counts)
    recovered,    \* pipelens_queue_recovered_total over all workers
    noticed,      \* phases of workers with a recorded queue failure
    reconnected,  \* pipelens_queue_reconnections_total >= 1
    done,         \* history: how often a pipeline really finished a run
    spoiled       \* history: a break of the network spoiled the drill

workerVars == <<pc, job, call, tally>>
netVars == <<net, inflight, breaks>>
trackerVars == <<starts, completions, worked, recovered>>
metricVars == <<noticed, reconnected>>
historyVars == <<done, spoiled>>
drillVars == <<queueVars, drill, workerVars, netVars, requests, trackerVars,
               metricVars, historyVars>>

Providers == {"github", "llm"}
Healthy == 3             \* from this request number on a provider answers 200
MaxTries == 4            \* RetryPolicy(max_attempts=4) of ContainerPipeline
Raised == 9              \* value of tally after a RedisError: the round is given up

NoJob == [run |-> NoRun, attempts |-> 0]
NoCall == [provider |-> "github", tries |-> 0]

Up == net = "up"
Alive(w) == pc[w] \notin {"off", "dead"}
Goto(w, label) == pc' = [pc EXCEPT ![w] = label]
Busy(w) == pc[w] \in {"claimed", "hold", "call", "complete", "ack"}

\* Number of jobs with a first completion: HLEN, or len(completed_at).
Completed == {r \in Runs : completions[r] > 0}

DrillInit ==
    /\ QueueInit
    /\ drill \in {"soak", "replica"}
    /\ job = [w \in Workers |-> NoJob]
    /\ call = [w \in Workers |-> NoCall]
    /\ tally = [w \in Workers |-> 0]
    /\ net = "up" /\ inflight = {} /\ breaks = 0
    /\ requests = [p \in Providers |-> 0]
    /\ starts = [r \in Runs |-> 0]
    /\ completions = [r \in Runs |-> 0]
    /\ worked = {} /\ recovered = 0
    /\ noticed = {} /\ reconnected = FALSE
    /\ done = [r \in Runs |-> 0]
    /\ spoiled = FALSE

-----------------------------------------------------------------------------
(* Network and leases                                                      *)

\* Where the main loop of a worker awaits a command that changes something.
Commanding == {"idle", "ack"} \cup IF drill = "soak" THEN {"claimed", "complete"} ELSE {}

\* docker network disconnect, or the network by itself.
Break ==
    /\ Up
    /\ net' = "down"
    /\ inflight' = {<<w, "main">> : w \in {v \in Workers : pc[v] \in Commanding}}
          \cup {<<w, "maintenance">> : w \in {v \in Workers : Alive(v) /\ scan[v] # {}}}
          \cup {<<Driver, "main">>}

Heal ==
    /\ net' = "up"
    /\ inflight' = {}

\* A client's command was carried out and its answer is lost ...
AnswerLost(c, task) ==
    /\ <<c, task>> \in inflight
    /\ inflight' = inflight \ {<<c, task>>}
    /\ UNCHANGED <<net, breaks>>

\* ... or was not carried out.
Refused(c, task) ==
    /\ ~Up
    /\ inflight' = inflight \ {<<c, task>>}
    /\ UNCHANGED <<net, breaks>>

LeaseRunsOut(w) ==
    /\ ~Alive(w) \/ (~Up /\ drill = "replica")
    /\ LeaseExpires(w)
    /\ UNCHANGED <<drill, workerVars, netVars, requests, trackerVars, metricVars, historyVars>>

-----------------------------------------------------------------------------
(* Queue failures and reconnections of a worker, by phase                  *)

\* _record_queue_error.  Only the soak reads the metric, and asks if it is >= 1.
QueueError(w, phase) ==
    /\ noticed' = IF reconnected \/ drill = "replica" THEN noticed
                  ELSE noticed \cup {<<w, phase>>}
    /\ UNCHANGED reconnected

\* _record_queue_success
QueueSuccess(w, phase) ==
    /\ reconnected' = (reconnected \/ <<w, phase>> \in noticed)
    /\ noticed' = IF reconnected' THEN {} ELSE noticed \ {<<w, phase>>}

-----------------------------------------------------------------------------
(* Maintenance: heartbeat and recover_orphaned, at startup and then as a   *)
(* task of its own.  A round may begin whenever none is under way; one     *)
(* that would find every lease valid changes nothing and is left out,      *)
(* unless it is the first of its worker or the first after an error.  A    *)
(* live worker keeps its lease while the network is up, so "w \in leased"  *)
(* says that the heartbeat which precedes a scan or a pop has been sent.   *)

MaintenanceOnly ==
    UNCHANGED <<drill, job, call, requests, starts, completions, worked, done>>

RoundMatters(w) ==
    pc[w] = "booting" \/ <<w, "maintenance">> \in noticed \/ registered \ leased # {}

Beat(w) ==
    /\ Alive(w) /\ pc[w] # "boot"
    /\ Up
    /\ Heartbeat(w)
    /\ UNCHANGED <<pc, tally, netVars, recovered, metricVars, spoiled>>
    /\ MaintenanceOnly

Scan(w) ==
    /\ Alive(w) /\ pc[w] # "boot"
    /\ Up
    /\ tally[w] # Raised
    /\ w \in leased
    /\ RoundMatters(w)
    /\ ScanWorkers(w)
    /\ UNCHANGED <<pc, tally, netVars, recovered, metricVars, spoiled>>
    /\ MaintenanceOnly

\* run() before its loop: the first round has to succeed.
BootBeat(w) ==
    /\ pc[w] = "boot"
    /\ Up
    /\ Heartbeat(w)
    /\ Goto(w, "booting")
    /\ UNCHANGED <<tally, netVars, recovered, metricVars, spoiled>>
    /\ MaintenanceOnly

\* Recovery takes a job from a worker that is alive and only lost its lease.
TakenOver(v) == v \notin leased /\ Alive(v) /\ processing[v] # <<>>

\* Mutant: the counter is not raised.
RecoverStepUncounted(w) ==
    /\ Alive(w)
    /\ Up
    /\ tally[w] # Raised
    /\ \E v \in scan[w] : Recover(w, v)
    /\ UNCHANGED <<pc, tally, netVars, recovered, metricVars, spoiled>>
    /\ MaintenanceOnly

\* One script of recover_orphaned; the last one ends the round and its count.
RecoverStep(w) ==
    /\ Alive(w)
    /\ Up
    /\ tally[w] # Raised
    /\ \E v \in scan[w] :
        LET found == tally[w] + IF v \in leased THEN 0 ELSE Len(processing[v]) IN
        /\ Recover(w, v)
        /\ spoiled' = (spoiled \/ TakenOver(v))
        /\ IF scan[w] = {v}
           THEN /\ tally' = [tally EXCEPT ![w] = 0]
                /\ recovered' = recovered + found
                /\ pc' = [pc EXCEPT ![w] = IF @ = "booting" THEN "idle" ELSE @]
                /\ QueueSuccess(w, "maintenance")
           ELSE /\ tally' = [tally EXCEPT ![w] = found]
                /\ UNCHANGED <<recovered, metricVars, pc>>
    /\ UNCHANGED netVars
    /\ MaintenanceOnly

\* A round that finds no other worker has nothing to visit.
NothingToRecover(w) ==
    /\ Alive(w) /\ pc[w] # "boot"
    /\ Up
    /\ w \in leased
    /\ RoundMatters(w)
    /\ scan[w] = {} /\ registered \subseteq {w}
    /\ pc' = [pc EXCEPT ![w] = IF @ = "booting" THEN "idle" ELSE @]
    /\ QueueSuccess(w, "maintenance")
    /\ UNCHANGED <<queueVars, tally, netVars, recovered, spoiled>>
    /\ MaintenanceOnly

\* The answer to a recovery script is lost: the jobs moved, nobody counts them.
RecoverLost(w) ==
    /\ Alive(w)
    /\ AnswerLost(w, "maintenance")
    /\ tally[w] # Raised
    /\ \E v \in scan[w] : Recover(w, v) /\ spoiled' = (spoiled \/ TakenOver(v))
    /\ tally' = [tally EXCEPT ![w] = Raised]
    /\ UNCHANGED <<pc, recovered, metricVars>>
    /\ MaintenanceOnly

\* RedisError in a round: it is logged, and the next round begins anew.
MaintenanceFails(w) ==
    /\ Alive(w)
    /\ IF tally[w] = Raised THEN UNCHANGED netVars ELSE Refused(w, "maintenance")
    /\ AbortScan(w)
    /\ tally' = [tally EXCEPT ![w] = 0]
    /\ pc' = [pc EXCEPT ![w] = IF @ = "booting" THEN "boot" ELSE @]
    /\ QueueError(w, "maintenance")
    /\ UNCHANGED <<recovered, spoiled>>
    /\ MaintenanceOnly

-----------------------------------------------------------------------------
(* process_next                                                            *)

MainOnly == UNCHANGED <<drill, call, tally, requests, recovered, historyVars>>
Counters == <<starts, completions, worked>>

\* dequeue: the heartbeat has just renewed the lease (Beat).
DequeuePop(w) ==
    /\ pc[w] = "idle"
    /\ Up
    /\ w \in leased
    /\ Claim(w)
    /\ job' = [job EXCEPT ![w] = Last(pending)]
    /\ Goto(w, "claimed")
    /\ UNCHANGED <<netVars, Counters, metricVars>>
    /\ MainOnly

\* The pop times out and size() answers.
DequeueNothing(w) ==
    /\ pc[w] = "idle"
    /\ Up
    /\ w \in leased
    /\ pending = <<>>
    /\ QueueSuccess(w, "processing")
    /\ UNCHANGED <<queueVars, pc, job, netVars, Counters>>
    /\ MainOnly

\* RedisError in dequeue, size or acknowledge: run() forgets the job at hand.
QueueFails(w) ==
    /\ \/ /\ pc[w] \in {"idle", "claimed", "ack"}
          /\ Refused(w, "main")
          /\ spoiled' = (spoiled \/ Busy(w))            \* the job is stranded
          /\ UNCHANGED queueVars
       \/ /\ pc[w] = "idle"
          /\ AnswerLost(w, "main")
          /\ Claim(w)
          /\ spoiled' = TRUE
       \/ /\ pc[w] = "ack"
          /\ AnswerLost(w, "main")
          /\ Acknowledge(w, job[w])
          /\ UNCHANGED spoiled
    /\ job' = [job EXCEPT ![w] = NoJob]
    /\ Goto(w, "idle")
    /\ QueueError(w, "processing")
    /\ UNCHANGED <<drill, call, tally, requests, recovered, Counters, done>>

AcknowledgeJob(w) ==
    /\ pc[w] = "ack"
    /\ Up
    /\ Acknowledge(w, job[w])
    /\ job' = [job EXCEPT ![w] = NoJob]
    /\ Goto(w, "idle")
    /\ QueueSuccess(w, "processing")
    /\ UNCHANGED <<netVars, Counters>>
    /\ MainOnly

-----------------------------------------------------------------------------
(* The synthetic pipelines                                                 *)

PipelineOnly == UNCHANGED <<queueVars, drill, job, tally, recovered, metricVars>>

\* After the claim size() is read, which is one of the places where a break
\* makes run() forget the job (QueueFails), and then the start is recorded:
\* record_start (RedisTracker), or the first critical section of WorkTracker.process.
CountStart(w) ==
    /\ starts' = [starts EXCEPT ![job[w].run] = @ + 1]
    /\ worked' = worked \cup {w}
    /\ UNCHANGED completions

\* The victim of the soak then sleeps until it is killed (see above).
RecordStart(w) ==
    /\ pc[w] = "claimed"
    /\ Up \/ drill = "replica"
    /\ CountStart(w)
    /\ Goto(w, IF drill = "soak" /\ w = Victim /\ job[w].run = VictimRun
               THEN "hold" ELSE "call")
    /\ UNCHANGED <<netVars, call, requests, historyVars>>
    /\ PipelineOnly

\* RedisTracker.retry repeats the script, which is not idempotent.
RecordStartAgain(w) ==
    /\ drill = "soak"
    /\ pc[w] = "claimed"
    /\ AnswerLost(w, "main")
    /\ CountStart(w)
    /\ UNCHANGED <<pc, call, requests, historyVars>>
    /\ PipelineOnly

\* Status of the n-th request to a provider (ProviderHandler.do_GET).
Status(n) == IF n = 1 THEN 429 ELSE IF n = 2 THEN 503 ELSE 200

\* Mutant: the third try is the last.
CallOutcomeImpatient(c, n) ==
    IF Status(n) = 200
    THEN IF c.provider = "github"
         THEN [label |-> "call", call |-> [provider |-> "llm", tries |-> 0]]
         ELSE [label |-> "complete", call |-> NoCall]
    ELSE IF c.tries + 1 < 2
    THEN [label |-> "call", call |-> [c EXCEPT !.tries = @ + 1]]
    ELSE [label |-> "raise", call |-> NoCall]

(***************************************************************************)
(* One try of request_with_retry for the n-th request of a provider: 429   *)
(* and 503 are tried again while tries are left, then raise_for_status     *)
(* raises; after "github" comes "llm".                                     *)
(***************************************************************************)
CallOutcome(c, n) ==
    IF Status(n) = 200
    THEN IF c.provider = "github"
         THEN [label |-> "call", call |-> [provider |-> "llm", tries |-> 0]]
         ELSE [label |-> "complete", call |-> NoCall]
    ELSE IF c.tries + 1 < MaxTries
    THEN [label |-> "call", call |-> [c EXCEPT !.tries = @ + 1]]
    ELSE [label |-> "raise", call |-> NoCall]

\* The loop over the providers in ContainerPipeline.analyze, one request each.
CallProvider(w) ==
    /\ drill = "soak"
    /\ pc[w] = "call"
    /\ LET p == call[w].provider
           n == requests[p] + 1
           outcome == CallOutcome(call[w], n)
       IN /\ requests' = [requests EXCEPT ![p] = IF n > Healthy + 1 THEN @ ELSE n]
          /\ call' = [call EXCEPT ![w] = outcome.call]
          /\ Goto(w, outcome.label)
          /\ done' = IF outcome.label = "complete"
                     THEN [done EXCEPT ![job[w].run] = @ + 1] ELSE done
    /\ UNCHANGED <<netVars, Counters, spoiled>>
    /\ PipelineOnly

\* record_completion; its answer reaches the worker.
RecordCompletion(w) ==
    /\ drill = "soak"
    /\ pc[w] = "complete"
    /\ Up
    /\ completions' = [completions EXCEPT ![job[w].run] = @ + 1]
    /\ Goto(w, "ack")
    /\ UNCHANGED <<netVars, starts, worked, call, requests, historyVars>>
    /\ PipelineOnly

\* The answer is lost and RedisTracker.retry counts the completion once more.
RecordCompletionAgain(w) ==
    /\ drill = "soak"
    /\ pc[w] = "complete"
    /\ AnswerLost(w, "main")
    /\ completions' = [completions EXCEPT ![job[w].run] = @ + 1]
    /\ spoiled' = TRUE
    /\ UNCHANGED <<pc, starts, worked, call, requests, done>>
    /\ PipelineOnly

\* WorkTracker.process after its sleep
ProcessEnds(w) ==
    /\ drill = "replica"
    /\ pc[w] = "call"
    /\ completions' = [completions EXCEPT ![job[w].run] = @ + 1]
    /\ done' = [done EXCEPT ![job[w].run] = @ + 1]
    /\ Goto(w, "ack")
    /\ UNCHANGED <<netVars, starts, worked, call, requests, spoiled>>
    /\ PipelineOnly

-----------------------------------------------------------------------------

WorkerNext ==
    \E w \in Workers :
        \/ LeaseRunsOut(w)
        \/ Beat(w) \/ Scan(w) \/ BootBeat(w) \/ RecoverStep(w) \/ NothingToRecover(w)
        \/ RecoverLost(w) \/ MaintenanceFails(w)
        \/ DequeuePop(w) \/ DequeueNothing(w)
        \/ QueueFails(w) \/ AcknowledgeJob(w)
        \/ RecordStart(w) \/ RecordStartAgain(w) \/ CallProvider(w)
        \/ RecordCompletion(w) \/ RecordCompletionAgain(w) \/ ProcessEnds(w)

=============================================================================
