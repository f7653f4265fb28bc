---------------------------- MODULE AnalysisSystem ----------------------------
(***************************************************************************)
(* The deployed system: the API that receives webhooks, the Redis queue,   *)
(* worker replicas that run the analysis pipeline, the database and the    *)
(* published diagnosis.  RedisQueue, AnalysisStore and DiagnosisComments   *)
(* hold the shared state; this module is the processes.                    *)
(*                                                                         *)
(* A worker is one process incarnation: it boots, loops over process_next  *)
(* and may die; a restarted replica is another member of Workers.  Two     *)
(* asyncio tasks run in it, the main loop (pc) and the queue maintenance   *)
(* (maint), and interleave at every await.  A store call is synchronous    *)
(* but one transaction, so other processes interleave between store calls. *)
(***************************************************************************)
EXTENDS RedisQueue, AnalysisStore, DiagnosisComments

CONSTANTS
    Handlers,    \* webhook requests the API serves at the same time
    NumStages,   \* stages of the pipeline: 1 is COLLECTING, the last PUBLISHING
    Faults,      \* which faults of the environment are considered, see below
    MaxStalls,   \* bound: how often a live worker outstays its lease
    MaxErrors,   \* bound: how many Redis commands raise, or writes are answered 5xx
    Nobody       \* no job, no request

(***************************************************************************)
(* "crash":    a worker process or the API process may stop at any await   *)
(* "database": a transaction may raise and roll back                       *)
(* "gateway":  GitHub may answer 5xx to a write it has carried out         *)
(* A failing GitHub or LLM call is not optional: every stage may raise.    *)
(* A live worker that stalls for longer than lease_seconds (a blocked      *)
(* event loop, a frozen container) is counted against MaxStalls, a command *)
(* that raises RedisError, with or without effect, and a write that a      *)
(* gateway answers in GitHub's place against MaxErrors.                    *)
(***************************************************************************)
ASSUME SystemAssumption ==
    /\ NumStages \in Nat \ {0, 1}
    /\ MaxStalls \in Nat
    /\ MaxErrors \in Nat
    /\ Faults \subseteq {"crash", "database", "gateway"}
    /\ Nobody \notin Runs

VARIABLES
    pc,          \* where the main loop of a worker is
    job,         \* the QueueJob process_next holds
    stage,       \* the pipeline stage of the attempt
    begun,       \* history: how many attempts of a run begin_analysis accepted
    maint,       \* the next step of _maintain_queue_once
    stalls,      \* leases of live workers that have run out so far
    errors,      \* RedisErrors and 5xx answers so far
    handler,     \* run a webhook request has read as queued, about to enqueue
    api,         \* "up", or "starting" while lifespan reconciles
    backlog      \* queued runs reconcile_queued_analyses still has to enqueue

workerVars == <<pc, job, stage, maint, begun>>
apiVars == <<handler, api, backlog>>
faultVars == <<stalls, errors>>
vars == <<queueVars, storeVars, commentVars, workerVars, faultVars, apiVars>>

PC == {"boot", "idle", "pop", "claimed", "enter", "entered", "body", "leave",
       "save", "write", "finish", "fail", "requeue", "retry", "ack", "dead"}

\* Inside pipeline.analyze, after begin_analysis and before it returns.
Analyzing == {"enter", "entered", "body", "leave", "save", "write", "finish", "fail"}

NoJob == [run |-> Nobody, attempts |-> 0]

\* Mutant: the last stage is taken for one in the middle.
PublishingOffByOne == NumStages + 1
\* The last stage.
Publishing == NumStages

SystemTypeOK ==
    /\ QueueTypeOK
    /\ StoreTypeOK
    /\ CommentsTypeOK
    /\ pc \in [Workers -> PC]
    /\ job \in [Workers -> Envelope \cup {NoJob}]
    /\ stage \in [Workers -> 1 .. NumStages]
    /\ maint \in [Workers -> {"beat", "scan", "recover"}]
    /\ begun \in [Runs -> Nat]
    /\ stalls \in 0 .. MaxStalls
    /\ errors \in 0 .. MaxErrors
    /\ handler \in [Handlers -> Runs \cup {Nobody}]
    /\ api \in {"up", "starting"}
    /\ backlog \in SUBSET Runs

Init ==
    /\ QueueInit
    /\ StoreInit
    /\ CommentsInit
    /\ pc = [w \in Workers |-> "boot"]
    /\ job = [w \in Workers |-> NoJob]
    /\ stage = [w \in Workers |-> 1]
    /\ maint = [w \in Workers |-> "beat"]
    /\ begun = [r \in Runs |-> 0]
    /\ stalls = 0
    /\ errors = 0
    /\ handler = [h \in Handlers |-> Nobody]
    /\ api = "up"
    /\ backlog = {}

-----------------------------------------------------------------------------

\* A Redis command raises; at most MaxErrors do.
RedisError ==
    /\ errors < MaxErrors
    /\ errors' = errors + 1
    /\ UNCHANGED stalls

-----------------------------------------------------------------------------
(* API: webhook and startup reconciliation                                 *)

(***************************************************************************)
(* github_webhook up to the await of enqueue.  GitHub may deliver the same *)
(* failed run any number of times, concurrently.                           *)
(***************************************************************************)
ReceiveWebhook(h, r) ==
    /\ api = "up"
    /\ handler[h] = Nobody
    /\ CreateIfAbsent(r)
    /\ status'[r] = "queued"
    /\ handler' = [handler EXCEPT ![h] = r]
    /\ UNCHANGED <<queueVars, commentVars, workerVars, faultVars, api, backlog>>

EnqueueFromWebhook(h) ==
    /\ handler[h] # Nobody
    /\ Enqueue(handler[h])
    /\ handler' = [handler EXCEPT ![h] = Nobody]
    /\ UNCHANGED <<storeVars, commentVars, workerVars, faultVars, api, backlog>>

\* enqueue raises: the request is answered 503 and nothing retries it.
EnqueueRaises(h) ==
    /\ RedisError
    /\ handler[h] # Nobody
    /\ Enqueue(handler[h]) \/ UNCHANGED queueVars
    /\ handler' = [handler EXCEPT ![h] = Nobody]
    /\ UNCHANGED <<storeVars, commentVars, workerVars, api, backlog>>

\* The API process is replaced; lifespan reads queued_requests before serving.
RestartApi ==
    /\ "crash" \in Faults
    /\ handler' = [h \in Handlers |-> Nobody]
    /\ api' = "starting"
    /\ backlog' = {r \in Runs : status[r] = "queued"}
    /\ UNCHANGED <<queueVars, storeVars, commentVars, workerVars, faultVars>>

Reconcile(r) ==
    /\ r \in backlog
    /\ Enqueue(r)
    /\ backlog' = backlog \ {r}
    /\ UNCHANGED <<storeVars, commentVars, workerVars, faultVars, handler, api>>

ApiUp ==
    /\ api = "starting"
    /\ backlog = {}
    /\ api' = "up"
    /\ UNCHANGED <<queueVars, storeVars, commentVars, workerVars, faultVars, handler, backlog>>

-----------------------------------------------------------------------------
(* Worker: queue maintenance (run at startup, then as a task of its own)   *)

MaintenanceOnly ==
    UNCHANGED <<storeVars, commentVars, job, stage, begun, faultVars, apiVars>>

MaintainHeartbeat(w) ==
    /\ pc[w] # "dead"
    /\ maint[w] = "beat"
    /\ Heartbeat(w)
    /\ maint' = [maint EXCEPT ![w] = "scan"]
    /\ UNCHANGED pc
    /\ MaintenanceOnly

MaintainScan(w) ==
    /\ pc[w] # "dead"
    /\ maint[w] = "scan"
    /\ ScanWorkers(w)
    /\ maint' = [maint EXCEPT ![w] = "recover"]
    /\ UNCHANGED pc
    /\ MaintenanceOnly

MaintainRecover(w) ==
    /\ pc[w] # "dead"
    /\ maint[w] = "recover"
    /\ \E v \in scan[w] : Recover(w, v)
    /\ UNCHANGED <<maint, pc>>
    /\ MaintenanceOnly

\* The round is over; the first one lets run() enter the main loop.
MaintainDone(w) ==
    /\ pc[w] # "dead"
    /\ maint[w] = "recover"
    /\ scan[w] = {}
    /\ maint' = [maint EXCEPT ![w] = "beat"]
    /\ pc' = [pc EXCEPT ![w] = IF @ = "boot" THEN "idle" ELSE @]
    /\ UNCHANGED queueVars
    /\ MaintenanceOnly

\* RedisError: logged, and the next round starts from the heartbeat.
MaintainRaises(w) ==
    /\ RedisError
    /\ pc[w] # "dead"
    /\ maint[w] \in {"scan", "recover"}
    /\ AbortScan(w)
    /\ maint' = [maint EXCEPT ![w] = "beat"]
    /\ UNCHANGED <<storeVars, commentVars, pc, job, stage, begun, apiVars>>

-----------------------------------------------------------------------------
(* Worker: process_next around the pipeline                                *)

Goto(w, label) == pc' = [pc EXCEPT ![w] = label]
MainOnly == UNCHANGED <<maint, begun, faultVars, apiVars>>

\* dequeue: the heartbeat and the pop are two round trips.
DequeueHeartbeat(w) ==
    /\ pc[w] = "idle"
    /\ Heartbeat(w)
    /\ Goto(w, "pop")
    /\ UNCHANGED <<storeVars, commentVars, job, stage>>
    /\ MainOnly

DequeuePop(w) ==
    /\ pc[w] = "pop"
    /\ Claim(w)
    /\ job' = [job EXCEPT ![w] = Last(pending)]
    /\ Goto(w, "claimed")
    /\ UNCHANGED <<storeVars, commentVars, stage>>
    /\ MainOnly

DequeueTimeout(w) ==
    /\ pc[w] = "pop"
    /\ pending = <<>>
    /\ Goto(w, "idle")
    /\ UNCHANGED <<queueVars, storeVars, commentVars, job, stage>>
    /\ MainOnly

\* process_next ends and run() calls it again.
NextJob(w) ==
    /\ job' = [job EXCEPT ![w] = NoJob]
    /\ stage' = [stage EXCEPT ![w] = 1]
    /\ Goto(w, "idle")
    /\ UNCHANGED <<storeVars, commentVars, maint, begun, apiVars>>

\* Mutant: <= for < in the comparison with max_attempts.
RetriesLeftOffByOne(w) == job[w].attempts + 1 <= MaxAttempts

\* attempt < max_attempts, where attempt counts the one that just failed.
RetriesLeft(w) == job[w].attempts + 1 < MaxAttempts

(***************************************************************************)
(* The except branch: the exception left analyze, the row gets its verdict *)
(* without a token check, then the job is retried or given up.             *)
(***************************************************************************)
RecordFailure(w) ==
    /\ pc[w] = "requeue"
    /\ Update(job[w].run, IF RetriesLeft(w) THEN "queued" ELSE "failed")
    /\ Goto(w, IF RetriesLeft(w) THEN "retry" ELSE "ack")
    /\ UNCHANGED <<queueVars, commentVars, job, stage>>
    /\ MainOnly

RetryJob(w) ==
    /\ pc[w] = "retry"
    /\ Retry(w, job[w])
    /\ NextJob(w)
    /\ UNCHANGED faultVars

AcknowledgeJob(w) ==
    /\ pc[w] = "ack"
    /\ Acknowledge(w, job[w])
    /\ NextJob(w)
    /\ UNCHANGED faultVars

(***************************************************************************)
(* RedisError in dequeue, size, retry or acknowledge: run() sleeps and     *)
(* calls process_next again; the job at hand is forgotten.                 *)
(***************************************************************************)
QueueRaises(w) ==
    /\ RedisError
    /\ \/ pc[w] \in {"pop", "claimed", "retry", "ack"} /\ UNCHANGED queueVars
       \/ pc[w] = "pop" /\ Claim(w)
       \/ pc[w] = "retry" /\ Retry(w, job[w])
       \/ pc[w] = "ack" /\ Acknowledge(w, job[w])
    /\ NextJob(w)

-----------------------------------------------------------------------------
(* Worker: AnalysisPipeline.analyze                                        *)

PipelineOnly == UNCHANGED <<queueVars, job, maint, begun, faultVars, apiVars>>
StoreRaises == "database" \in Faults

\* History.  The budget is a promise to heartbeats in time and a database that
\* answers; attempts are counted in those instances only, to keep the rest small.
Counted(r) ==
    IF StoreRaises \/ MaxStalls > 0 THEN begun ELSE [begun EXCEPT ![r] = @ + 1]

\* begin_analysis; a rejected begin makes analyze return, and the job is acked.
Begin(w) ==
    /\ pc[w] = "claimed"
    /\ \/ /\ BeginAnalysis(job[w].run, w)
          /\ begun' = Counted(job[w].run)
          /\ Goto(w, "enter")
       \/ /\ ~CanBegin(job[w].run)
          /\ Goto(w, "ack")
          /\ UNCHANGED <<storeVars, begun>>
       \/ /\ StoreRaises
          /\ Goto(w, "requeue")
          /\ UNCHANGED <<storeVars, begun>>
    /\ UNCHANGED <<queueVars, commentVars, job, stage, maint, faultVars, apiVars>>

(***************************************************************************)
(* A fenced check: AnalysisAttemptSuperseded makes analyze return, any     *)
(* other exception leads to finish_analysis(FAILED).                       *)
(***************************************************************************)
Guarded(w, next) ==
    \/ IsCurrent(job[w].run, w) /\ Goto(w, next)
    \/ ~IsCurrent(job[w].run, w) /\ Goto(w, "ack")
    \/ StoreRaises /\ Goto(w, "fail")

\* _stage: record_stage(STARTED), its SELECT ...
EnterStage(w) ==
    /\ pc[w] = "enter"
    /\ Guarded(w, "entered")
    /\ UNCHANGED <<storeVars, commentVars, stage>>
    /\ PipelineOnly

\* ... and its INSERT.
EnteredStage(w) ==
    /\ pc[w] = "entered"
    /\ InsertStartedRow(job[w].run, w)
    /\ Goto(w, "body")
    /\ UNCHANGED <<commentVars, stage>>
    /\ PipelineOnly

(***************************************************************************)
(* The body of a stage.  COLLECTING ends with a fenced update.  PUBLISHING *)
(* begins with the listing of upsert, unless there is nothing to publish:  *)
(* publish_checks is off or the source is not trusted.  When the body      *)
(* raises, _stage tries record_stage(FAILED): a superseded attempt then    *)
(* ends as superseded.                                                     *)
(***************************************************************************)
StageBody(w) ==
    /\ pc[w] = "body"
    /\ \/ /\ stage[w] = Publishing
          /\ ListComments(job[w].run, w)
          /\ Goto(w, "write")
          /\ UNCHANGED storeVars
       \/ /\ stage[w] = 1
          /\ UpdateFenced(job[w].run, w)
          /\ Goto(w, "leave")
          /\ UNCHANGED commentVars
       \/ /\ stage[w] # 1
          /\ Goto(w, "leave")
          /\ UNCHANGED <<storeVars, commentVars>>
       \/ /\ Guarded(w, "fail")
          /\ UNCHANGED <<storeVars, commentVars>>
    /\ UNCHANGED stage
    /\ PipelineOnly

\* The write of upsert: nothing checks the token after the stage was entered.
\* A request that raises may still have been carried out.
Publish(w) ==
    /\ pc[w] = "write"
    /\ \/ WriteComment(job[w].run, w) /\ Goto(w, "leave")
       \/ WriteComment(job[w].run, w) /\ Guarded(w, "fail")
       \/ UNCHANGED commentVars /\ Guarded(w, "fail")
    /\ UNCHANGED <<storeVars, stage>>
    /\ PipelineOnly

\* A carried-out write answered 5xx: request_with_retry sends it once more.
Resend(w) ==
    /\ "gateway" \in Faults
    /\ errors < MaxErrors
    /\ errors' = errors + 1
    /\ pc[w] = "write"
    /\ WriteAnsweredLate(job[w].run, w)
    /\ UNCHANGED <<queueVars, storeVars, workerVars, stalls, apiVars>>

\* record_stage(COMPLETED), then the next stage; results are saved before the last.
LeaveStage(w) ==
    /\ pc[w] = "leave"
    /\ \/ /\ stage[w] = Publishing
          /\ Guarded(w, "finish")
          /\ UNCHANGED stage
       \/ /\ stage[w] # Publishing
          /\ Guarded(w, IF stage[w] + 1 = Publishing THEN "save" ELSE "enter")
          /\ stage' = [stage EXCEPT ![w] = @ + 1]
    /\ UNCHANGED <<storeVars, commentVars>>
    /\ PipelineOnly

\* The update that stores the diagnosis, between DIAGNOSING and PUBLISHING.
SaveResults(w) ==
    /\ pc[w] = "save"
    /\ \/ UpdateFenced(job[w].run, w) /\ Goto(w, "enter")
       \/ ~IsCurrent(job[w].run, w) /\ Goto(w, "ack") /\ UNCHANGED storeVars
       \/ StoreRaises /\ Goto(w, "fail") /\ UNCHANGED storeVars
    /\ UNCHANGED <<commentVars, stage>>
    /\ PipelineOnly

\* finish_analysis at the end of analyze (COMPLETED) or in its handler (FAILED).
Finish(w) ==
    /\ pc[w] \in {"finish", "fail"}
    /\ \/ /\ FinishAnalysis(job[w].run, w, IF pc[w] = "finish" THEN "completed" ELSE "failed")
          /\ Goto(w, IF pc[w] = "finish" THEN "ack" ELSE "requeue")
       \/ ~IsCurrent(job[w].run, w) /\ Goto(w, "ack") /\ UNCHANGED storeVars
       \/ StoreRaises /\ Goto(w, "requeue") /\ UNCHANGED storeVars
    /\ UNCHANGED <<commentVars, stage>>
    /\ PipelineOnly

-----------------------------------------------------------------------------
(* Faults                                                                  *)

(***************************************************************************)
(* A worker process ends: killed, cancelled, or by an exception of the     *)
(* store in process_next, which run() does not catch.  The deployment      *)
(* keeps a replica running.                                                *)
(***************************************************************************)
Crash(w) ==
    /\ \/ "crash" \in Faults /\ pc[w] # "dead"
       \/ StoreRaises /\ pc[w] = "requeue"
    /\ \E v \in Workers \ {w} : pc[v] # "dead"
    /\ Goto(w, "dead")
    /\ stage' = [stage EXCEPT ![w] = 1]
    /\ job' = [job EXCEPT ![w] = NoJob]
    /\ maint' = [maint EXCEPT ![w] = "beat"]
    /\ scan' = [scan EXCEPT ![w] = {}]
    /\ found' = [found EXCEPT ![w] = 0]
    /\ UNCHANGED <<pending, processing, registered, leased, dedupe>>
    /\ UNCHANGED <<storeVars, comments, begun, faultVars, apiVars>>

\* Heartbeats come more often than leases end, unless the worker stalls.
Expire(w) ==
    /\ IF pc[w] = "dead"
       THEN UNCHANGED stalls
       ELSE stalls < MaxStalls /\ stalls' = stalls + 1
    /\ LeaseExpires(w)
    /\ UNCHANGED <<storeVars, commentVars, workerVars, errors, apiVars>>

-----------------------------------------------------------------------------

Maintain(w) ==
    MaintainHeartbeat(w) \/ MaintainScan(w) \/ MaintainRecover(w) \/ MaintainDone(w)

Main(w) ==
    \/ DequeueHeartbeat(w) \/ DequeuePop(w) \/ DequeueTimeout(w)
    \/ Begin(w) \/ EnterStage(w) \/ EnteredStage(w) \/ StageBody(w) \/ Publish(w)
    \/ LeaveStage(w) \/ SaveResults(w) \/ Finish(w)
    \/ RecordFailure(w) \/ RetryJob(w) \/ AcknowledgeJob(w)

Next ==
    \/ \E h \in Handlers :
        \/ \E r \in Runs : ReceiveWebhook(h, r)
        \/ EnqueueFromWebhook(h)
        \/ EnqueueRaises(h)
    \/ RestartApi
    \/ \E r \in Runs : Reconcile(r)
    \/ ApiUp
    \/ \E w \in Workers :
        \/ Maintain(w)
        \/ MaintainRaises(w)
        \/ Main(w)
        \/ QueueRaises(w)
        \/ Resend(w)
        \/ Crash(w)
        \/ Expire(w)

Spec == Init /\ [][Next]_vars

(***************************************************************************)
(* What keeps running: the event loops of live processes, so every step of *)
(* theirs that stays enabled is taken, and the clock, so the lease of a    *)
(* dead worker ends.  Deliveries, restarts and faults are never owed.      *)
(***************************************************************************)
Fairness ==
    /\ \A h \in Handlers : WF_vars(EnqueueFromWebhook(h))
    /\ \A r \in Runs : WF_vars(Reconcile(r))
    /\ WF_vars(ApiUp)
    /\ \A w \in Workers :
        /\ WF_vars(Maintain(w))
        /\ WF_vars(Main(w))
        /\ WF_vars(pc[w] = "dead" /\ Expire(w))

FairSpec == Spec /\ Fairness

-----------------------------------------------------------------------------
(* Properties                                                              *)

(***************************************************************************)
(* A completed analysis stays completed: no late attempt, recovered job or *)
(* redelivered webhook reopens it or reports it as failed.                 *)
(***************************************************************************)
CompletedIsFinal ==
    [][\A r \in Runs : status[r] = "completed" => status'[r] = "completed"]_vars

(***************************************************************************)
(* A row that says running has a live owner, or one whose death will be    *)
(* noticed: the worker of its attempt token is still inside analyze for    *)
(* that run, or it died.  A worker never walks away from a running row.    *)
(***************************************************************************)
RunningIsOwned ==
    \A r \in Runs : status[r] = "running" =>
        \E w \in Workers :
            /\ token[r] = w
            /\ pc[w] = "dead" \/ (pc[w] \in Analyzing /\ job[w].run = r)

(***************************************************************************)
(* While heartbeats arrive in time, one worker at most analyses a run,     *)
(* however webhooks are redelivered and workers die: the deduplication     *)
(* set, the leases and the recovery together act as a lock on the run.     *)
(***************************************************************************)
ExclusiveAnalysis ==
    stalls = 0 => \A v, w \in Workers :
        v # w /\ pc[v] \in Analyzing /\ pc[w] \in Analyzing => job[v].run # job[w].run

(***************************************************************************)
(* While heartbeats arrive in time and no gateway answers for GitHub, a run*)
(* has one published diagnosis at most, also when the attempt that posted  *)
(* it died before finishing or never saw the reply: the next attempt finds *)
(* the object by its marker and edits it (decisions.md D-008: a retry      *)
(* avoids a second notification).                                          *)
(***************************************************************************)
OneDiagnosisPerRun ==
    stalls = 0 /\ errors = 0 => \A r \in Runs : Len(comments[r]) <= 1

(***************************************************************************)
(* The job of a worker that died can be recovered, while heartbeats arrive *)
(* in time: its processing list is still a member of the workers set, or a *)
(* recovery that read the set before is about to visit it.                 *)
(***************************************************************************)
OrphansAreRegistered ==
    stalls = 0 => \A w \in Workers : pc[w] = "dead" /\ processing[w] # <<>> =>
        w \in registered \/ \E v \in Workers : w \in scan[v]

(***************************************************************************)
(* While heartbeats arrive in time, the stage rows that still say STARTED  *)
(* under a running analysis are rows of its current attempt: what a dead   *)
(* attempt left open was closed when the next one took over.               *)
(***************************************************************************)
InterruptedStagesAreClosed ==
    stalls = 0 => \A r \in Runs :
        status[r] = "running" => startedRows[r] \subseteq {token[r]}

Dead == {w \in Workers : pc[w] = "dead"}

(***************************************************************************)
(* A run is tried max_attempts times at most, and once more for every      *)
(* worker that died, however often its webhook is redelivered and whatever *)
(* stage or Redis command raises; and unless a worker died, a run that     *)
(* rests as failed was tried exactly max_attempts times: neither a lost    *)
(* nor a double count between the envelope's attempts and the worker's     *)
(* comparison.                                                             *)
(***************************************************************************)
RetryBudgetKept ==
    \A r \in Runs :
        /\ begun[r] <= MaxAttempts + Cardinality(Dead)
        /\ /\ status[r] = "failed"
           /\ Dead = {}
           /\ \A w \in Workers : job[w].run = r => pc[w] # "requeue"
           => begun[r] = MaxAttempts

(***************************************************************************)
(* Every recorded failure of a workflow is eventually diagnosed or given   *)
(* up, although workers and the API die at any point.                      *)
(***************************************************************************)
EventuallyDecided ==
    \A r \in Runs : status[r] = "queued" ~> status[r] \in {"completed", "failed"}

=============================================================================
