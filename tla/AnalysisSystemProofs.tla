------------------------- MODULE AnalysisSystemProofs -------------------------
(***************************************************************************)
(* Proofs about AnalysisSystem, for every set of runs, workers and webhook *)
(* handlers, every number of stages and attempts and every bound on the    *)
(* faults.                                                                 *)
(***************************************************************************)
EXTENDS AnalysisSystem, RedisQueueProofs, FiniteSetTheorems

-----------------------------------------------------------------------------
(* Types, and the job a worker has in hand                                 *)

\* Where process_next holds a job.
Holding == {"claimed", "requeue", "retry", "ack"} \cup Analyzing

\* What the steps of a worker rely on: the job in hand is an envelope, retry
\* follows a comparison that allowed it, and a listing that found an object
\* found the first one of a run that has one.
WorkerOK(w) ==
    /\ pc[w] \in Holding => job[w] \in Envelope
    /\ pc[w] = "retry" => RetriesLeft(w)
    /\ pc[w] = "write" => 
        \/ found[w] = 0
        \/ found[w] = 1 /\ comments[job[w].run] # <<>>

SystemInv == QueueInv /\ SystemTypeOK /\ \A w \in Workers : WorkerOK(w)

LEMMA SystemInitInv == Init => SystemInv
<1> SUFFICES ASSUME Init PROVE SystemInv
  OBVIOUS
<1>1. QueueInv
  BY QueueInitInv DEF Init
<1>2. SystemTypeOK
  BY <1>1, SystemAssumption
  DEF QueueInv, Init, StoreInit, CommentsInit, SystemTypeOK, StoreTypeOK, CommentsTypeOK,
      Status, PC, NoJob
<1>3. \A w \in Workers : WorkerOK(w)
  BY DEF Init, WorkerOK, Holding, Analyzing
<1> QED BY <1>1, <1>2, <1>3 DEF SystemInv

\* Every step of the system is a step of the queue, or leaves it alone.
LEMMA QueueStep ==
    ASSUME SystemInv, [Next]_vars
    PROVE  [QueueNext]_queueVars
<1>1. CASE UNCHANGED vars
  BY <1>1 DEF vars
<1>2. ASSUME NEW h \in Handlers, EnqueueFromWebhook(h) \/ EnqueueRaises(h)
      PROVE  [QueueNext]_queueVars
  <2>1. handler[h] \in Runs
    BY <1>2 DEF SystemInv, SystemTypeOK, EnqueueFromWebhook, EnqueueRaises
  <2> QED BY <1>2, <2>1 DEF EnqueueFromWebhook, EnqueueRaises, QueueNext
<1>3. ASSUME NEW h \in Handlers, NEW r \in Runs, ReceiveWebhook(h, r)
      PROVE  UNCHANGED queueVars
  BY <1>3 DEF ReceiveWebhook
<1>4. ASSUME RestartApi \/ ApiUp
      PROVE  UNCHANGED queueVars
  BY <1>4 DEF RestartApi, ApiUp
<1>5. ASSUME NEW r \in Runs, Reconcile(r)
      PROVE  QueueNext
  BY <1>5 DEF Reconcile, QueueNext
<1>6. ASSUME NEW w \in Workers, Maintain(w) \/ MaintainRaises(w)
      PROVE  [QueueNext]_queueVars
  <2>1. scan[w] \subseteq Workers
    BY DEF SystemInv, QueueInv, QueueTypeOK
  <2> QED BY <1>6, <2>1
    DEF Maintain, MaintainHeartbeat, MaintainScan, MaintainRecover, MaintainDone,
        MaintainRaises, QueueNext
<1>7. ASSUME NEW w \in Workers, RetryJob(w) \/ AcknowledgeJob(w) \/ QueueRaises(w)
      PROVE  [QueueNext]_queueVars
  <2>1. WorkerOK(w)
    BY DEF SystemInv
  <2> QED BY <1>7, <2>1
    DEF WorkerOK, Holding, RetriesLeft, RetryJob, AcknowledgeJob, QueueRaises, QueueNext
<1>8. ASSUME NEW w \in Workers, DequeueHeartbeat(w) \/ DequeuePop(w)
      PROVE  QueueNext
  BY <1>8 DEF DequeueHeartbeat, DequeuePop, QueueNext
<1>9. ASSUME NEW w \in Workers,
             \/ DequeueTimeout(w) \/ Begin(w) \/ EnterStage(w) \/ EnteredStage(w)
             \/ StageBody(w) \/ Publish(w) \/ LeaveStage(w) \/ SaveResults(w)
             \/ Finish(w) \/ RecordFailure(w) \/ Resend(w)
      PROVE  UNCHANGED queueVars
  BY <1>9
  DEF DequeueTimeout, Begin, EnterStage, EnteredStage, StageBody, Publish, LeaveStage,
      SaveResults, Finish, RecordFailure, Resend, PipelineOnly
<1>10. ASSUME NEW w \in Workers, Crash(w) \/ Expire(w)
       PROVE  QueueNext
  BY <1>10 DEF Crash, Expire, AbortScan, QueueNext
<1> QED BY <1>1, <1>2, <1>3, <1>4, <1>5, <1>6, <1>7, <1>8, <1>9, <1>10 DEF Next, Main

\* A published object is edited in place or added at the end: the list of a
\* run stays a list of attempts and never becomes empty.
LEMMA CarryOutTypes ==
    ASSUME SystemTypeOK, NEW w \in Workers, NEW r \in Runs, CarryOut(r, w),
           found[w] = 0 \/ (found[w] = 1 /\ comments[r] # <<>>)
    PROVE  /\ comments' \in [Runs -> Seq(Workers)]
           /\ comments'[r] # <<>>
           /\ \A q \in Runs \ {r} : comments'[q] = comments[q]
<1>1. comments \in [Runs -> Seq(Workers)]
  BY DEF SystemTypeOK, CommentsTypeOK
<1>2. comments'[r] \in Seq(Workers) /\ comments'[r] # <<>>
  <2>1. CASE found[w] = 0
    <3>1. comments'[r] = Append(comments[r], w)
      BY <1>1, <2>1 DEF CarryOut
    <3> QED BY <1>1, <3>1, AppendProperties
  <2>2. CASE found[w] = 1 /\ comments[r] # <<>>
    <3>1. comments'[r] = [comments[r] EXCEPT ![1] = w]
      BY <1>1, <2>2 DEF CarryOut
    <3>2. comments[r] \in Seq(Workers) /\ 1 \in DOMAIN comments[r]
      BY <1>1, <2>2, EmptySeq, LenProperties
    <3> QED BY <3>1, <3>2, ExceptSeq
  <2> QED BY <2>1, <2>2
<1> QED BY <1>1, <1>2 DEF CarryOut

\* The steps of the API change neither the workers nor what they published.
LEMMA ApiTypes ==
    ASSUME SystemInv, QueueInv',
           \/ \E h \in Handlers :
                \/ \E r \in Runs : ReceiveWebhook(h, r)
                \/ EnqueueFromWebhook(h)
                \/ EnqueueRaises(h)
           \/ RestartApi
           \/ \E r \in Runs : Reconcile(r)
           \/ ApiUp
    PROVE  SystemTypeOK' /\ \A w \in Workers : WorkerOK(w)'
<1>1. UNCHANGED <<workerVars, commentVars, token, startedRows>>
  BY DEF ReceiveWebhook, EnqueueFromWebhook, EnqueueRaises, RestartApi, Reconcile, ApiUp,
         CreateIfAbsent, storeVars
<1>2. status' \in [Runs -> Status]
  BY DEF SystemInv, SystemTypeOK, StoreTypeOK, Status,
         ReceiveWebhook, EnqueueFromWebhook, EnqueueRaises, RestartApi, Reconcile, ApiUp,
         CreateIfAbsent, storeVars
<1>3. /\ handler' \in [Handlers -> Runs \cup {Nobody}]
      /\ api' \in {"up", "starting"}
      /\ backlog' \in SUBSET Runs
  BY DEF SystemInv, SystemTypeOK,
         ReceiveWebhook, EnqueueFromWebhook, EnqueueRaises, RestartApi, Reconcile, ApiUp
<1>4. stalls' \in 0 .. MaxStalls /\ errors' \in 0 .. MaxErrors
  BY SystemAssumption DEF SystemInv, SystemTypeOK, RedisError, faultVars,
         ReceiveWebhook, EnqueueFromWebhook, EnqueueRaises, RestartApi, Reconcile, ApiUp
<1>5. SystemTypeOK'
  BY <1>1, <1>2, <1>3, <1>4
  DEF SystemInv, QueueInv, SystemTypeOK, StoreTypeOK, CommentsTypeOK, workerVars, commentVars
<1>6. \A w \in Workers : WorkerOK(w)'
  BY <1>1 DEF SystemInv, WorkerOK, RetriesLeft, workerVars, commentVars
<1> QED BY <1>5, <1>6

\* The maintenance task changes the queue and its own step only.
LEMMA MaintenanceTypes ==
    ASSUME SystemInv, QueueInv', NEW w \in Workers, Maintain(w) \/ MaintainRaises(w)
    PROVE  SystemTypeOK' /\ \A v \in Workers : WorkerOK(v)'
<1>1. UNCHANGED <<storeVars, commentVars, job, stage, begun, apiVars>>
  BY DEF Maintain, MaintainHeartbeat, MaintainScan, MaintainRecover, MaintainDone,
         MaintainRaises, MaintenanceOnly
<1>2. /\ pc' \in [Workers -> PC]
      /\ maint' \in [Workers -> {"beat", "scan", "recover"}]
      /\ stalls' \in 0 .. MaxStalls /\ errors' \in 0 .. MaxErrors
      /\ \A v \in Workers : pc'[v] = pc[v] \/ pc'[v] = "idle"
  BY SystemAssumption
  DEF SystemInv, SystemTypeOK, PC, RedisError, faultVars,
      Maintain, MaintainHeartbeat, MaintainScan, MaintainRecover, MaintainDone,
      MaintainRaises, MaintenanceOnly
<1>3. SystemTypeOK'
  BY <1>1, <1>2
  DEF SystemInv, QueueInv, SystemTypeOK, StoreTypeOK, CommentsTypeOK,
      storeVars, commentVars, apiVars
<1>4. \A v \in Workers : WorkerOK(v)'
  BY <1>1, <1>2
  DEF SystemInv, WorkerOK, Holding, Analyzing, RetriesLeft, commentVars
<1> QED BY <1>3, <1>4

(***************************************************************************)
(* The steps of the main loop of a worker, with the faults that hit it     *)
(* there: they touch that worker's own state, and no other worker's.       *)
(***************************************************************************)
WorkerStep(w) == Main(w) \/ QueueRaises(w) \/ Resend(w) \/ Crash(w)

LEMMA OthersUntouched ==
    ASSUME SystemInv, NEW w \in Workers, WorkerStep(w), NEW v \in Workers \ {w}
    PROVE  /\ pc'[v] = pc[v] /\ job'[v] = job[v] /\ stage'[v] = stage[v]
           /\ maint'[v] = maint[v] /\ found'[v] = found[v]
<1>1. /\ pc \in [Workers -> PC] /\ job \in [Workers -> Envelope \cup {NoJob}]
      /\ stage \in [Workers -> 1 .. NumStages]
      /\ maint \in [Workers -> {"beat", "scan", "recover"}]
      /\ found \in [Workers -> Nat]
  BY DEF SystemInv, SystemTypeOK, CommentsTypeOK
<1>2. CASE DequeueHeartbeat(w) \/ DequeuePop(w) \/ DequeueTimeout(w)
  BY <1>1, <1>2 DEF DequeueHeartbeat, DequeuePop, DequeueTimeout, MainOnly, Goto, commentVars
<1>3. CASE Begin(w) \/ EnterStage(w) \/ EnteredStage(w)
  BY <1>1, <1>3
  DEF Begin, EnterStage, EnteredStage, Guarded, PipelineOnly, Goto, commentVars
<1>4. CASE StageBody(w) \/ Publish(w)
  BY <1>1, <1>4
  DEF StageBody, Publish, Guarded, PipelineOnly, Goto, ListComments, WriteComment, commentVars
<1>5. CASE LeaveStage(w) \/ SaveResults(w) \/ Finish(w)
  BY <1>1, <1>5 DEF LeaveStage, SaveResults, Finish, Guarded, PipelineOnly, Goto, commentVars
<1>6. CASE RecordFailure(w) \/ RetryJob(w) \/ AcknowledgeJob(w) \/ QueueRaises(w)
  BY <1>1, <1>6
  DEF RecordFailure, RetryJob, AcknowledgeJob, QueueRaises, NextJob, MainOnly, Goto, commentVars
<1>7. CASE Resend(w) \/ Crash(w)
  BY <1>1, <1>7 DEF Resend, Crash, WriteAnsweredLate, Goto, workerVars
<1> QED BY <1>2, <1>3, <1>4, <1>5, <1>6, <1>7 DEF WorkerStep, Main

\* The worker's own state keeps its type, step by step.
LEMMA WorkerTypes ==
    ASSUME SystemInv, NEW w \in Workers, WorkerStep(w)
    PROVE  /\ pc' \in [Workers -> PC]
           /\ job' \in [Workers -> Envelope \cup {NoJob}]
           /\ stage' \in [Workers -> 1 .. NumStages]
           /\ maint' \in [Workers -> {"beat", "scan", "recover"}]
           /\ begun' \in [Runs -> Nat]
           /\ found' \in [Workers -> Nat]
<1>1. /\ pc \in [Workers -> PC] /\ job \in [Workers -> Envelope \cup {NoJob}]
      /\ stage \in [Workers -> 1 .. NumStages]
      /\ maint \in [Workers -> {"beat", "scan", "recover"}]
      /\ begun \in [Runs -> Nat] /\ found \in [Workers -> Nat]
      /\ pending \in Seq(Envelope)
      /\ WorkerOK(w)
  BY DEF SystemInv, SystemTypeOK, CommentsTypeOK, QueueTypeOK
<1>2. CASE DequeueHeartbeat(w) \/ DequeueTimeout(w)
  BY <1>1, <1>2 DEF DequeueHeartbeat, DequeueTimeout, MainOnly, Goto, commentVars, PC
<1>3. CASE DequeuePop(w)
  <2>1. pending # <<>>
    BY <1>3 DEF DequeuePop, Claim
  <2>2. Last(pending) \in Envelope
    BY <1>1, <2>1, PopJob
  <2> QED BY <1>1, <1>3, <2>2 DEF DequeuePop, MainOnly, Goto, commentVars, PC
<1>4. CASE Begin(w)
  <2>1. begun' \in [Runs -> Nat]
    BY <1>1, <1>4 DEF Begin, Counted
  <2> QED BY <1>1, <1>4, <2>1 DEF Begin, Goto, commentVars, PC
<1>5. CASE EnterStage(w) \/ EnteredStage(w)
  BY <1>1, <1>5 DEF EnterStage, EnteredStage, Guarded, PipelineOnly, Goto, commentVars, PC
<1>6. CASE StageBody(w) \/ Publish(w)
  <2>1. UNCHANGED <<job, maint, begun, stage>>
    BY <1>6 DEF StageBody, Publish, PipelineOnly
  <2>2. pc' \in [Workers -> PC]
    BY <1>1, <1>6 DEF StageBody, Publish, Guarded, Goto, PC
  <2>3. found' \in [Workers -> Nat]
    BY <1>1, <1>6 DEF StageBody, Publish, ListComments, WriteComment, commentVars
  <2> QED BY <1>1, <2>1, <2>2, <2>3
<1>7. CASE LeaveStage(w)
  <2>1. stage' \in [Workers -> 1 .. NumStages]
    <3>1. CASE stage[w] # NumStages
      <4>1. stage[w] + 1 \in 1 .. NumStages
        BY <1>1, <3>1, SystemAssumption
      <4>2. stage' = [stage EXCEPT ![w] = stage[w] + 1]
        BY <1>7, <3>1 DEF LeaveStage, Publishing
      <4> QED BY <1>1, <4>1, <4>2
    <3>2. CASE stage[w] = NumStages
      BY <1>1, <1>7, <3>2 DEF LeaveStage, Publishing
    <3> QED BY <3>1, <3>2
  <2> QED BY <1>1, <1>7, <2>1 DEF LeaveStage, Guarded, PipelineOnly, Goto, commentVars, PC
<1>8. CASE SaveResults(w) \/ Finish(w)
  BY <1>1, <1>8 DEF SaveResults, Finish, PipelineOnly, Goto, commentVars, PC
<1>9. CASE RecordFailure(w)
  BY <1>1, <1>9 DEF RecordFailure, MainOnly, Goto, commentVars, PC
<1>10. CASE RetryJob(w) \/ AcknowledgeJob(w) \/ QueueRaises(w)
  <2>1. NextJob(w)
    BY <1>10 DEF RetryJob, AcknowledgeJob, QueueRaises
  <2>2. 1 \in 1 .. NumStages
    BY SystemAssumption
  <2> QED BY <1>1, <2>1, <2>2 DEF NextJob, Goto, commentVars, PC
<1>11. CASE Resend(w)
  BY <1>1, <1>11 DEF Resend, WriteAnsweredLate, workerVars
<1>12. CASE Crash(w)
  BY <1>1, <1>12, SystemAssumption DEF Crash, Goto, PC
<1> QED BY <1>2, <1>3, <1>4, <1>5, <1>6, <1>7, <1>8, <1>9, <1>10, <1>11, <1>12
  DEF WorkerStep, Main

\* The store call of a worker step is about the run of the job in hand.
LEMMA StoreTypes ==
    ASSUME SystemInv, NEW w \in Workers, WorkerStep(w)
    PROVE  StoreTypeOK'
<1>1. StoreTypeOK /\ WorkerOK(w)
  BY DEF SystemInv, SystemTypeOK
<1>2. pc[w] \in Holding => job[w].run \in Runs
  BY <1>1 DEF WorkerOK, Envelope
<1>3. CASE Begin(w)
  BY <1>1, <1>2, <1>3 DEF Begin, BeginAnalysis, StoreTypeOK, Status, storeVars, Holding
<1>4. CASE EnteredStage(w)
  BY <1>1, <1>2, <1>4 DEF EnteredStage, InsertStartedRow, StoreTypeOK, Holding, Analyzing
<1>5. CASE StageBody(w) \/ SaveResults(w)
  BY <1>1, <1>2, <1>5
  DEF StageBody, SaveResults, UpdateFenced, StoreTypeOK, Status, storeVars, Holding, Analyzing
<1>6. CASE Finish(w)
  BY <1>1, <1>2, <1>6 DEF Finish, FinishAnalysis, StoreTypeOK, Status, storeVars, Holding, Analyzing
<1>7. CASE RecordFailure(w)
  BY <1>1, <1>2, <1>7 DEF RecordFailure, Update, StoreTypeOK, Status, storeVars, Holding
<1>8. CASE \/ DequeueHeartbeat(w) \/ DequeuePop(w) \/ DequeueTimeout(w)
           \/ EnterStage(w) \/ Publish(w) \/ LeaveStage(w)
           \/ RetryJob(w) \/ AcknowledgeJob(w) \/ QueueRaises(w) \/ Resend(w) \/ Crash(w)
  <2>1. UNCHANGED storeVars
    BY <1>8 DEF DequeueHeartbeat, DequeuePop, DequeueTimeout, EnterStage, Publish, LeaveStage,
                RetryJob, AcknowledgeJob, QueueRaises, NextJob, Resend, Crash
  <2> QED BY <1>1, <2>1 DEF StoreTypeOK, storeVars
<1> QED BY <1>3, <1>4, <1>5, <1>6, <1>7, <1>8 DEF WorkerStep, Main

\* Published objects keep their type, and a run that has one keeps one.
LEMMA CommentTypes ==
    ASSUME SystemInv, NEW w \in Workers, WorkerStep(w)
    PROVE  /\ comments' \in [Runs -> Seq(Workers)]
           /\ \A r \in Runs : comments[r] # <<>> => comments'[r] # <<>>
<1>1. SystemTypeOK /\ WorkerOK(w) /\ comments \in [Runs -> Seq(Workers)]
  BY DEF SystemInv, SystemTypeOK, CommentsTypeOK
<1>2. CASE UNCHANGED comments
  BY <1>1, <1>2
<1>3. CASE pc[w] = "write" /\ CarryOut(job[w].run, w)
  <2>1. job[w].run \in Runs
    BY <1>1, <1>3 DEF WorkerOK, Envelope, Holding, Analyzing
  <2>2. found[w] = 0 \/ (found[w] = 1 /\ comments[job[w].run] # <<>>)
    BY <1>1, <1>3 DEF WorkerOK
  <2>3. /\ comments' \in [Runs -> Seq(Workers)]
        /\ comments'[job[w].run] # <<>>
        /\ \A q \in Runs \ {job[w].run} : comments'[q] = comments[q]
    BY <1>1, <1>3, <2>1, <2>2, CarryOutTypes
  <2> QED BY <2>1, <2>3
<1>4. UNCHANGED comments \/ (pc[w] = "write" /\ CarryOut(job[w].run, w))
  <2>1. CASE Publish(w) \/ Resend(w)
    BY <2>1 DEF Publish, Resend, WriteComment, WriteAnsweredLate, commentVars
  <2>2. CASE StageBody(w)
    BY <2>2 DEF StageBody, ListComments, commentVars
  <2>3. CASE \/ DequeueHeartbeat(w) \/ DequeuePop(w) \/ DequeueTimeout(w)
             \/ Begin(w) \/ EnterStage(w) \/ EnteredStage(w) \/ LeaveStage(w)
             \/ SaveResults(w) \/ Finish(w) \/ RecordFailure(w)
             \/ RetryJob(w) \/ AcknowledgeJob(w) \/ QueueRaises(w) \/ Crash(w)
    BY <2>3
    DEF DequeueHeartbeat, DequeuePop, DequeueTimeout, Begin, EnterStage, EnteredStage,
        LeaveStage, SaveResults, Finish, RecordFailure, RetryJob, AcknowledgeJob,
        QueueRaises, NextJob, Crash, commentVars
  <2> QED BY <2>1, <2>2, <2>3 DEF WorkerStep, Main
<1> QED BY <1>2, <1>3, <1>4

\* What a worker step leaves in the worker's own hands.
LEMMA OwnHands ==
    ASSUME SystemInv, NEW w \in Workers, WorkerStep(w)
    PROVE  WorkerOK(w)'
<1>1. /\ pc \in [Workers -> PC] /\ job \in [Workers -> Envelope \cup {NoJob}]
      /\ found \in [Workers -> Nat]
      /\ pending \in Seq(Envelope)
      /\ WorkerOK(w)
  BY DEF SystemInv, SystemTypeOK, CommentsTypeOK, QueueTypeOK
<1> USE DEF WorkerOK, Holding, Analyzing
<1>2. CASE \/ DequeueHeartbeat(w) \/ DequeueTimeout(w) \/ RetryJob(w) \/ AcknowledgeJob(w)
           \/ QueueRaises(w) \/ Crash(w)
  <2>1. pc'[w] \in {"pop", "idle", "dead"}
    BY <1>1, <1>2
    DEF DequeueHeartbeat, DequeueTimeout, RetryJob, AcknowledgeJob, QueueRaises, NextJob,
        Crash, Goto
  <2> QED BY <2>1
<1>3. CASE DequeuePop(w)
  <2>1. Last(pending) \in Envelope
    BY <1>1, <1>3, PopJob DEF DequeuePop, Claim
  <2>2. job'[w] \in Envelope /\ pc'[w] = "claimed"
    BY <1>1, <1>3, <2>1 DEF DequeuePop, Goto
  <2> QED BY <2>2
<1>4. CASE RecordFailure(w)
  <2>1. job'[w] = job[w] /\ job[w] \in Envelope
    BY <1>1, <1>4 DEF RecordFailure
  <2>2. pc'[w] = IF RetriesLeft(w) THEN "retry" ELSE "ack"
    BY <1>1, <1>4 DEF RecordFailure, Goto
  <2> QED BY <2>1, <2>2 DEF RetriesLeft
<1>5. CASE Begin(w)
  BY <1>1, <1>5 DEF Begin, Goto
<1>6. CASE EnterStage(w) \/ EnteredStage(w)
  BY <1>1, <1>6 DEF EnterStage, EnteredStage, Guarded, PipelineOnly, Goto
<1>7. CASE StageBody(w)
  <2>1. job'[w] = job[w] /\ job[w] \in Envelope
    BY <1>1, <1>7 DEF StageBody, PipelineOnly
  <2>2. \/ pc'[w] \in {"leave", "fail", "ack"}
        \/ /\ pc'[w] = "write" /\ comments' = comments
           /\ found'[w] = IF comments[job[w].run] = <<>> THEN 0 ELSE 1
    BY <1>1, <1>7 DEF StageBody, Guarded, Goto, ListComments
  <2> QED BY <2>1, <2>2
<1>8. CASE Publish(w)
  <2>1. job'[w] = job[w] /\ job[w] \in Envelope
    BY <1>1, <1>8 DEF Publish, PipelineOnly
  <2>2. pc'[w] \in {"leave", "fail", "ack"}
    BY <1>1, <1>8 DEF Publish, Guarded, Goto
  <2> QED BY <2>1, <2>2
<1>9. CASE LeaveStage(w) \/ SaveResults(w) \/ Finish(w)
  <2>1. job'[w] = job[w] /\ job[w] \in Envelope
    BY <1>1, <1>9 DEF LeaveStage, SaveResults, Finish, PipelineOnly
  <2>2. pc'[w] \in {"finish", "save", "enter", "fail", "ack", "requeue"}
    BY <1>1, <1>9 DEF LeaveStage, SaveResults, Finish, Guarded, Goto
  <2> QED BY <2>1, <2>2
<1>10. CASE Resend(w)
  <2>1. UNCHANGED <<pc, job, found>> /\ pc[w] = "write"
    BY <1>10 DEF Resend, WriteAnsweredLate, workerVars
  <2>2. job[w].run \in Runs
    BY <1>1, <2>1 DEF Envelope
  <2> QED BY <1>1, <2>1, <2>2, CommentTypes
<1> QED BY <1>2, <1>3, <1>4, <1>5, <1>6, <1>7, <1>8, <1>9, <1>10 DEF WorkerStep, Main

LEMMA WorkerStepInv ==
    ASSUME SystemInv, QueueInv', NEW w \in Workers, WorkerStep(w)
    PROVE  SystemTypeOK' /\ \A v \in Workers : WorkerOK(v)'
<1>1. UNCHANGED <<stalls, apiVars>> /\ errors' \in 0 .. MaxErrors
  BY SystemAssumption
  DEF SystemInv, SystemTypeOK, WorkerStep, Main, MainOnly, PipelineOnly, NextJob, RedisError,
      DequeueHeartbeat, DequeuePop, DequeueTimeout, Begin, EnterStage, EnteredStage,
      StageBody, Publish, LeaveStage, SaveResults, Finish, RecordFailure, RetryJob,
      AcknowledgeJob, QueueRaises, Resend, Crash, faultVars
<1>2. SystemTypeOK'
  BY <1>1, WorkerTypes, StoreTypes, CommentTypes
  DEF SystemInv, QueueInv, SystemTypeOK, CommentsTypeOK, apiVars
<1>3. ASSUME NEW v \in Workers \ {w}
      PROVE  WorkerOK(v)'
  <2>1. /\ pc'[v] = pc[v] /\ job'[v] = job[v] /\ found'[v] = found[v]
    BY OthersUntouched
  <2>2. WorkerOK(v)
    BY DEF SystemInv
  <2>3. pc[v] = "write" => job[v].run \in Runs
    BY <2>2 DEF WorkerOK, Envelope, Holding, Analyzing
  <2>4. \A r \in Runs : comments[r] # <<>> => comments'[r] # <<>>
    BY CommentTypes
  <2> QED BY <2>1, <2>2, <2>3, <2>4 DEF WorkerOK, RetriesLeft
<1> QED BY <1>2, <1>3, OwnHands

LEMMA SystemNextInv == SystemInv /\ [Next]_vars => SystemInv'
<1> SUFFICES ASSUME SystemInv, [Next]_vars PROVE SystemInv'
  OBVIOUS
<1>1. QueueInv'
  BY QueueStep, QueueNextInv DEF SystemInv
<1>2. CASE UNCHANGED vars
  <2>1. /\ UNCHANGED <<queueVars, storeVars, commentVars, workerVars, faultVars, apiVars>>
    BY <1>2 DEF vars
  <2>2. SystemTypeOK'
    BY <1>1, <2>1
    DEF SystemInv, QueueInv, SystemTypeOK, StoreTypeOK, CommentsTypeOK, storeVars, commentVars,
        workerVars, faultVars, apiVars
  <2>3. \A w \in Workers : WorkerOK(w)'
    BY <2>1 DEF SystemInv, WorkerOK, RetriesLeft, commentVars, workerVars
  <2> QED BY <1>1, <2>2, <2>3 DEF SystemInv
<1>3. CASE \/ \E h \in Handlers :
                \/ \E r \in Runs : ReceiveWebhook(h, r)
                \/ EnqueueFromWebhook(h)
                \/ EnqueueRaises(h)
           \/ RestartApi
           \/ \E r \in Runs : Reconcile(r)
           \/ ApiUp
  BY <1>1, <1>3, ApiTypes DEF SystemInv
<1>4. ASSUME NEW w \in Workers, Maintain(w) \/ MaintainRaises(w)
      PROVE  SystemInv'
  BY <1>1, <1>4, MaintenanceTypes DEF SystemInv
<1>5. ASSUME NEW w \in Workers, WorkerStep(w)
      PROVE  SystemInv'
  BY <1>1, <1>5, WorkerStepInv DEF SystemInv
<1>6. ASSUME NEW w \in Workers, Expire(w)
      PROVE  SystemInv'
  <2>1. UNCHANGED <<storeVars, commentVars, workerVars, errors, apiVars>>
    BY <1>6 DEF Expire
  <2>2. stalls' \in 0 .. MaxStalls
    BY <1>6, SystemAssumption DEF SystemInv, SystemTypeOK, Expire
  <2>3. SystemTypeOK'
    BY <1>1, <2>1, <2>2
    DEF SystemInv, QueueInv, SystemTypeOK, StoreTypeOK, CommentsTypeOK, storeVars, commentVars,
        workerVars, apiVars
  <2>4. \A v \in Workers : WorkerOK(v)'
    BY <2>1 DEF SystemInv, WorkerOK, RetriesLeft, commentVars, workerVars
  <2> QED BY <1>1, <2>3, <2>4 DEF SystemInv
<1> QED BY <1>2, <1>3, <1>4, <1>5, <1>6 DEF Next, WorkerStep

(***************************************************************************)
(* In every reachable state of the deployed system the queue keys agree    *)
(* with one another, every variable has its type, a worker past dequeue    *)
(* holds an envelope, retry is called below max_attempts only, and a       *)
(* listing that found a published object found one that exists.            *)
(***************************************************************************)
THEOREM SystemInvariant == Spec => []SystemInv
<1>1. Init => SystemInv
  BY SystemInitInv
<1>2. SystemInv /\ [Next]_vars => SystemInv'
  BY SystemNextInv
<1> QED BY <1>1, <1>2, PTL DEF Spec

\* Every variable of the system has its type in every reachable state.
THEOREM SystemTypeCorrect == Spec => []SystemTypeOK
<1>1. SystemInv => SystemTypeOK
  BY DEF SystemInv
<1> QED BY <1>1, SystemInvariant, PTL

(***************************************************************************)
(* The workers and the API use the queue as QueueSpec lets a client use    *)
(* it, so what is proved of the queue holds of the system: in particular a *)
(* job is only retried below max_attempts, and a worker that dies in a     *)
(* recovery only cuts the recovery short.                                  *)
(***************************************************************************)
THEOREM SystemUsesQueue == Spec => QueueSpec
<1>1. Init => QueueInit
  BY DEF Init
<1>2. SystemInv /\ [Next]_vars => [QueueNext]_queueVars
  BY QueueStep
<1> QED BY <1>1, <1>2, SystemInvariant, PTL DEF Spec, QueueSpec

-----------------------------------------------------------------------------
(* Fencing: what the attempt token protects while the database answers     *)

(***************************************************************************)
(* The token column is set exactly while the row says running, a token     *)
(* points to the attempt that drew it, and between finish_analysis(FAILED) *)
(* and the worker's update without a token nobody can take the row: it     *)
(* says failed, which begin_analysis refuses, and one worker at most is    *)
(* about to overwrite it.  Nothing is assumed about leases: the attempts   *)
(* of stalled workers are among those fenced off.                          *)
(***************************************************************************)
FenceInv ==
    /\ \A r \in Runs : status[r] = "running" <=> token[r] # NoToken
    /\ \A r \in Runs, w \in Workers : token[r] = w =>
        pc[w] = "dead" \/ (pc[w] \in Analyzing /\ job[w].run = r)
    /\ \A w \in Workers : pc[w] = "requeue" => status[job[w].run] = "failed"
    /\ \A v, w \in Workers :
        pc[v] = "requeue" /\ pc[w] = "requeue" /\ job[v].run = job[w].run => v = w

LEMMA FenceInit == Init => FenceInv
  BY NoTokenAssumption DEF Init, StoreInit, FenceInv

\* The steps that are not the main loop of a worker.
LEMMA FenceElsewhere ==
    ASSUME SystemInv, FenceInv, SystemTypeOK',
           \/ UNCHANGED vars
           \/ \E h \in Handlers :
                \/ \E r \in Runs : ReceiveWebhook(h, r)
                \/ EnqueueFromWebhook(h)
                \/ EnqueueRaises(h)
           \/ RestartApi
           \/ \E r \in Runs : Reconcile(r)
           \/ ApiUp
           \/ \E w \in Workers : Maintain(w) \/ MaintainRaises(w) \/ Expire(w)
    PROVE  /\ FenceInv'
           /\ \A r \in Runs : status[r] = "completed" => status'[r] = "completed"
<1>1. UNCHANGED <<token, job>>
  BY DEF vars, storeVars, workerVars, ReceiveWebhook, CreateIfAbsent, EnqueueFromWebhook,
         EnqueueRaises, RestartApi, Reconcile, ApiUp, Maintain, MaintainHeartbeat, MaintainScan,
         MaintainRecover, MaintainDone, MaintainRaises, MaintenanceOnly, Expire
<1>2. \A r \in Runs :
        status'[r] = status[r] \/ (status[r] = "absent" /\ status'[r] = "queued")
  BY DEF SystemInv, SystemTypeOK, StoreTypeOK,
         vars, storeVars, ReceiveWebhook, CreateIfAbsent, EnqueueFromWebhook,
         EnqueueRaises, RestartApi, Reconcile, ApiUp, Maintain, MaintainHeartbeat, MaintainScan,
         MaintainRecover, MaintainDone, MaintainRaises, MaintenanceOnly, Expire
<1>3. \A w \in Workers : pc'[w] = pc[w] \/ (pc[w] = "boot" /\ pc'[w] = "idle")
  BY DEF SystemInv, SystemTypeOK,
         vars, workerVars, ReceiveWebhook, EnqueueFromWebhook, EnqueueRaises, RestartApi,
         Reconcile, ApiUp, Maintain, MaintainHeartbeat, MaintainScan, MaintainRecover,
         MaintainDone, MaintainRaises, MaintenanceOnly, Expire
<1>4. \A w \in Workers : pc[w] = "requeue" => job[w].run \in Runs
  BY DEF SystemInv, WorkerOK, Holding, Envelope
<1> QED BY <1>1, <1>2, <1>3, <1>4 DEF FenceInv, Analyzing

(***************************************************************************)
(* A worker step leaves the row of every run but its own alone.  Given     *)
(* what it does to its own row and to its place in the code, the invariant *)
(* is preserved.                                                           *)
(***************************************************************************)
LEMMA FenceFrame ==
    ASSUME SystemInv, FenceInv, NEW w \in Workers, WorkerStep(w), NEW r \in Runs,
           \A q \in Runs \ {r} : status'[q] = status[q] /\ token'[q] = token[q],
           \A q \in Runs \ {r} : token[q] = w => pc'[w] = "dead",
           status'[r] = "running" <=> token'[r] # NoToken,
           token'[r] = w => pc'[w] = "dead" \/ (pc'[w] \in Analyzing /\ job'[w].run = r),
           token'[r] # w => token'[r] \in {token[r], NoToken},
           pc'[w] = "requeue" => /\ job'[w].run = r
                                 /\ status'[r] = "failed"
                                 /\ status[r] # "failed",
           status'[r] = status[r] \/ status[r] # "failed" \/ (pc[w] = "requeue" /\ job[w].run = r)
    PROVE  FenceInv'
<1>1. \A v \in Workers \ {w} : pc'[v] = pc[v] /\ job'[v] = job[v]
  BY OthersUntouched
<1>2. \A v \in Workers : pc[v] = "requeue" => job[v].run \in Runs
  BY DEF SystemInv, WorkerOK, Holding, Envelope
<1>3. \A q \in Runs : status'[q] = "running" <=> token'[q] # NoToken
  BY DEF FenceInv
<1>4. ASSUME NEW q \in Runs, NEW v \in Workers, token'[q] = v
      PROVE  pc'[v] = "dead" \/ (pc'[v] \in Analyzing /\ job'[v].run = q)
  <2>1. CASE v = w /\ q = r
    BY <1>4, <2>1
  <2>2. CASE v = w /\ q # r
    BY <1>4, <2>2
  <2>3. CASE v # w
    <3>1. token[q] = v
      BY <1>4, <2>3, NoTokenAssumption
    <3> QED BY <1>1, <2>3, <3>1 DEF FenceInv
  <2> QED BY <2>1, <2>2, <2>3
<1>5. ASSUME NEW v \in Workers, pc'[v] = "requeue"
      PROVE  status'[job'[v].run] = "failed"
  <2>1. CASE v = w
    BY <1>5, <2>1
  <2>2. CASE v # w
    <3>1. pc[v] = "requeue" /\ job'[v].run = job[v].run /\ status[job[v].run] = "failed"
      BY <1>1, <1>5, <2>2 DEF FenceInv
    <3>2. CASE job[v].run # r
      BY <1>2, <3>1, <3>2
    <3>3. CASE job[v].run = r
      BY <2>2, <3>1, <3>3 DEF FenceInv
    <3> QED BY <3>2, <3>3
  <2> QED BY <2>1, <2>2
<1>6. ASSUME NEW u \in Workers, NEW v \in Workers, pc'[u] = "requeue", pc'[v] = "requeue",
             job'[u].run = job'[v].run
      PROVE  u = v
  <2>1. ASSUME NEW x \in Workers \ {w}, pc'[x] = "requeue", pc'[w] = "requeue"
        PROVE  job'[x].run # job'[w].run
    <3>1. status[job'[x].run] = "failed"
      BY <1>1, <2>1 DEF FenceInv
    <3> QED BY <2>1, <3>1
  <2>2. CASE u # w /\ v # w
    BY <1>1, <1>6, <2>2 DEF FenceInv
  <2> QED BY <1>6, <2>1, <2>2
<1> QED BY <1>3, <1>4, <1>5, <1>6 DEF FenceInv

\* A worker step that writes neither column, and keeps or never had its token.
LEMMA FenceQuiet ==
    ASSUME SystemInv, FenceInv, NEW w \in Workers, WorkerStep(w),
           UNCHANGED <<status, token>>,
           pc'[w] # "requeue",
           \/ pc'[w] = "dead"
           \/ pc[w] \in Analyzing /\ pc'[w] \in Analyzing /\ job'[w] = job[w]
           \/ pc[w] # "dead" /\ pc[w] \notin Analyzing
           \/ pc[w] \in Analyzing /\ token[job[w].run] # w
    PROVE  FenceInv'
<1>1. \A v \in Workers \ {w} : pc'[v] = pc[v] /\ job'[v] = job[v]
  BY OthersUntouched
<1>2. \A r \in Runs : token[r] = w =>
        pc'[w] = "dead" \/ (pc'[w] \in Analyzing /\ job'[w].run = r)
  BY DEF FenceInv, Analyzing
<1> QED BY <1>1, <1>2 DEF FenceInv

LEMMA FenceWorker ==
    ASSUME "database" \notin Faults, SystemInv, FenceInv, NEW w \in Workers, WorkerStep(w)
    PROVE  /\ FenceInv'
           /\ \A r \in Runs : status[r] = "completed" => status'[r] = "completed"
<1>1. /\ pc \in [Workers -> PC] /\ job \in [Workers -> Envelope \cup {NoJob}]
      /\ status \in [Runs -> Status] /\ token \in [Runs -> Workers \cup {NoToken}]
      /\ WorkerOK(w)
  BY DEF SystemInv, SystemTypeOK, StoreTypeOK
<1>2. ~StoreRaises
  BY DEF StoreRaises
<1>3. pc[w] \in Holding => job[w].run \in Runs
  BY <1>1 DEF WorkerOK, Envelope
<1>4. w # NoToken
  BY NoTokenAssumption
<1> DEFINE r == job[w].run
<1>5. CASE \/ DequeueHeartbeat(w) \/ DequeuePop(w) \/ DequeueTimeout(w)
           \/ RetryJob(w) \/ AcknowledgeJob(w) \/ QueueRaises(w)
  <2>1. /\ UNCHANGED <<status, token>>
        /\ pc[w] \in {"idle", "pop", "claimed", "retry", "ack"}
        /\ pc'[w] # "requeue"
    BY <1>1, <1>5
    DEF DequeueHeartbeat, DequeuePop, DequeueTimeout, RetryJob, AcknowledgeJob, QueueRaises,
        NextJob, Goto, storeVars
  <2> QED BY <2>1, FenceQuiet DEF Analyzing
<1>6. CASE Crash(w)
  <2>1. UNCHANGED <<status, token>> /\ pc'[w] = "dead"
    BY <1>1, <1>6 DEF Crash, Goto, storeVars
  <2> QED BY <2>1, FenceQuiet
<1>7. CASE EnterStage(w) \/ EnteredStage(w) \/ Publish(w) \/ LeaveStage(w) \/ Resend(w)
  <2>1. UNCHANGED <<status, token, job>>
    BY <1>7 DEF EnterStage, EnteredStage, Publish, LeaveStage, Resend, InsertStartedRow,
                PipelineOnly, workerVars, storeVars
  <2>2. /\ pc[w] \in Analyzing
        /\ pc'[w] \in Analyzing \/ (pc'[w] = "ack" /\ token[r] # w)
    BY <1>1, <1>2, <1>7
    DEF EnterStage, EnteredStage, Publish, LeaveStage, Resend, Guarded, IsCurrent, Goto,
        Analyzing, workerVars
  <2>3. pc'[w] # "requeue"
    BY <2>2 DEF Analyzing
  <2> QED BY <2>1, <2>2, <2>3, FenceQuiet
<1>8. CASE Begin(w)
  <2>1. r \in Runs /\ pc[w] = "claimed" /\ job' = job
    BY <1>3, <1>8 DEF Begin, Holding
  <2>2. \A q \in Runs : token[q] # w
    BY <2>1 DEF FenceInv, Analyzing
  <2>3. CASE ~CanBegin(r) /\ Goto(w, "ack") /\ UNCHANGED storeVars
    <3>1. UNCHANGED <<status, token>> /\ pc'[w] = "ack"
      BY <1>1, <2>3 DEF Goto, storeVars
    <3> QED BY <2>1, <3>1, FenceQuiet DEF Analyzing
  <2>4. CASE BeginAnalysis(r, w) /\ Goto(w, "enter")
    <3>1. /\ status[r] \in {"queued", "running"}
          /\ status'[r] = "running" /\ token'[r] = w
          /\ \A q \in Runs \ {r} : status'[q] = status[q] /\ token'[q] = token[q]
          /\ pc'[w] = "enter" /\ job'[w].run = r
      BY <1>1, <2>1, <2>4 DEF BeginAnalysis, CanBegin, Goto
    <3>2. FenceInv'
      BY <1>4, <2>1, <2>2, <3>1, FenceFrame DEF Analyzing
    <3> QED BY <2>1, <3>1, <3>2
  <2> QED BY <1>2, <1>8, <2>3, <2>4 DEF Begin
<1>9. CASE StageBody(w) \/ SaveResults(w)
  <2>1. r \in Runs /\ pc[w] \in Analyzing /\ job' = job
    BY <1>3, <1>9 DEF StageBody, SaveResults, PipelineOnly, Holding, Analyzing
  <2>2. /\ UNCHANGED token
        /\ pc'[w] \in Analyzing \/ (pc'[w] = "ack" /\ token[r] # w)
        /\ UNCHANGED status \/ UpdateFenced(r, w)
    BY <1>1, <1>2, <1>9
    DEF StageBody, SaveResults, Guarded, UpdateFenced, IsCurrent, Goto, Analyzing, storeVars
  <2>3. UNCHANGED status
    <3>1. CASE UpdateFenced(r, w)
      <4>1. status[r] = "running" /\ status' = [status EXCEPT ![r] = "running"]
        BY <1>4, <2>1, <3>1 DEF UpdateFenced, IsCurrent, FenceInv
      <4> QED BY <1>1, <4>1
    <3> QED BY <2>2, <3>1
  <2>4. pc'[w] # "requeue"
    BY <2>2 DEF Analyzing
  <2> QED BY <2>1, <2>2, <2>3, <2>4, FenceQuiet
<1>10. CASE Finish(w)
  <2>1. r \in Runs /\ pc[w] \in {"finish", "fail"} /\ pc[w] \in Analyzing /\ job' = job
    BY <1>3, <1>10 DEF Finish, PipelineOnly, Holding, Analyzing
  <2>2. CASE ~IsCurrent(r, w) /\ Goto(w, "ack") /\ UNCHANGED storeVars
    <3>1. UNCHANGED <<status, token>> /\ pc'[w] = "ack" /\ token[r] # w
      BY <1>1, <2>2 DEF Goto, IsCurrent, storeVars
    <3> QED BY <2>1, <3>1, FenceQuiet
  <2>3. CASE /\ FinishAnalysis(r, w, IF pc[w] = "finish" THEN "completed" ELSE "failed")
             /\ Goto(w, IF pc[w] = "finish" THEN "ack" ELSE "requeue")
    <3>1. /\ token[r] = w /\ status[r] = "running"
          /\ \A q \in Runs \ {r} : status'[q] = status[q] /\ token'[q] = token[q]
          /\ token'[r] = NoToken
      BY <1>1, <1>4, <2>1, <2>3 DEF FinishAnalysis, IsCurrent, FenceInv
    <3>2. \/ status'[r] = "completed" /\ pc'[w] = "ack"
          \/ status'[r] = "failed" /\ pc'[w] = "requeue"
      BY <1>1, <2>1, <2>3 DEF FinishAnalysis, Goto
    <3>3. \A q \in Runs \ {r} : token[q] # w
      BY <2>1 DEF FenceInv, Analyzing
    <3>4. FenceInv'
      BY <1>4, <2>1, <3>1, <3>2, <3>3, FenceFrame
    <3> QED BY <2>1, <3>1, <3>4
  <2> QED BY <1>2, <1>10, <2>2, <2>3 DEF Finish
<1>11. CASE RecordFailure(w)
  <2>1. r \in Runs /\ pc[w] = "requeue" /\ job' = job /\ UNCHANGED token
    BY <1>3, <1>11 DEF RecordFailure, Update, Holding
  <2>2. status[r] = "failed" /\ \A q \in Runs : token[q] # w
    BY <2>1 DEF FenceInv, Analyzing
  <2>3. token[r] = NoToken
    BY <1>1, <2>1, <2>2 DEF FenceInv
  <2>4. /\ status'[r] \in {"queued", "failed"} /\ pc'[w] \in {"retry", "ack"}
        /\ \A q \in Runs \ {r} : status'[q] = status[q]
    BY <1>1, <1>11, <2>1, <2>2 DEF RecordFailure, Update, Goto
  <2>5. FenceInv'
    BY <1>4, <2>1, <2>2, <2>3, <2>4, FenceFrame
  <2> QED BY <2>1, <2>2, <2>4, <2>5
<1> QED BY <1>5, <1>6, <1>7, <1>8, <1>9, <1>10, <1>11 DEF WorkerStep, Main

LEMMA FenceNext ==
    ASSUME "database" \notin Faults, SystemInv, FenceInv, [Next]_vars
    PROVE  /\ FenceInv'
           /\ \A r \in Runs : status[r] = "completed" => status'[r] = "completed"
<1>1. SystemTypeOK'
  BY SystemNextInv DEF SystemInv
<1>2. ASSUME NEW w \in Workers, WorkerStep(w)
      PROVE  /\ FenceInv'
             /\ \A r \in Runs : status[r] = "completed" => status'[r] = "completed"
  BY <1>2, FenceWorker
<1> QED BY <1>1, <1>2, FenceElsewhere DEF Next, WorkerStep

\* The fence holds throughout, whatever leases expire and processes die.
THEOREM FenceInvariant ==
    ASSUME "database" \notin Faults
    PROVE  Spec => []FenceInv
<1>1. Init => FenceInv
  BY FenceInit
<1>2. SystemInv /\ FenceInv /\ [Next]_vars => FenceInv'
  BY FenceNext
<1> QED BY <1>1, <1>2, SystemInvariant, PTL DEF Spec

(***************************************************************************)
(* While transactions do not raise, a row that says running belongs to a   *)
(* worker that is still inside analyze for that run, or to one that died.  *)
(***************************************************************************)
THEOREM RunningIsOwnedCorrect ==
    ASSUME "database" \notin Faults
    PROVE  Spec => []RunningIsOwned
<1>1. SystemInv /\ FenceInv => RunningIsOwned
  <2> SUFFICES ASSUME SystemInv, FenceInv, NEW r \in Runs, status[r] = "running"
               PROVE  \E w \in Workers :
                        /\ token[r] = w
                        /\ pc[w] = "dead" \/ (pc[w] \in Analyzing /\ job[w].run = r)
    BY DEF RunningIsOwned
  <2>1. token[r] \in Workers
    BY DEF SystemInv, SystemTypeOK, StoreTypeOK, FenceInv
  <2> QED BY <2>1 DEF FenceInv
<1> QED BY <1>1, SystemInvariant, FenceInvariant, PTL

(***************************************************************************)
(* While transactions do not raise, a completed analysis stays completed:  *)
(* no stalled or superseded attempt, recovered job, redelivered webhook or *)
(* unfenced update of a failing worker reopens it.                         *)
(***************************************************************************)
THEOREM CompletedIsFinalCorrect ==
    ASSUME "database" \notin Faults
    PROVE  Spec => CompletedIsFinal
<1>1. SystemInv /\ FenceInv /\ [Next]_vars =>
        [\A r \in Runs : status[r] = "completed" => status'[r] = "completed"]_vars
  BY FenceNext
<1> QED BY <1>1, SystemInvariant, FenceInvariant, PTL DEF Spec, CompletedIsFinal

-----------------------------------------------------------------------------
(* The lease as a lock: what holds while heartbeats arrive in time         *)

\* The worker's first heartbeat went out, and the process is alive.
Beating(w) == pc[w] # "dead" /\ (pc[w] # "boot" \/ maint[w] # "beat")

(***************************************************************************)
(* A worker that beats is leased and registered, so nobody drains its      *)
(* list; hence the job it works on is still in its list, although receipts *)
(* are never looked up again after dequeue; and a list that holds a job,   *)
(* of a live worker or a dead one, is known to the recovery.               *)
(***************************************************************************)
LeaseOK(w) ==
    /\ Beating(w) => w \in leased /\ w \in registered
    /\ pc[w] \in Holding => job[w] \in ToSet(processing[w])
    /\ processing[w] # <<>> => w \in registered

LeaseInv == stalls = 0 => \A w \in Workers : LeaseOK(w)

LEMMA LeaseInit == Init => LeaseInv
  BY DEF Init, QueueInit, LeaseInv, LeaseOK, Beating, Holding, Analyzing

\* A step of one worker that takes nothing from the others' keys.
LEMMA LeaseFrame ==
    ASSUME NEW w \in Workers, \A v \in Workers : LeaseOK(v), LeaseOK(w)',
           registered \subseteq registered', leased \subseteq leased',
           \A v \in Workers \ {w} :
                /\ pc'[v] = pc[v] /\ job'[v] = job[v] /\ maint'[v] = maint[v]
                /\ processing'[v] = processing[v]
    PROVE  \A v \in Workers : LeaseOK(v)'
  BY DEF LeaseOK, Beating

\* The API never touches a lease, a registration or a processing list.
LEMMA LeaseApi ==
    ASSUME SystemInv, \A v \in Workers : LeaseOK(v),
           \/ UNCHANGED vars
           \/ \E h \in Handlers :
                \/ \E r \in Runs : ReceiveWebhook(h, r)
                \/ EnqueueFromWebhook(h)
                \/ EnqueueRaises(h)
           \/ RestartApi
           \/ \E r \in Runs : Reconcile(r)
           \/ ApiUp
    PROVE  \A v \in Workers : LeaseOK(v)'
<1>1. UNCHANGED <<pc, job, maint, processing, registered, leased>>
  BY DEF vars, queueVars, workerVars, ReceiveWebhook, EnqueueFromWebhook, EnqueueRaises,
         RestartApi, Reconcile, ApiUp, Enqueue
<1> QED BY <1>1 DEF LeaseOK, Beating

LEMMA LeaseMaintain ==
    ASSUME SystemInv, \A v \in Workers : LeaseOK(v), NEW w \in Workers,
           Maintain(w) \/ MaintainRaises(w)
    PROVE  \A v \in Workers : LeaseOK(v)'
<1>1. /\ pc \in [Workers -> PC] /\ maint \in [Workers -> {"beat", "scan", "recover"}]
      /\ processing \in [Workers -> Seq(Envelope)]
      /\ scan[w] \subseteq Workers
  BY DEF SystemInv, SystemTypeOK, QueueTypeOK
<1>2. /\ UNCHANGED job
      /\ pc[w] # "dead"
      /\ \A v \in Workers \ {w} : pc'[v] = pc[v] /\ maint'[v] = maint[v]
  BY <1>1 DEF Maintain, MaintainHeartbeat, MaintainScan, MaintainRecover, MaintainDone,
              MaintainRaises, MaintenanceOnly
<1>3. LeaseOK(w)
  OBVIOUS
<1>4. CASE MaintainHeartbeat(w)
  <2>1. /\ leased' = leased \cup {w} /\ registered' = registered \cup {w}
        /\ UNCHANGED <<processing, pc>>
    BY <1>4 DEF MaintainHeartbeat, Heartbeat
  <2>2. LeaseOK(w)'
    BY <1>2, <1>3, <2>1 DEF LeaseOK
  <2> QED BY <1>2, <2>1, <2>2, LeaseFrame
<1>5. CASE MaintainScan(w) \/ MaintainDone(w) \/ MaintainRaises(w)
  <2>1. /\ UNCHANGED <<processing, registered, leased>>
        /\ pc'[w] = pc[w] \/ (pc[w] = "boot" /\ pc'[w] = "idle")
    BY <1>1, <1>5 DEF MaintainScan, MaintainDone, MaintainRaises, ScanWorkers, AbortScan, queueVars
  <2>2. Beating(w)
    BY <1>2, <1>5 DEF Beating, MaintainScan, MaintainDone, MaintainRaises
  <2>3. LeaseOK(w)'
    BY <1>2, <1>3, <2>1, <2>2 DEF LeaseOK, Holding, Analyzing
  <2> QED BY <1>2, <2>1, <2>3, LeaseFrame
<1>6. CASE MaintainRecover(w)
  <2>1. PICK u \in scan[w] : Recover(w, u)
    BY <1>6 DEF MaintainRecover
  <2>2. u \in Workers /\ UNCHANGED <<pc, maint, leased>>
    BY <1>1, <1>6, <2>1 DEF MaintainRecover, Recover
  <2>3. CASE u \in leased
    BY <1>2, <2>1, <2>2, <2>3 DEF Recover, LeaseOK, Beating
  <2>4. CASE u \notin leased
    <3>1. /\ processing'[u] = <<>> /\ registered' = registered \ {u}
          /\ \A v \in Workers \ {u} : processing'[v] = processing[v]
      BY <1>1, <2>1, <2>2, <2>4 DEF Recover
    <3>2. ~Beating(u)
      BY <2>2, <2>4 DEF LeaseOK
    <3>3. pc[u] \notin Holding
      BY <3>2 DEF Beating, Holding, Analyzing
    <3>4. LeaseOK(u)'
      BY <1>2, <2>2, <3>1, <3>2, <3>3 DEF LeaseOK, Beating
    <3>5. \A v \in Workers \ {u} : LeaseOK(v)'
      BY <1>2, <2>2, <3>1 DEF LeaseOK, Beating
    <3> QED BY <3>4, <3>5
  <2> QED BY <2>3, <2>4
<1> QED BY <1>4, <1>5, <1>6 DEF Maintain

LEMMA LeaseWorker ==
    ASSUME SystemInv, \A v \in Workers : LeaseOK(v), NEW w \in Workers, WorkerStep(w)
    PROVE  \A v \in Workers : LeaseOK(v)'
<1>1. /\ pc \in [Workers -> PC] /\ job \in [Workers -> Envelope \cup {NoJob}]
      /\ maint \in [Workers -> {"beat", "scan", "recover"}]
      /\ processing \in [Workers -> Seq(Envelope)] /\ pending \in Seq(Envelope)
      /\ LeaseOK(w)
  BY DEF SystemInv, SystemTypeOK, QueueTypeOK
<1>2. \A v \in Workers \ {w} : pc'[v] = pc[v] /\ job'[v] = job[v] /\ maint'[v] = maint[v]
  BY OthersUntouched
<1>3. CASE DequeueHeartbeat(w)
  <2>1. /\ leased' = leased \cup {w} /\ registered' = registered \cup {w}
        /\ UNCHANGED processing /\ pc'[w] = "pop"
    BY <1>1, <1>3 DEF DequeueHeartbeat, Heartbeat, Goto
  <2>2. LeaseOK(w)'
    BY <2>1 DEF LeaseOK, Holding, Analyzing
  <2> QED BY <1>2, <2>1, <2>2, LeaseFrame
<1>4. CASE DequeuePop(w) \/ (QueueRaises(w) /\ pc[w] = "pop" /\ Claim(w))
  <2>1. /\ pc[w] = "pop" /\ pending # <<>>
        /\ UNCHANGED <<registered, leased>>
        /\ processing'[w] = Cons(Last(pending), processing[w])
        /\ \A v \in Workers \ {w} : processing'[v] = processing[v]
    BY <1>1, <1>4 DEF DequeuePop, Claim
  <2>2. w \in leased /\ w \in registered
    BY <1>1, <2>1 DEF LeaseOK, Beating
  <2>3. Last(pending) \in ToSet(processing'[w])
    <3>1. Last(pending) \in Envelope
      BY <1>1, <2>1, PopJob
    <3>2. 1 \in DOMAIN processing'[w] /\ processing'[w][1] = Last(pending)
      BY <1>1, <2>1, <3>1, ConcatProperties, LenProperties DEF Cons
    <3> QED BY <3>2 DEF ToSet
  <2>4. \/ pc'[w] = "claimed" /\ job'[w] = Last(pending)
        \/ pc'[w] = "idle"
    BY <1>1, <1>4 DEF DequeuePop, QueueRaises, NextJob, Goto
  <2>5. LeaseOK(w)'
    BY <2>1, <2>2, <2>3, <2>4 DEF LeaseOK, Holding, Analyzing
  <2> QED BY <1>2, <2>1, <2>5, LeaseFrame
<1>5. CASE \/ RetryJob(w) \/ AcknowledgeJob(w)
           \/ QueueRaises(w) /\ (Retry(w, job[w]) \/ Acknowledge(w, job[w]))
  <2>1. pc'[w] = "idle" /\ pc[w] \notin {"boot", "dead"}
    BY <1>1, <1>5 DEF RetryJob, AcknowledgeJob, QueueRaises, NextJob, Goto
  <2>2. Retry(w, job[w]) \/ Acknowledge(w, job[w])
    BY <1>5 DEF RetryJob, AcknowledgeJob
  <2>3. /\ UNCHANGED <<registered, leased>>
        /\ \A v \in Workers \ {w} : processing'[v] = processing[v]
    BY <1>1, <2>2 DEF Retry, Acknowledge
  <2>4. w \in leased /\ w \in registered
    BY <1>1, <2>1 DEF LeaseOK, Beating
  <2>5. LeaseOK(w)'
    BY <2>1, <2>3, <2>4 DEF LeaseOK, Holding, Analyzing
  <2> QED BY <1>2, <2>3, <2>5, LeaseFrame
<1>6. CASE \/ DequeueTimeout(w) \/ Crash(w)
           \/ QueueRaises(w) /\ UNCHANGED queueVars
  <2>1. /\ UNCHANGED <<processing, registered, leased>>
        /\ \/ pc[w] # "boot" /\ pc[w] # "dead" /\ pc'[w] = "idle"
           \/ pc'[w] = "dead"
    BY <1>1, <1>6 DEF DequeueTimeout, Crash, QueueRaises, NextJob, Goto, queueVars
  <2>2. LeaseOK(w)'
    BY <1>1, <2>1 DEF LeaseOK, Beating, Holding, Analyzing
  <2> QED BY <1>2, <2>1, <2>2, LeaseFrame
<1>7. CASE \/ Begin(w) \/ EnterStage(w) \/ EnteredStage(w) \/ StageBody(w) \/ Publish(w)
           \/ LeaveStage(w) \/ SaveResults(w) \/ Finish(w) \/ RecordFailure(w) \/ Resend(w)
  <2>1. UNCHANGED <<processing, registered, leased, job>> /\ pc[w] \in Holding
    BY <1>7
    DEF Begin, EnterStage, EnteredStage, StageBody, Publish, LeaveStage, SaveResults, Finish,
        RecordFailure, Resend, PipelineOnly, queueVars, workerVars, Holding, Analyzing
  <2>2. Beating(w)
    BY <2>1 DEF Beating, Holding, Analyzing
  <2>3. LeaseOK(w)'
    BY <1>1, <2>1, <2>2 DEF LeaseOK
  <2> QED BY <1>2, <2>1, <2>3, LeaseFrame
<1> QED BY <1>3, <1>4, <1>5, <1>6, <1>7 DEF WorkerStep, Main, QueueRaises

LEMMA StallsOnlyGrow ==
    ASSUME SystemInv, [Next]_vars
    PROVE  /\ stalls \in Nat /\ errors \in Nat
           /\ stalls' = 0 => stalls = 0
           /\ errors' = 0 => errors = 0
<1>1. stalls \in Nat /\ errors \in Nat
  BY SystemAssumption DEF SystemInv, SystemTypeOK
<1>2. stalls' \in {stalls, stalls + 1} /\ errors' \in {errors, errors + 1}
  BY DEF vars, Next, ReceiveWebhook, EnqueueFromWebhook, EnqueueRaises,
         RestartApi, Reconcile, ApiUp, Maintain, MaintainHeartbeat, MaintainScan,
         MaintainRecover, MaintainDone, MaintainRaises, MaintenanceOnly, Expire,
         Main, MainOnly, PipelineOnly, NextJob, RedisError,
         DequeueHeartbeat, DequeuePop, DequeueTimeout, Begin, EnterStage, EnteredStage,
         StageBody, Publish, LeaveStage, SaveResults, Finish, RecordFailure, RetryJob,
         AcknowledgeJob, QueueRaises, Resend, Crash, faultVars
<1> QED BY <1>1, <1>2

LEMMA LeaseNext == SystemInv /\ LeaseInv /\ [Next]_vars => LeaseInv'
<1> SUFFICES ASSUME SystemInv, LeaseInv, [Next]_vars, stalls' = 0
             PROVE  \A v \in Workers : LeaseOK(v)'
  BY DEF LeaseInv
<1>1. stalls = 0 /\ \A v \in Workers : LeaseOK(v)
  BY StallsOnlyGrow DEF LeaseInv
<1>2. ASSUME NEW w \in Workers, Maintain(w) \/ MaintainRaises(w)
      PROVE  \A v \in Workers : LeaseOK(v)'
  BY <1>1, <1>2, LeaseMaintain
<1>3. ASSUME NEW w \in Workers, WorkerStep(w)
      PROVE  \A v \in Workers : LeaseOK(v)'
  BY <1>1, <1>3, LeaseWorker
<1>4. ASSUME NEW w \in Workers, Expire(w)
      PROVE  \A v \in Workers : LeaseOK(v)'
  <2>1. pc[w] = "dead"
    BY <1>1, <1>4 DEF Expire
  <2>2. /\ leased' = leased \ {w}
        /\ UNCHANGED <<pc, job, maint, processing, registered>>
    BY <1>4 DEF Expire, LeaseExpires, workerVars
  <2> QED BY <1>1, <2>1, <2>2 DEF LeaseOK, Beating
<1> QED BY <1>1, <1>2, <1>3, <1>4, LeaseApi DEF Next, WorkerStep

(***************************************************************************)
(* While no live worker outstays its lease, the lease, the registration    *)
(* and the processing list of every worker agree, whatever else fails.     *)
(***************************************************************************)
THEOREM LeaseInvariant == Spec => []LeaseInv
<1>1. Init => LeaseInv
  BY LeaseInit
<1>2. SystemInv /\ LeaseInv /\ [Next]_vars => LeaseInv'
  BY LeaseNext
<1> QED BY <1>1, <1>2, SystemInvariant, PTL DEF Spec

\* The job in hand is in the worker's list, and a run has one job: two workers
\* never hold the same run.
LEMMA OneHolder ==
    ASSUME SystemInv, \A w \in Workers : LeaseOK(w),
           NEW v \in Workers, NEW w \in Workers, v # w,
           pc[v] \in Holding, pc[w] \in Holding
    PROVE  job[v].run # job[w].run
<1>1. job[v] \in ToSet(processing[v]) /\ job[w] \in ToSet(processing[w])
  BY DEF LeaseOK
<1>2. job[v].run \in RunsOf(processing[v]) /\ job[w].run \in RunsOf(processing[w])
  BY <1>1 DEF ToSet, RunsOf
<1>3. RunsOf(processing[v]) \cap RunsOf(processing[w]) = {}
  BY DEF SystemInv, QueueInv, OneJobPerRun
<1> QED BY <1>2, <1>3

(***************************************************************************)
(* While heartbeats arrive in time, two workers never analyse the same     *)
(* run: deduplication, leases and recovery act as a lock, for any number   *)
(* of workers that crash, raise and recover one another.                   *)
(***************************************************************************)
THEOREM ExclusiveAnalysisCorrect == Spec => []ExclusiveAnalysis
<1>1. SystemInv /\ LeaseInv => ExclusiveAnalysis
  BY OneHolder DEF LeaseInv, ExclusiveAnalysis, Holding
<1> QED BY <1>1, SystemInvariant, LeaseInvariant, PTL

(***************************************************************************)
(* While heartbeats arrive in time, the list of a dead worker that holds a *)
(* job is a member of the workers set, so that the next recovery finds it. *)
(***************************************************************************)
THEOREM OrphansCorrect == Spec => []OrphansAreRegistered
<1>1. LeaseInv => OrphansAreRegistered
  BY DEF LeaseInv, LeaseOK, OrphansAreRegistered
<1> QED BY <1>1, LeaseInvariant, PTL

(***************************************************************************)
(* The row under an attempt, while heartbeats arrive in time: the attempt  *)
(* in analyze owns it, and open stage rows are the owner's.  The database  *)
(* may raise: an attempt whose finish_analysis rolled back has left        *)
(* analyze, and its token says nothing about the worker any more.          *)
(***************************************************************************)
OwnerInv ==
    stalls = 0 =>
        /\ \A w \in Workers : pc[w] \in Analyzing =>
            token[job[w].run] = w /\ status[job[w].run] = "running"
        /\ \A r \in Runs : status[r] = "running" => startedRows[r] \subseteq {token[r]}

LEMMA OwnerInit == Init => OwnerInv
  BY DEF Init, StoreInit, OwnerInv, Analyzing

LEMMA OwnerElsewhere ==
    ASSUME SystemInv, OwnerInv, stalls = 0, stalls' = 0,
           \/ UNCHANGED vars
           \/ \E h \in Handlers :
                \/ \E r \in Runs : ReceiveWebhook(h, r)
                \/ EnqueueFromWebhook(h)
                \/ EnqueueRaises(h)
           \/ RestartApi
           \/ \E r \in Runs : Reconcile(r)
           \/ ApiUp
           \/ \E w \in Workers : Maintain(w) \/ MaintainRaises(w) \/ Expire(w)
    PROVE  OwnerInv'
<1>1. UNCHANGED <<token, startedRows, job>>
  BY DEF vars, storeVars, workerVars, ReceiveWebhook, CreateIfAbsent, EnqueueFromWebhook,
         EnqueueRaises, RestartApi, Reconcile, ApiUp, Maintain, MaintainHeartbeat, MaintainScan,
         MaintainRecover, MaintainDone, MaintainRaises, MaintenanceOnly, Expire
<1>2. \A r \in Runs :
        status'[r] = status[r] \/ (status[r] = "absent" /\ status'[r] = "queued")
  BY DEF SystemInv, SystemTypeOK, StoreTypeOK,
         vars, storeVars, ReceiveWebhook, CreateIfAbsent, EnqueueFromWebhook,
         EnqueueRaises, RestartApi, Reconcile, ApiUp, Maintain, MaintainHeartbeat, MaintainScan,
         MaintainRecover, MaintainDone, MaintainRaises, MaintenanceOnly, Expire
<1>3. \A w \in Workers : pc'[w] = pc[w] \/ pc'[w] = "idle"
  BY DEF SystemInv, SystemTypeOK,
         vars, workerVars, ReceiveWebhook, EnqueueFromWebhook, EnqueueRaises, RestartApi,
         Reconcile, ApiUp, Maintain, MaintainHeartbeat, MaintainScan, MaintainRecover,
         MaintainDone, MaintainRaises, MaintenanceOnly, Expire
<1>4. \A w \in Workers : pc[w] \in Analyzing => job[w].run \in Runs
  BY DEF SystemInv, WorkerOK, Holding, Envelope
<1> QED BY <1>1, <1>2, <1>3, <1>4 DEF OwnerInv, Analyzing

\* The rows of other runs, and the attempts of other workers, stay as they are.
LEMMA OwnerFrame ==
    ASSUME SystemInv, \A v \in Workers : LeaseOK(v), OwnerInv, stalls = 0,
           NEW w \in Workers, WorkerStep(w), pc[w] \in Holding, NEW r, r = job[w].run,
           \A q \in Runs \ {r} : /\ status'[q] = status[q] /\ token'[q] = token[q]
                                 /\ startedRows'[q] = startedRows[q],
           status'[r] = "running" => startedRows'[r] \subseteq {token'[r]},
           pc'[w] \in Analyzing =>
                job'[w].run = r /\ token'[r] = w /\ status'[r] = "running"
    PROVE  OwnerInv'
<1>1. \A v \in Workers \ {w} : pc'[v] = pc[v] /\ job'[v] = job[v]
  BY OthersUntouched
<1>2. ASSUME NEW v \in Workers, pc'[v] \in Analyzing
      PROVE  token'[job'[v].run] = v /\ status'[job'[v].run] = "running"
  <2>1. CASE v = w
    BY <1>2, <2>1
  <2>2. CASE v # w
    <3>1. pc[v] \in Analyzing /\ job'[v] = job[v]
      BY <1>1, <1>2, <2>2
    <3>2. job[v].run # r
      BY <2>2, <3>1, OneHolder DEF Holding
    <3>3. job[v].run \in Runs
      BY <3>1 DEF SystemInv, WorkerOK, Holding, Envelope
    <3>4. token[job[v].run] = v /\ status[job[v].run] = "running"
      BY <3>1 DEF OwnerInv
    <3> QED BY <3>1, <3>2, <3>3, <3>4
  <2> QED BY <2>1, <2>2
<1>3. \A q \in Runs : status'[q] = "running" => startedRows'[q] \subseteq {token'[q]}
  BY DEF OwnerInv
<1> QED BY <1>2, <1>3 DEF OwnerInv

LEMMA OwnerWorker ==
    ASSUME SystemInv, \A v \in Workers : LeaseOK(v), OwnerInv, stalls = 0,
           NEW w \in Workers, WorkerStep(w)
    PROVE  OwnerInv'
<1>1. /\ pc \in [Workers -> PC] /\ job \in [Workers -> Envelope \cup {NoJob}]
      /\ status \in [Runs -> Status] /\ token \in [Runs -> Workers \cup {NoToken}]
      /\ startedRows \in [Runs -> SUBSET Workers]
      /\ WorkerOK(w)
  BY DEF SystemInv, SystemTypeOK, StoreTypeOK
<1>2. pc[w] \in Holding => job[w].run \in Runs
  BY <1>1 DEF WorkerOK, Envelope
<1> DEFINE r == job[w].run
<1>3. pc[w] \in Analyzing =>
        token[r] = w /\ status[r] = "running" /\ startedRows[r] \subseteq {w}
  BY <1>2 DEF OwnerInv, Holding
<1>4. CASE \/ DequeueHeartbeat(w) \/ DequeuePop(w) \/ DequeueTimeout(w)
           \/ RetryJob(w) \/ AcknowledgeJob(w) \/ QueueRaises(w) \/ Crash(w)
  <2>1. UNCHANGED storeVars /\ pc'[w] \notin Analyzing
    BY <1>1, <1>4
    DEF DequeueHeartbeat, DequeuePop, DequeueTimeout, RetryJob, AcknowledgeJob, QueueRaises,
        NextJob, Crash, Goto, Analyzing
  <2>2. \A v \in Workers \ {w} : pc'[v] = pc[v] /\ job'[v] = job[v]
    BY OthersUntouched
  <2> QED BY <2>1, <2>2 DEF OwnerInv, storeVars
<1>5. CASE \/ EnterStage(w) \/ EnteredStage(w) \/ StageBody(w) \/ Publish(w)
           \/ LeaveStage(w) \/ SaveResults(w) \/ Resend(w)
  <2>1. pc[w] \in Analyzing /\ r \in Runs /\ job' = job
    BY <1>2, <1>5
    DEF EnterStage, EnteredStage, StageBody, Publish, LeaveStage, SaveResults, Resend,
        PipelineOnly, workerVars, Holding, Analyzing
  <2>2. /\ UNCHANGED token
        /\ UNCHANGED status \/ status' = [status EXCEPT ![r] = "running"]
        /\ UNCHANGED startedRows \/ startedRows' = [startedRows EXCEPT ![r] = @ \cup {w}]
    BY <1>5
    DEF EnterStage, EnteredStage, StageBody, Publish, LeaveStage, SaveResults, Resend,
        UpdateFenced, InsertStartedRow, storeVars
  <2>3. /\ status'[r] = "running" /\ token'[r] = w
        /\ startedRows'[r] \subseteq {w}
        /\ \A q \in Runs \ {r} : /\ status'[q] = status[q] /\ token'[q] = token[q]
                                 /\ startedRows'[q] = startedRows[q]
    BY <1>1, <1>3, <2>1, <2>2
  <2> QED BY <2>1, <2>3, OwnerFrame DEF Holding
<1>6. CASE Begin(w)
  <2>1. r \in Runs /\ pc[w] = "claimed" /\ pc[w] \in Holding /\ job' = job
    BY <1>2, <1>6 DEF Begin, Holding
  <2>2. CASE UNCHANGED storeVars /\ (Goto(w, "ack") \/ Goto(w, "requeue"))
    <3>1. pc'[w] \notin Analyzing
      BY <1>1, <2>2 DEF Goto, Analyzing
    <3>2. status[r] = "running" => startedRows[r] \subseteq {token[r]}
      BY <2>1 DEF OwnerInv
    <3> QED BY <2>1, <2>2, <3>1, <3>2, OwnerFrame DEF storeVars
  <2>3. CASE BeginAnalysis(r, w) /\ Goto(w, "enter")
    <3>1. /\ status'[r] = "running" /\ token'[r] = w /\ startedRows'[r] = {}
          /\ \A q \in Runs \ {r} : /\ status'[q] = status[q] /\ token'[q] = token[q]
                                   /\ startedRows'[q] = startedRows[q]
      BY <1>1, <2>1, <2>3 DEF BeginAnalysis
    <3> QED BY <2>1, <3>1, OwnerFrame
  <2> QED BY <1>6, <2>2, <2>3 DEF Begin
<1>7. CASE Finish(w)
  <2>1. r \in Runs /\ pc[w] \in Analyzing /\ job' = job
    BY <1>2, <1>7 DEF Finish, PipelineOnly, Holding, Analyzing
  <2>2. pc'[w] \notin Analyzing
    BY <1>1, <1>7 DEF Finish, Goto, Analyzing
  <2>3. \/ UNCHANGED storeVars
        \/ FinishAnalysis(r, w, IF pc[w] = "finish" THEN "completed" ELSE "failed")
    BY <1>7 DEF Finish
  <2>4. /\ \A q \in Runs \ {r} : /\ status'[q] = status[q] /\ token'[q] = token[q]
                                 /\ startedRows'[q] = startedRows[q]
        /\ \/ status'[r] # "running"
           \/ startedRows'[r] \subseteq {token'[r]}
    BY <1>1, <1>3, <2>1, <2>3 DEF FinishAnalysis, storeVars
  <2> QED BY <2>1, <2>2, <2>4, OwnerFrame DEF Holding
<1>8. CASE RecordFailure(w)
  <2>1. r \in Runs /\ pc[w] = "requeue" /\ pc[w] \in Holding /\ job' = job
    BY <1>2, <1>8 DEF RecordFailure, Holding
  <2>2. pc'[w] \notin Analyzing
    BY <1>1, <1>8 DEF RecordFailure, Goto, Analyzing
  <2>3. /\ \A q \in Runs \ {r} : /\ status'[q] = status[q] /\ token'[q] = token[q]
                                 /\ startedRows'[q] = startedRows[q]
        /\ status'[r] # "running"
    BY <1>1, <1>8, <2>1 DEF RecordFailure, Update
  <2> QED BY <2>1, <2>2, <2>3, OwnerFrame
<1> QED BY <1>4, <1>5, <1>6, <1>7, <1>8 DEF WorkerStep, Main

LEMMA OwnerNext == SystemInv /\ LeaseInv /\ OwnerInv /\ [Next]_vars => OwnerInv'
<1> SUFFICES ASSUME SystemInv, LeaseInv, OwnerInv, [Next]_vars, stalls' = 0
             PROVE  OwnerInv'
  BY DEF OwnerInv
<1>1. stalls = 0 /\ \A v \in Workers : LeaseOK(v)
  BY StallsOnlyGrow DEF LeaseInv
<1>2. ASSUME NEW w \in Workers, WorkerStep(w)
      PROVE  OwnerInv'
  BY <1>1, <1>2, OwnerWorker
<1> QED BY <1>1, <1>2, OwnerElsewhere DEF Next, WorkerStep

\* While heartbeats arrive in time, the attempt inside analyze owns its row.
THEOREM OwnerInvariant == Spec => []OwnerInv
<1>1. Init => OwnerInv
  BY OwnerInit
<1>2. SystemInv /\ LeaseInv /\ OwnerInv /\ [Next]_vars => OwnerInv'
  BY OwnerNext
<1> QED BY <1>1, <1>2, SystemInvariant, LeaseInvariant, PTL DEF Spec

(***************************************************************************)
(* While heartbeats arrive in time, the stage rows that are still STARTED  *)
(* under a running analysis are those of its current attempt:              *)
(* begin_analysis has closed what dead attempts left open.                 *)
(***************************************************************************)
THEOREM InterruptedStagesCorrect == Spec => []InterruptedStagesAreClosed
<1>1. OwnerInv => InterruptedStagesAreClosed
  BY DEF OwnerInv, InterruptedStagesAreClosed
<1> QED BY <1>1, OwnerInvariant, PTL

-----------------------------------------------------------------------------
(* One published diagnosis                                                 *)

(***************************************************************************)
(* The listing a worker acts on is still true when it writes: nobody else  *)
(* publishes for the run in between.  So POST is sent only where there is  *)
(* no object, and PATCH adds none.                                         *)
(***************************************************************************)
PublishInv ==
    stalls = 0 /\ errors = 0 =>
        /\ \A r \in Runs : Len(comments[r]) <= 1
        /\ \A w \in Workers : pc[w] = "write" =>
            (found[w] = 0 <=> comments[job[w].run] = <<>>)

LEMMA PublishInit == Init => PublishInv
  BY EmptySeq DEF Init, CommentsInit, PublishInv

\* The write of the worker that holds the run.
LEMMA PublishWrite ==
    ASSUME SystemInv, \A v \in Workers : LeaseOK(v), PublishInv, stalls = 0, errors = 0,
           NEW w \in Workers, Publish(w)
    PROVE  PublishInv'
<1> DEFINE r == job[w].run
<1>1. /\ pc[w] = "write" /\ pc[w] \in Holding /\ WorkerOK(w) /\ SystemTypeOK
      /\ pc \in [Workers -> PC] /\ found \in [Workers -> Nat]
      /\ comments \in [Runs -> Seq(Workers)]
  BY DEF Publish, SystemInv, SystemTypeOK, CommentsTypeOK, Holding, Analyzing
<1>2. r \in Runs
  BY <1>1 DEF WorkerOK, Envelope
<1>3. /\ pc'[w] # "write"
      /\ \A v \in Workers \ {w} : pc'[v] = pc[v] /\ job'[v] = job[v] /\ found'[v] = found[v]
  <2>1. pc'[w] # "write"
    BY <1>1 DEF Publish, Guarded, Goto
  <2> QED BY <2>1, OthersUntouched DEF WorkerStep, Main
<1>4. ASSUME NEW v \in Workers \ {w}, pc[v] = "write"
      PROVE  job[v].run \in Runs /\ job[v].run # r
  <2>1. pc[v] \in Holding /\ WorkerOK(v)
    BY <1>4 DEF SystemInv, Holding, Analyzing
  <2> QED BY <1>1, <2>1, OneHolder DEF WorkerOK, Envelope
<1>5. CASE UNCHANGED comments
  BY <1>3, <1>5 DEF PublishInv
<1>6. CASE CarryOut(r, w)
  <2>1. \A q \in Runs \ {r} : comments'[q] = comments[q]
    BY <1>1 , <1>2, <1>6, CarryOutTypes DEF WorkerOK
  <2>2. Len(comments'[r]) <= 1
    <3>1. CASE found[w] = 0
      <4>1. comments[r] = <<>>
        BY <1>1, <3>1 DEF PublishInv
      <4>2. comments'[r] = Append(<<>>, w)
        BY <1>1, <1>2, <1>6, <3>1, <4>1 DEF CarryOut
      <4>3. <<>> \in Seq(Workers) /\ Len(<<>>) = 0
        BY EmptySeq
      <4> QED BY <4>2, <4>3, AppendProperties
    <3>2. CASE found[w] = 1 /\ comments[r] # <<>>
      <4>1. comments'[r] = [comments[r] EXCEPT ![1] = w]
        BY <1>1, <1>2, <1>6, <3>2 DEF CarryOut
      <4>2. comments[r] \in Seq(Workers) /\ 1 \in 1 .. Len(comments[r])
        BY <1>1, <1>2, <3>2, EmptySeq
      <4>3. Len(comments'[r]) = Len(comments[r])
        BY <4>1, <4>2, ExceptSeq
      <4> QED BY <1>2, <4>3 DEF PublishInv
    <3> QED BY <1>1, <3>1, <3>2 DEF WorkerOK
  <2> QED BY <1>3, <1>4, <2>1, <2>2 DEF PublishInv
<1> QED BY <1>5, <1>6 DEF Publish, WriteComment, commentVars

LEMMA PublishNext == SystemInv /\ LeaseInv /\ PublishInv /\ [Next]_vars => PublishInv'
<1> SUFFICES ASSUME SystemInv, LeaseInv, PublishInv, [Next]_vars, stalls' = 0, errors' = 0
             PROVE  PublishInv'
  BY DEF PublishInv
<1>1. stalls = 0 /\ errors = 0 /\ \A v \in Workers : LeaseOK(v)
  BY StallsOnlyGrow DEF LeaseInv
<1>2. /\ pc \in [Workers -> PC] /\ found \in [Workers -> Nat]
      /\ \A w \in Workers : WorkerOK(w)
  BY DEF SystemInv, SystemTypeOK, CommentsTypeOK
<1>3. CASE \/ UNCHANGED vars
           \/ \E h \in Handlers :
                \/ \E r \in Runs : ReceiveWebhook(h, r)
                \/ EnqueueFromWebhook(h)
                \/ EnqueueRaises(h)
           \/ RestartApi
           \/ \E r \in Runs : Reconcile(r)
           \/ ApiUp
           \/ \E w \in Workers : Maintain(w) \/ MaintainRaises(w) \/ Expire(w)
  <2>1. UNCHANGED <<comments, found, job>>
    BY <1>3
    DEF vars, commentVars, workerVars, ReceiveWebhook, EnqueueFromWebhook, EnqueueRaises,
        RestartApi, Reconcile, ApiUp, Maintain, MaintainHeartbeat, MaintainScan,
        MaintainRecover, MaintainDone, MaintainRaises, MaintenanceOnly, Expire
  <2>2. \A w \in Workers : pc'[w] = pc[w] \/ pc'[w] = "idle"
    BY <1>2, <1>3
    DEF vars, workerVars, ReceiveWebhook, EnqueueFromWebhook, EnqueueRaises, RestartApi,
        Reconcile, ApiUp, Maintain, MaintainHeartbeat, MaintainScan, MaintainRecover,
        MaintainDone, MaintainRaises, MaintenanceOnly, Expire
  <2> QED BY <1>1, <2>1, <2>2 DEF PublishInv
<1>4. ASSUME NEW w \in Workers, Publish(w)
      PROVE  PublishInv'
  BY <1>1, <1>4, PublishWrite
<1>5. ASSUME NEW w \in Workers, Resend(w)
      PROVE  FALSE
  BY <1>1, <1>5 DEF Resend
<1>6. ASSUME NEW w \in Workers, WorkerStep(w), ~Publish(w), ~Resend(w)
      PROVE  PublishInv'
  <2>1. \A v \in Workers \ {w} : pc'[v] = pc[v] /\ job'[v] = job[v] /\ found'[v] = found[v]
    BY <1>6, OthersUntouched
  <2>2. CASE StageBody(w)
    <3>1. UNCHANGED <<comments, job>>
      BY <2>2 DEF StageBody, ListComments, PipelineOnly, commentVars
    <3>2. pc'[w] = "write" => found'[w] = IF comments[job[w].run] = <<>> THEN 0 ELSE 1
      BY <1>2, <2>2 DEF StageBody, ListComments, Guarded, Goto
    <3> QED BY <1>1, <2>1, <3>1, <3>2 DEF PublishInv
  <2>3. CASE ~StageBody(w)
    <3>1. UNCHANGED comments /\ pc'[w] # "write"
      BY <1>2, <1>6, <2>3
      DEF WorkerStep, Main, DequeueHeartbeat, DequeuePop, DequeueTimeout, Begin, EnterStage,
          EnteredStage, LeaveStage, SaveResults, Finish, RecordFailure, RetryJob,
          AcknowledgeJob, QueueRaises, NextJob, Crash, Guarded, Goto, commentVars
    <3> QED BY <1>1, <2>1, <3>1 DEF PublishInv
  <2> QED BY <2>2, <2>3
<1> QED BY <1>3, <1>4, <1>5, <1>6 DEF Next, WorkerStep

(***************************************************************************)
(* While heartbeats arrive in time and no gateway answers for GitHub, a    *)
(* run has one published diagnosis at most, however many attempts died     *)
(* after the write or lost its answer.                                     *)
(***************************************************************************)
THEOREM OneDiagnosisCorrect == Spec => []OneDiagnosisPerRun
<1>1. Init => PublishInv
  BY PublishInit
<1>2. SystemInv /\ LeaseInv /\ PublishInv /\ [Next]_vars => PublishInv'
  BY PublishNext
<1>3. PublishInv => OneDiagnosisPerRun
  BY DEF PublishInv, OneDiagnosisPerRun
<1> QED BY <1>1, <1>2, <1>3, SystemInvariant, LeaseInvariant, PTL DEF Spec

-----------------------------------------------------------------------------
(* The retry budget                                                        *)

Deaths == Cardinality(Dead)

\* A row that begin_analysis accepts.
Open(r) == status[r] \in {"queued", "running"}

\* An attempt more than its envelope counts, for every worker that died.
Tried(e) == begun[e.run] <= e.attempts + 1 + Deaths

\* A job nobody works on counts the attempts made; a death hides one.
Waiting(e) ==
    Open(e.run) => /\ begun[e.run] <= e.attempts + Deaths
                   /\ Dead = {} => begun[e.run] = e.attempts

\* The attempt under way is not yet counted in the envelope.
HandOK(w) ==
    /\ pc[w] = "claimed" => Waiting(job[w])
    /\ pc[w] \in Analyzing \cup {"requeue", "retry"} =>
        Tried(job[w]) /\ (Dead = {} => begun[job[w].run] = job[w].attempts + 1)
    /\ pc[w] = "ack" => status[job[w].run] \in {"completed", "failed"}
    /\ pc[w] = "boot" => processing[w] = <<>>

\* The list of a live worker may hold a job whose attempt was not counted.
ListOK(w) ==
    \A e \in ToSet(processing[w]) :
        Open(e.run) => IF pc[w] = "dead" THEN Waiting(e) ELSE Tried(e)

\* A row without a job was never tried or is decided; one that is going to get
\* a job exists; one that rests as failed used its budget up.
RowOK(r) ==
    /\ begun[r] <= MaxAttempts + Deaths
    /\ r \notin dedupe => \/ status[r] \in {"completed", "failed"}
                          \/ begun[r] = 0 /\ status[r] \in {"absent", "queued"}
    /\ r \in dedupe \/ r \in backlog \/ (\E h \in Handlers : handler[h] = r) =>
        status[r] # "absent"
    /\ /\ status[r] = "failed"
       /\ Dead = {}
       /\ \A w \in Workers : job[w].run = r => pc[w] # "requeue"
       => begun[r] = MaxAttempts

BudgetInv ==
    /\ \A e \in ToSet(pending) : Waiting(e)
    /\ \A w \in Workers : HandOK(w) /\ ListOK(w)
    /\ \A r \in Runs : RowOK(r)

\* Everything the budget rests on, in one name.
TimelyInv == SystemInv /\ FenceInv /\ OwnerInv /\ \A w \in Workers : LeaseOK(w)

LEMMA DeathCount ==
    ASSUME IsFiniteSet(Workers), SystemInv, SystemInv'
    PROVE  /\ Deaths \in Nat /\ Deaths' \in Nat
           /\ \A w \in Workers :
                Dead' = Dead \cup {w} /\ w \notin Dead => Deaths' = Deaths + 1
<1>1. IsFiniteSet(Dead) /\ IsFiniteSet(Dead)'
  BY FS_Subset DEF Dead
<1> QED BY <1>1, FS_CardinalityType, FS_AddElement DEF Deaths

LEMMA BudgetInit == IsFiniteSet(Workers) /\ Init => BudgetInv
<1> SUFFICES ASSUME IsFiniteSet(Workers), Init PROVE BudgetInv
  OBVIOUS
<1>1. Dead = {} /\ Deaths = 0
  BY FS_EmptySet DEF Init, Dead, Deaths
<1>2. ToSet(<<>>) = {}
  BY DEF ToSet
<1>3. /\ \A r \in Runs : status[r] = "absent" /\ begun[r] = 0
      /\ \A w \in Workers : pc[w] = "boot" /\ processing[w] = <<>>
      /\ pending = <<>> /\ dedupe = {} /\ backlog = {}
      /\ \A h \in Handlers : handler[h] = Nobody
  BY DEF Init, QueueInit, StoreInit
<1>4. \A w \in Workers : HandOK(w) /\ ListOK(w)
  BY <1>2, <1>3 DEF HandOK, ListOK, Analyzing
<1>5. \A r \in Runs : RowOK(r)
  BY <1>1, <1>3, SystemAssumption, MaxAttemptsAssumption DEF RowOK
<1> QED BY <1>2, <1>3, <1>4, <1>5 DEF BudgetInv

\* The types the arithmetic needs.
LEMMA BudgetTypes ==
    ASSUME SystemInv
    PROVE  /\ pending \in Seq(Envelope) /\ processing \in [Workers -> Seq(Envelope)]
           /\ \A w \in Workers : ToSet(processing[w]) \subseteq Envelope
           /\ ToSet(pending) \subseteq Envelope
           /\ \A e \in Envelope : /\ e.run \in Runs /\ e.attempts \in Nat
                                  /\ e.attempts + 1 <= MaxAttempts
           /\ \A r \in Runs : begun[r] \in Nat
           /\ MaxAttempts \in Nat
<1>1. /\ pending \in Seq(Envelope) /\ processing \in [Workers -> Seq(Envelope)]
      /\ \A r \in Runs : begun[r] \in Nat
      /\ MaxAttempts \in Nat
  BY MaxAttemptsAssumption DEF SystemInv, SystemTypeOK, QueueTypeOK
<1>2. \A e \in Envelope : /\ e.run \in Runs /\ e.attempts \in Nat
                          /\ e.attempts + 1 <= MaxAttempts
  BY MaxAttemptsAssumption DEF Envelope
<1> QED BY <1>1, <1>2, JobSets

\* Every job is known to the deduplication set.
LEMMA JobsKnown ==
    ASSUME SystemInv
    PROVE  /\ \A e \in ToSet(pending) : e.run \in dedupe
           /\ \A w \in Workers : \A e \in ToSet(processing[w]) : e.run \in dedupe
<1>1. /\ \A e \in ToSet(pending) : e.run \in RunsOf(pending) /\ e.run \in Runs
      /\ \A w \in Workers : \A e \in ToSet(processing[w]) :
            e.run \in RunsOf(processing[w]) /\ e.run \in Runs
  BY BudgetTypes, JobSets
<1> QED BY <1>1 DEF SystemInv, QueueInv, DedupeMatchesJobs

\* The job in hand is the only job of its run.
LEMMA OnlyJob ==
    ASSUME SystemInv, \A v \in Workers : LeaseOK(v), NEW w \in Workers, pc[w] \in Holding
    PROVE  /\ job[w] \in Envelope /\ job[w].run \in Runs
           /\ job[w] \in ToSet(processing[w])
           /\ job[w].run \in dedupe
           /\ \A e \in ToSet(pending) : e.run # job[w].run
           /\ \A e \in ToSet(processing[w]) : e.run = job[w].run => e = job[w]
           /\ \A v \in Workers \ {w} : \A e \in ToSet(processing[v]) : e.run # job[w].run
           /\ \A v \in Workers \ {w} : pc[v] \in Holding => job[v].run # job[w].run
<1>1. job[w] \in ToSet(processing[w]) /\ job[w] \in Envelope /\ job[w].run \in Runs
  BY DEF LeaseOK, SystemInv, WorkerOK, Envelope
<1>2. /\ \A e \in ToSet(pending) : e.run \in RunsOf(pending)
      /\ \A v \in Workers : \A e \in ToSet(processing[v]) : e.run \in RunsOf(processing[v])
  BY BudgetTypes, JobSets
<1>3. /\ RunsOf(pending) \cap RunsOf(processing[w]) = {}
      /\ \A v \in Workers \ {w} : RunsOf(processing[v]) \cap RunsOf(processing[w]) = {}
      /\ NoRepeat(processing[w])
  BY DEF SystemInv, QueueInv, OneJobPerRun
<1>4. \A e \in ToSet(processing[w]) : e.run = job[w].run => e = job[w]
  BY <1>1, <1>3 DEF NoRepeat, ToSet
<1>5. job[w].run \in dedupe
  BY <1>1, JobsKnown
<1>6. \A v \in Workers \ {w} : pc[v] \in Holding => job[v].run # job[w].run
  BY OneHolder
<1> QED BY <1>1, <1>2, <1>3, <1>4, <1>5, <1>6

(***************************************************************************)
(* A step of the pipeline or of the except branch touches the row of the   *)
(* job in hand and no list: what must be shown is about that row and job.  *)
(***************************************************************************)
LEMMA BudgetFrame ==
    ASSUME TimelyInv, BudgetInv, NEW w \in Workers, pc[w] \in Holding,
           UNCHANGED <<queueVars, apiVars, job>>, pc'[w] # "dead",
           \A v \in Workers \ {w} : pc'[v] = pc[v],
           NEW r, r = job[w].run,
           \A q \in Runs \ {r} : status'[q] = status[q] /\ begun'[q] = begun[q],
           HandOK(w)', RowOK(r)', Open(r)' => Tried(job[w])'
    PROVE  BudgetInv'
<1>1. SystemInv /\ \A v \in Workers : LeaseOK(v)
  BY DEF TimelyInv
<1>2. Dead' = Dead /\ Deaths' = Deaths
  <2>1. pc[w] # "dead"
    BY DEF Holding, Analyzing
  <2> QED BY <2>1 DEF Dead, Deaths
<1>3. /\ r \in Runs
      /\ \A e \in ToSet(pending) : e.run # r
      /\ \A e \in ToSet(processing[w]) : e.run = r => e = job[w]
      /\ \A v \in Workers \ {w} : \A e \in ToSet(processing[v]) : e.run # r
      /\ \A v \in Workers \ {w} : pc[v] \in Holding => job[v].run # r
  BY <1>1, OnlyJob
<1>4. /\ ToSet(pending) \subseteq Envelope
      /\ \A v \in Workers : ToSet(processing[v]) \subseteq Envelope
      /\ \A e \in Envelope : e.run \in Runs
      /\ \A v \in Workers : pc[v] \in Holding => job[v].run \in Runs
  BY <1>1, BudgetTypes, OnlyJob
<1>5. UNCHANGED <<pending, processing, dedupe, handler, backlog>>
  BY DEF queueVars, apiVars
<1>6. \A e \in ToSet(pending)' : Waiting(e)'
  BY <1>2, <1>3, <1>4, <1>5 DEF BudgetInv, Waiting, Open
<1>7. ASSUME NEW v \in Workers \ {w}
      PROVE  HandOK(v)' /\ ListOK(v)'
  <2>1. HandOK(v) /\ ListOK(v) /\ pc'[v] = pc[v] /\ job'[v] = job[v]
    BY DEF BudgetInv
  <2>2. HandOK(v)'
    BY <1>2, <1>3, <1>4, <1>5, <2>1 DEF HandOK, Waiting, Tried, Open, Holding
  <2>3. ListOK(v)'
    BY <1>2, <1>3, <1>4, <1>5, <2>1 DEF ListOK, Waiting, Tried, Open
  <2> QED BY <2>2, <2>3
<1>8. ListOK(w)'
  <2>1. ListOK(w) /\ pc[w] # "dead"
    BY DEF BudgetInv, Holding, Analyzing
  <2> QED BY <1>2, <1>3, <1>4, <1>5, <2>1 DEF ListOK, Tried, Open
<1>9. ASSUME NEW q \in Runs \ {r}
      PROVE  RowOK(q)'
  <2>1. RowOK(q) /\ status'[q] = status[q] /\ begun'[q] = begun[q]
    BY DEF BudgetInv
  <2>2. (\A v \in Workers : job'[v].run = q => pc'[v] # "requeue")
            => (\A v \in Workers : job[v].run = q => pc[v] # "requeue")
    OBVIOUS
  <2> QED BY <1>2, <1>5, <2>1, <2>2 DEF RowOK
<1> QED BY <1>6, <1>7, <1>8, <1>9 DEF BudgetInv

LEMMA BudgetPipeline ==
    ASSUME "database" \notin Faults, MaxStalls = 0, IsFiniteSet(Workers),
           TimelyInv, BudgetInv, SystemInv', NEW w \in Workers,
           \/ Begin(w) \/ EnterStage(w) \/ EnteredStage(w) \/ StageBody(w) \/ Publish(w)
           \/ LeaveStage(w) \/ SaveResults(w) \/ Finish(w) \/ RecordFailure(w) \/ Resend(w)
    PROVE  BudgetInv'
<1>1. /\ SystemInv /\ (\A v \in Workers : LeaseOK(v))
      /\ pc \in [Workers -> PC] /\ status \in [Runs -> Status] /\ begun \in [Runs -> Nat]
  BY DEF TimelyInv, SystemInv, SystemTypeOK, StoreTypeOK
<1>2. stalls = 0 /\ ~StoreRaises
  BY <1>1 DEF StoreRaises, SystemInv, SystemTypeOK
<1>3. /\ pc[w] \in Holding
      /\ UNCHANGED <<queueVars, apiVars, job>>
      /\ WorkerStep(w)
  BY DEF Begin, EnterStage, EnteredStage, StageBody, Publish, LeaveStage, SaveResults, Finish,
         RecordFailure, Resend, PipelineOnly, MainOnly, workerVars, Holding, Analyzing,
         WorkerStep, Main
<1>4. \A v \in Workers \ {w} : pc'[v] = pc[v]
  BY <1>1, <1>3, OthersUntouched
<1>r. PICK r \in Runs, n \in Nat : r = job[w].run /\ n = job[w].attempts
  BY <1>1, <1>3, BudgetTypes, OnlyJob
<1>5. /\ job[w] \in Envelope /\ n + 1 <= MaxAttempts
      /\ MaxAttempts \in Nat /\ Deaths \in Nat /\ begun[r] \in Nat
      /\ r \in dedupe
  BY <1>r, <1>1, <1>3, BudgetTypes, OnlyJob, DeathCount
<1>6. HandOK(w) /\ ListOK(w) /\ RowOK(r) /\ status[r] # "absent"
  BY <1>5 DEF BudgetInv, RowOK
<1>7. pc'[w] # "dead" => Dead' = Dead /\ Deaths' = Deaths
  <2>1. pc[w] # "dead"
    BY <1>3 DEF Holding, Analyzing
  <2> QED BY <1>4, <2>1 DEF Dead, Deaths
<1>8. UNCHANGED <<dedupe, backlog, handler, processing>> /\ job'[w] = job[w]
  BY <1>3 DEF queueVars, apiVars
<1>9. job[w].run = r /\ job[w].attempts = n /\ job'[w].run = r /\ job'[w].attempts = n
  BY <1>r, <1>8
<1>10. CASE Begin(w)
  <2>1. CASE ~CanBegin(r) /\ Goto(w, "ack") /\ UNCHANGED <<storeVars, begun>>
    <3>1. status[r] \in {"completed", "failed"} /\ UNCHANGED <<status, begun>>
      BY <1>1, <1>5, <1>6, <2>1 DEF CanBegin, Status, storeVars
    <3>2. pc'[w] = "ack" /\ pc[w] = "claimed"
      BY <1>1, <1>10, <2>1 DEF Begin, Goto
    <3>3. HandOK(w)' /\ ~Open(r)'
      BY <1>9, <3>1, <3>2 DEF HandOK, Open, Analyzing
    <3>4. (\A v \in Workers : job'[v].run = r => pc'[v] # "requeue")
            => (\A v \in Workers : job[v].run = r => pc[v] # "requeue")
      BY <1>3, <1>4, <3>2
    <3>5. RowOK(r)'
      BY <1>6, <1>7, <1>8, <3>1, <3>2, <3>4 DEF RowOK
    <3> QED BY <3>5,  <1>3, <1>4, <1>9, <3>1, <3>2, <3>3, BudgetFrame
  <2>2. CASE BeginAnalysis(r, w) /\ begun' = Counted(r) /\ Goto(w, "enter")
    <3>1. /\ pc[w] = "claimed" /\ pc'[w] = "enter" /\ Open(r)
          /\ status'[r] = "running" /\ begun'[r] = begun[r] + 1
          /\ \A q \in Runs \ {r} : status'[q] = status[q] /\ begun'[q] = begun[q]
      BY <1>1, <1>2, <1>5, <1>10, <2>2
      DEF Begin, BeginAnalysis, CanBegin, Counted, Goto, Open
    <3>2. begun[r] <= n + Deaths /\ (Dead = {} => begun[r] = n)
      BY <1>6, <1>9, <3>1 DEF HandOK, Waiting
    <3>3. Tried(job[w])'
      BY <1>5, <1>7, <1>9, <3>1, <3>2 DEF Tried
    <3>4. HandOK(w)'
      BY <1>5, <1>7, <1>8, <1>9, <3>1, <3>2, <3>3 DEF HandOK, Analyzing, Tried
    <3>5. RowOK(r)'
      BY <1>5, <1>7, <1>8, <3>1, <3>2 DEF RowOK
    <3> QED BY <1>3, <1>4, <1>9, <3>1, <3>3, <3>4, <3>5, BudgetFrame
  <2> QED BY <1>2, <1>9, <1>10, <2>1, <2>2 DEF Begin
<1>11. CASE \/ EnterStage(w) \/ EnteredStage(w) \/ StageBody(w) \/ Publish(w)
            \/ LeaveStage(w) \/ SaveResults(w) \/ Resend(w)
  <2>1. pc[w] \in Analyzing
    BY <1>11 DEF EnterStage, EnteredStage, StageBody, Publish, LeaveStage, SaveResults, Resend,
                 Analyzing
  <2>2. token[r] = w /\ status[r] = "running"
    BY <1>2, <1>9, <2>1 DEF TimelyInv, OwnerInv
  <2>3. pc'[w] \in Analyzing /\ UNCHANGED begun
    BY <1>1, <1>2, <1>9, <1>11, <2>2
    DEF EnterStage, EnteredStage, StageBody, Publish, LeaveStage, SaveResults, Resend,
        Guarded, IsCurrent, Goto, PipelineOnly, workerVars, Analyzing
  <2>4. UNCHANGED status
    <3>1. UNCHANGED status \/ status' = [status EXCEPT ![r] = "running"]
      BY <1>9, <1>11
      DEF EnterStage, EnteredStage, StageBody, Publish, LeaveStage, SaveResults, Resend,
          UpdateFenced, InsertStartedRow, storeVars
    <3> QED BY <1>1, <2>2, <3>1
  <2>5. pc'[w] # "dead" /\ pc'[w] \notin {"claimed", "ack", "boot"}
    BY <2>3 DEF Analyzing
  <2>6. Tried(job[w])' /\ HandOK(w)' /\ RowOK(r)'
    BY <1>6, <1>7, <1>8, <1>9, <2>1, <2>2, <2>3, <2>4, <2>5 DEF HandOK, RowOK, Tried
  <2> QED BY <1>3, <1>4, <1>9, <2>3, <2>4, <2>5, <2>6, BudgetFrame
<1>12. CASE Finish(w)
  <2>1. pc[w] \in Analyzing
    BY <1>12 DEF Finish, Analyzing
  <2>2. token[r] = w
    BY <1>2, <1>9, <2>1 DEF TimelyInv, OwnerInv
  <2>3. /\ \/ status'[r] = "completed" /\ pc'[w] = "ack"
           \/ status'[r] = "failed" /\ pc'[w] = "requeue"
        /\ \A q \in Runs \ {r} : status'[q] = status[q]
        /\ UNCHANGED begun
    BY <1>1, <1>2, <1>5, <1>9, <1>12, <2>2
    DEF Finish, FinishAnalysis, IsCurrent, Goto, PipelineOnly
  <2>4. HandOK(w)'
    BY <1>6, <1>7, <1>8, <1>9, <2>1, <2>3 DEF HandOK, Tried, Analyzing
  <2>5. RowOK(r)' /\ ~Open(r)'
    BY <1>6, <1>7, <1>8, <1>9, <2>3 DEF RowOK, Open
  <2> QED BY <1>3, <1>4, <1>9, <2>3, <2>4, <2>5, BudgetFrame
<1>13. CASE RecordFailure(w)
  <2>1. /\ pc[w] = "requeue" /\ UNCHANGED begun
        /\ \A q \in Runs \ {r} : status'[q] = status[q]
        /\ \/ n + 1 < MaxAttempts /\ status'[r] = "queued" /\ pc'[w] = "retry"
           \/ ~(n + 1 < MaxAttempts) /\ status'[r] = "failed" /\ pc'[w] = "ack"
    BY <1>1, <1>5, <1>6, <1>9, <1>13 DEF RecordFailure, RetriesLeft, Update, Goto, MainOnly
  <2>2. Tried(job[w]) /\ (Dead = {} => begun[r] = n + 1)
    BY <1>6, <1>9, <2>1 DEF HandOK
  <2>3. Tried(job[w])'
    BY <1>7, <1>9, <2>1, <2>2 DEF Tried
  <2>4. HandOK(w)'
    BY <1>7, <1>8, <1>9, <2>1, <2>2, <2>3 DEF HandOK, Analyzing, Tried
  <2>5. RowOK(r)'
    BY <1>5, <1>6, <1>7, <1>8, <1>9, <2>1, <2>2 DEF RowOK
  <2> QED BY <1>3, <1>4, <1>9, <2>1, <2>3, <2>4, <2>5, BudgetFrame
<1> QED BY <1>10, <1>11, <1>12, <1>13

\* The steps of the main loop that move a job between lists, or forget it.
LEMMA BudgetQueue ==
    ASSUME IsFiniteSet(Workers), TimelyInv, BudgetInv, SystemInv', NEW w \in Workers,
           \/ DequeueHeartbeat(w) \/ DequeuePop(w) \/ DequeueTimeout(w)
           \/ RetryJob(w) \/ AcknowledgeJob(w) \/ QueueRaises(w)
    PROVE  BudgetInv'
<1>1. /\ SystemInv /\ (\A v \in Workers : LeaseOK(v))
      /\ pc \in [Workers -> PC] /\ job \in [Workers -> Envelope \cup {NoJob}]
      /\ processing \in [Workers -> Seq(Envelope)] /\ pending \in Seq(Envelope)
  BY DEF TimelyInv, SystemInv, SystemTypeOK, QueueTypeOK
<1>2. /\ WorkerStep(w) /\ UNCHANGED <<status, begun, apiVars>>
      /\ pc[w] \in {"idle", "pop", "claimed", "retry", "ack"}
  BY DEF DequeueHeartbeat, DequeuePop, DequeueTimeout, RetryJob, AcknowledgeJob, QueueRaises,
         NextJob, MainOnly, WorkerStep, Main, storeVars
<1>3. /\ \A v \in Workers \ {w} : pc'[v] = pc[v] /\ job'[v] = job[v]
      /\ \/ pc'[w] \in {"idle", "pop"}
         \/ DequeuePop(w) /\ pc'[w] = "claimed" /\ job'[w] = Last(pending)
  BY <1>1, <1>2, OthersUntouched
  DEF DequeueHeartbeat, DequeuePop, DequeueTimeout, RetryJob, AcknowledgeJob, QueueRaises,
      NextJob, Goto
<1>4. Dead' = Dead /\ Deaths' = Deaths /\ pc[w] # "dead" /\ pc'[w] # "dead"
  BY <1>2, <1>3 DEF Dead, Deaths
<1>5. /\ Deaths \in Nat /\ (\A r \in Runs : begun[r] \in Nat)
      /\ ToSet(pending) \subseteq Envelope
      /\ \A v \in Workers : ToSet(processing[v]) \subseteq Envelope
      /\ \A e \in Envelope : e.run \in Runs /\ e.attempts \in Nat
  BY <1>1, BudgetTypes, DeathCount
\* What is left to show once the lists are known.
<1>6. ASSUME \A v \in Workers \ {w} : processing'[v] = processing[v],
             \A e \in ToSet(processing'[w]) :
                e \in ToSet(processing[w]) \/ e \in ToSet(pending),
             \A e \in ToSet(pending') : Waiting(e),
             DequeuePop(w) => Last(pending) \in ToSet(pending),
             dedupe' \subseteq dedupe,
             \A r \in dedupe \ dedupe' : status[r] \in {"completed", "failed"}
      PROVE  BudgetInv'
  <2>2. \A e \in ToSet(pending)' : Waiting(e)'
    BY <1>2, <1>4, <1>6 DEF Waiting, Open
  <2>3. ASSUME NEW v \in Workers \ {w}
        PROVE  HandOK(v)' /\ ListOK(v)'
    <3>1. HandOK(v) /\ ListOK(v) /\ pc'[v] = pc[v] /\ job'[v] = job[v]
      BY <1>3 DEF BudgetInv
    <3> QED BY <1>2, <1>4, <1>6, <3>1 DEF HandOK, ListOK, Waiting, Tried, Open
  <2>4. HandOK(w)'
    <3>1. \A e \in ToSet(pending) : Waiting(e)
      BY DEF BudgetInv
    <3> QED BY <1>2, <1>3, <1>4, <1>6, <3>1 DEF HandOK, Waiting, Open, Analyzing
  <2>5. ListOK(w)'
    <3> SUFFICES ASSUME NEW e \in ToSet(processing'[w]), Open(e.run)
                 PROVE  Tried(e)'
      BY <1>2, <1>4 DEF ListOK, Open
    <3>1. CASE e \in ToSet(processing[w])
      BY <1>2, <1>4, <3>1 DEF BudgetInv, ListOK, Tried
    <3>2. CASE e \in ToSet(pending)
      <4>1. begun[e.run] <= e.attempts + Deaths
        BY <3>2 DEF BudgetInv, Waiting
      <4> QED BY <1>2, <1>4, <1>5, <3>2, <4>1 DEF Tried
    <3> QED BY <1>6, <3>1, <3>2
  <2>6. ASSUME NEW r \in Runs
        PROVE  RowOK(r)'
    <3>1. RowOK(r)
      BY DEF BudgetInv
    <3>2. (\A v \in Workers : job'[v].run = r => pc'[v] # "requeue")
            => (\A v \in Workers : job[v].run = r => pc[v] # "requeue")
      BY <1>2, <1>3
    <3> QED BY <1>2, <1>4, <1>6, <3>1, <3>2 DEF RowOK, apiVars
  <2> QED BY <2>2, <2>3, <2>4, <2>5, <2>6 DEF BudgetInv
<1>7. \A e \in ToSet(pending) : Waiting(e)
  BY DEF BudgetInv
<1>8. CASE UNCHANGED <<pending, processing, dedupe>>
  <2>1. ~DequeuePop(w)
    <3>1. DequeuePop(w) => processing'[w] = Cons(Last(pending), processing[w]) /\ pending # <<>>
      BY <1>1 DEF DequeuePop, Claim
    <3>2. pending # <<>> => Len(Cons(Last(pending), processing[w])) = 1 + Len(processing[w])
      BY <1>1, PopJob, ConcatProperties DEF Cons
    <3>3. Len(processing[w]) \in Nat
      BY <1>1, LenProperties
    <3> QED BY <1>8, <3>1, <3>2, <3>3
  <2> QED BY <1>6, <1>7, <1>8, <2>1
<1>9. CASE Claim(w)
  <2>1. /\ pending # <<>> /\ pending' = Front(pending) /\ UNCHANGED dedupe
        /\ processing'[w] = Cons(Last(pending), processing[w])
        /\ \A v \in Workers \ {w} : processing'[v] = processing[v]
    BY <1>1, <1>9 DEF Claim
  <2>2. /\ Last(pending) \in ToSet(pending) /\ ToSet(Front(pending)) \subseteq ToSet(pending)
        /\ ToSet(Cons(Last(pending), processing[w])) = {Last(pending)} \cup ToSet(processing[w])
    BY <1>1, <2>1, JobSets, PopJob
  <2> QED BY <1>6, <1>7, <2>1, <2>2
<1>10. CASE pc[w] = "retry" /\ Retry(w, job[w])
  <2>1. pc[w] \in Holding
    BY <1>10 DEF Holding
  <2>2. /\ job[w] \in ToSet(processing[w]) /\ job[w] \in Envelope
        /\ NoRepeat(processing[w]) /\ job[w].attempts + 1 < MaxAttempts
    BY <1>1, <1>10, <2>1, OnlyJob
    DEF SystemInv, QueueInv, OneJobPerRun, WorkerOK, RetriesLeft
  <2> DEFINE retried == [job[w] EXCEPT !.attempts = @ + 1]
  <2>3. /\ processing'[w] = RemoveFirst(processing[w], job[w]) /\ UNCHANGED dedupe
        /\ \A v \in Workers \ {w} : processing'[v] = processing[v]
        /\ pending' = Cons(retried, pending)
    BY <1>1, <1>10, <2>2 DEF Retry
  <2>4. /\ retried \in Envelope /\ retried.run = job[w].run
        /\ retried.attempts = job[w].attempts + 1
    BY <2>2, MaxAttemptsAssumption DEF Envelope
  <2> HIDE DEF retried
  <2>5. ToSet(processing'[w]) \subseteq ToSet(processing[w])
    BY <1>1, <2>2, <2>3, RemoveJob
  <2>6. ToSet(pending') = {retried} \cup ToSet(pending)
    BY <1>1, <2>3, <2>4, JobSets
  <2>7. Waiting(retried)
    <3>1. Tried(job[w]) /\ (Dead = {} => begun[job[w].run] = job[w].attempts + 1)
      BY <1>10 DEF BudgetInv, HandOK
    <3> QED BY <2>4, <3>1 DEF Waiting, Tried
  <2>8. ~DequeuePop(w)
    BY <1>10 DEF DequeuePop
  <2> QED BY <1>6, <1>7, <2>3, <2>5, <2>6, <2>7, <2>8
<1>11. CASE pc[w] = "ack" /\ Acknowledge(w, job[w])
  <2>1. pc[w] \in Holding
    BY <1>11 DEF Holding
  <2>2. job[w] \in ToSet(processing[w]) /\ NoRepeat(processing[w])
    BY <1>1, <2>1, OnlyJob DEF SystemInv, QueueInv, OneJobPerRun
  <2>3. /\ processing'[w] = RemoveFirst(processing[w], job[w])
        /\ \A v \in Workers \ {w} : processing'[v] = processing[v]
        /\ dedupe' = dedupe \ {job[w].run} /\ UNCHANGED pending
    BY <1>1, <1>11, <2>2 DEF Acknowledge
  <2>4. ToSet(processing'[w]) \subseteq ToSet(processing[w])
    BY <1>1, <2>2, <2>3, RemoveJob
  <2>5. status[job[w].run] \in {"completed", "failed"}
    BY <1>11 DEF BudgetInv, HandOK
  <2>6. ~DequeuePop(w)
    BY <1>11 DEF DequeuePop
  <2> QED BY <1>6, <1>7, <2>3, <2>4, <2>5, <2>6
<1>12. \/ UNCHANGED <<pending, processing, dedupe>> \/ Claim(w)
       \/ pc[w] = "retry" /\ Retry(w, job[w])
       \/ pc[w] = "ack" /\ Acknowledge(w, job[w])
  BY DEF DequeueHeartbeat, Heartbeat, DequeuePop, DequeueTimeout, RetryJob, AcknowledgeJob,
         QueueRaises, queueVars
<1> QED BY <1>8, <1>9, <1>10, <1>11, <1>12

\* A death hides the attempt under way, and adds one to the count of deaths.
LEMMA BudgetCrash ==
    ASSUME IsFiniteSet(Workers), TimelyInv, BudgetInv, SystemInv', NEW w \in Workers,
           Crash(w), pc[w] # "dead"
    PROVE  BudgetInv'
<1>1. /\ SystemInv /\ pc \in [Workers -> PC] /\ job \in [Workers -> Envelope \cup {NoJob}]
  BY DEF TimelyInv, SystemInv, SystemTypeOK
<1>2. /\ UNCHANGED <<pending, processing, dedupe, status, begun, handler, backlog>>
      /\ pc'[w] = "dead"
      /\ \A v \in Workers \ {w} : pc'[v] = pc[v] /\ job'[v] = job[v]
  BY <1>1 DEF Crash, Goto, storeVars, apiVars
<1>3. Dead' = Dead \cup {w} /\ w \notin Dead
  BY <1>2 DEF Dead
<1>4. Deaths \in Nat /\ Deaths' = Deaths + 1 /\ Dead' # {}
  BY <1>1, <1>3, DeathCount
<1>5. /\ \A v \in Workers : ToSet(processing[v]) \subseteq Envelope
      /\ ToSet(pending) \subseteq Envelope
      /\ \A e \in Envelope : e.run \in Runs /\ e.attempts \in Nat
      /\ \A r \in Runs : begun[r] \in Nat
      /\ MaxAttempts \in Nat
  BY <1>1, BudgetTypes
<1>7. \A e \in ToSet(pending)' : Waiting(e)'
  <2>1. \A e \in ToSet(pending) : Waiting(e) /\ e \in Envelope
    BY <1>5 DEF BudgetInv
  <2> QED BY <1>2, <1>4, <1>5, <2>1 DEF Waiting, Open
<1>8. HandOK(w)'
  BY <1>2 DEF HandOK, Analyzing
<1>9. ListOK(w)'
  <2>1. \A e \in ToSet(processing[w]) : (Open(e.run) => Tried(e)) /\ e \in Envelope
    BY <1>5 DEF BudgetInv, ListOK
  <2> QED BY <1>2, <1>4, <1>5, <2>1 DEF ListOK, Waiting, Tried, Open
<1>10. ASSUME NEW v \in Workers \ {w}
       PROVE  HandOK(v)' /\ ListOK(v)'
  <2>1. HandOK(v) /\ ListOK(v) /\ pc'[v] = pc[v] /\ job'[v] = job[v]
    BY <1>2 DEF BudgetInv
  <2>2. pc[v] \in Holding => job[v] \in Envelope
    BY <1>1 DEF SystemInv, WorkerOK
  <2>3. HandOK(v)'
    BY <1>2, <1>4, <1>5, <2>1, <2>2 DEF HandOK, Waiting, Tried, Open, Holding
  <2>4. ListOK(v)'
    <3>1. \A e \in ToSet(processing[v]) : e \in Envelope
      BY <1>5
    <3> QED BY <1>2, <1>4, <1>5, <2>1, <3>1 DEF ListOK, Waiting, Tried, Open
  <2> QED BY <2>3, <2>4
<1>11. ASSUME NEW r \in Runs
       PROVE  RowOK(r)'
  <2>1. RowOK(r)
    BY DEF BudgetInv
  <2> QED BY <1>2, <1>4, <1>5, <2>1 DEF RowOK
<1> QED BY <1>7, <1>8, <1>9, <1>10, <1>11 DEF BudgetInv

(***************************************************************************)
(* The steps that leave rows, counts and hands alone: the maintenance and  *)
(* the leases.  A recovery finds the lists of dead workers and of workers  *)
(* that never claimed a job.                                               *)
(***************************************************************************)
LEMMA BudgetMaintain ==
    ASSUME TimelyInv, BudgetInv, NEW w \in Workers,
           Maintain(w) \/ MaintainRaises(w) \/ Expire(w)
    PROVE  BudgetInv'
<1>1. /\ SystemInv /\ (\A v \in Workers : LeaseOK(v))
      /\ pc \in [Workers -> PC] /\ scan[w] \subseteq Workers
      /\ processing \in [Workers -> Seq(Envelope)] /\ pending \in Seq(Envelope)
  BY DEF TimelyInv, SystemInv, SystemTypeOK, QueueTypeOK
<1>2. /\ UNCHANGED <<status, begun, job, handler, backlog, dedupe>>
      /\ \A v \in Workers : pc'[v] = pc[v] \/ (pc[v] = "boot" /\ pc'[v] = "idle")
  BY <1>1
  DEF Maintain, MaintainHeartbeat, MaintainScan, MaintainRecover, MaintainDone, MaintainRaises,
      MaintenanceOnly, Expire, Heartbeat, ScanWorkers, Recover, AbortScan, LeaseExpires,
      queueVars, storeVars, workerVars, apiVars
<1>3. /\ Dead' = Dead /\ Deaths' = Deaths
      /\ \A v \in Workers : pc'[v] = "dead" <=> pc[v] = "dead"
  BY <1>2 DEF Dead, Deaths
<1>4. \A r \in Runs : RowOK(r)'
  <2>1. \A v \in Workers : pc'[v] # "requeue" <=> pc[v] # "requeue"
    BY <1>2
  <2> QED BY <1>2, <1>3, <2>1 DEF BudgetInv, RowOK
<1>5. \A v \in Workers : HandOK(v) => HandOK(v)' \/ processing'[v] # processing[v]
  BY <1>2, <1>3 DEF HandOK, Waiting, Tried, Open, Analyzing
<1>6. CASE UNCHANGED <<pending, processing>>
  <2>1. \A v \in Workers : HandOK(v)' /\ ListOK(v)'
    BY <1>2, <1>3, <1>5, <1>6 DEF BudgetInv, ListOK, Waiting, Tried, Open
  <2>2. \A e \in ToSet(pending)' : Waiting(e)'
    BY <1>2, <1>3, <1>6 DEF BudgetInv, Waiting, Open
  <2> QED BY <1>4, <2>1, <2>2 DEF BudgetInv
<1>7. ASSUME NEW u \in scan[w], Recover(w, u), u \notin leased, UNCHANGED pc
      PROVE  BudgetInv'
  <2>1. /\ u \in Workers /\ pending' = processing[u] \o pending
        /\ processing'[u] = <<>>
        /\ \A v \in Workers \ {u} : processing'[v] = processing[v]
    BY <1>1, <1>7 DEF Recover
  <2>2. ToSet(pending') = ToSet(processing[u]) \cup ToSet(pending) /\ ToSet(<<>>) = {}
    <3>1. processing[u] \in Seq(Envelope)
      BY <1>1, <2>1
    <3>2. ToSet(processing[u] \o pending) = ToSet(processing[u]) \cup ToSet(pending)
      BY <1>1, <3>1, JobSets
    <3>3. ToSet(<<>>) = {}
      BY DEF ToSet
    <3> QED BY <2>1, <3>2, <3>3
  <2>3. pc[u] = "dead" \/ (pc[u] = "boot" /\ processing[u] = <<>>)
    <3>1. ~Beating(u)
      BY <1>1, <1>7, <2>1 DEF LeaseOK
    <3> QED BY <2>1, <3>1 DEF Beating, BudgetInv, HandOK
  <2>4. \A e \in ToSet(processing[u]) : Waiting(e)
    BY <2>1, <2>2, <2>3 DEF BudgetInv, ListOK, Waiting
  <2>5. \A e \in ToSet(pending)' : Waiting(e)'
    BY <1>2, <1>3, <2>2, <2>4 DEF BudgetInv, Waiting, Open
  <2>6. \A v \in Workers : HandOK(v)'
    BY <1>2, <1>3, <1>7, <2>1, <2>3 DEF BudgetInv, HandOK, Waiting, Tried, Open
  <2>7. \A v \in Workers : ListOK(v)'
    BY <1>2, <1>3, <1>7, <2>1, <2>2 DEF BudgetInv, ListOK, Waiting, Tried, Open
  <2> QED BY <1>4, <2>5, <2>6, <2>7 DEF BudgetInv
<1>8. \/ UNCHANGED <<pending, processing>>
      \/ \E u \in scan[w] : Recover(w, u) /\ u \notin leased /\ UNCHANGED pc
  BY DEF Maintain, MaintainHeartbeat, MaintainScan, MaintainRecover, MaintainDone,
         MaintainRaises, Expire, Heartbeat, ScanWorkers, Recover, AbortScan, LeaseExpires,
         queueVars
<1> QED BY <1>6, <1>7, <1>8

\* enqueue, of a run whose row exists: a new job counts no attempt, and there
\* was none, unless the run is decided and begin_analysis will refuse it.
LEMMA BudgetEnqueue ==
    ASSUME IsFiniteSet(Workers), TimelyInv, BudgetInv, SystemInv', NEW r \in Runs,
           Enqueue(r), status[r] # "absent",
           UNCHANGED <<status, begun, job, pc>>,
           backlog' \subseteq backlog,
           \A h \in Handlers : handler'[h] \in {handler[h], Nobody}
    PROVE  BudgetInv'
<1>1. /\ SystemInv /\ pending \in Seq(Envelope)
      /\ Dead' = Dead /\ Deaths' = Deaths /\ Deaths \in Nat
      /\ UNCHANGED processing
      /\ \A q \in Runs : begun[q] \in Nat
  BY BudgetTypes, DeathCount DEF TimelyInv, Dead, Deaths, Enqueue
<1>2. \A w \in Workers : HandOK(w)' /\ ListOK(w)'
  BY <1>1 DEF BudgetInv, HandOK, ListOK, Waiting, Tried, Open
<1>3. ASSUME NEW q \in Runs
      PROVE  RowOK(q)'
  <2>1. RowOK(q) /\ q # Nobody
    BY SystemAssumption DEF BudgetInv
  <2>2. dedupe \subseteq dedupe' /\ dedupe' \subseteq dedupe \cup {r}
    BY DEF Enqueue
  <2>3. (\E h \in Handlers : handler'[h] = q) => \E h \in Handlers : handler[h] = q
    BY <2>1
  <2> QED BY <1>1, <2>1, <2>2, <2>3 DEF RowOK
<1>4. CASE r \in dedupe
  <2>1. UNCHANGED pending
    BY <1>4 DEF Enqueue
  <2> QED BY <1>1, <1>2, <1>3, <2>1 DEF BudgetInv, Waiting, Open
<1>5. CASE r \notin dedupe
  <2> DEFINE new == [run |-> r, attempts |-> 0]
  <2>1. new \in Envelope /\ new.run = r /\ new.attempts = 0
    BY MaxAttemptsAssumption DEF Envelope
  <2>2. pending' = Cons(new, pending)
    BY <1>5 DEF Enqueue
  <2> HIDE DEF new
  <2>3. ToSet(pending') = {new} \cup ToSet(pending)
    BY <1>1, <2>1, <2>2, JobSets
  <2>4. status[r] \in {"completed", "failed"} \/ begun[r] = 0
    BY <1>5 DEF BudgetInv, RowOK
  <2>5. Waiting(new)
    BY <1>1, <2>1, <2>4 DEF Waiting, Open
  <2>6. \A e \in ToSet(pending)' : Waiting(e)'
    BY <1>1, <2>3, <2>5 DEF BudgetInv, Waiting, Open
  <2> QED BY <1>2, <1>3, <2>6 DEF BudgetInv
<1> QED BY <1>4, <1>5

LEMMA BudgetApi ==
    ASSUME IsFiniteSet(Workers), TimelyInv, BudgetInv, SystemInv',
           \/ UNCHANGED vars
           \/ \E h \in Handlers :
                \/ \E r \in Runs : ReceiveWebhook(h, r)
                \/ EnqueueFromWebhook(h)
                \/ EnqueueRaises(h)
           \/ RestartApi
           \/ \E r \in Runs : Reconcile(r)
           \/ ApiUp
    PROVE  BudgetInv'
<1>1. /\ SystemInv /\ handler \in [Handlers -> Runs \cup {Nobody}]
      /\ status \in [Runs -> Status] /\ Nobody \notin Runs
  BY SystemAssumption DEF TimelyInv, SystemInv, SystemTypeOK, StoreTypeOK
<1>2. ASSUME UNCHANGED <<pending, processing, dedupe, status, begun, job, pc>>,
             \A r \in Runs : r \in backlog' => status[r] # "absent",
             \A h \in Handlers : handler'[h] \in {handler[h], Nobody}
      PROVE  BudgetInv'
  <2>1. Dead' = Dead /\ Deaths' = Deaths
    BY <1>2 DEF Dead, Deaths
  <2>2. \A w \in Workers : HandOK(w)' /\ ListOK(w)'
    BY <1>2, <2>1 DEF BudgetInv, HandOK, ListOK, Waiting, Tried, Open
  <2>3. \A e \in ToSet(pending)' : Waiting(e)'
    BY <1>2, <2>1 DEF BudgetInv, Waiting, Open
  <2>4. ASSUME NEW r \in Runs
        PROVE  RowOK(r)'
    <3>1. RowOK(r) /\ r # Nobody
      BY <1>1 DEF BudgetInv
    <3>2. (\E h \in Handlers : handler'[h] = r) => \E h \in Handlers : handler[h] = r
      BY <1>2, <3>1
    <3> QED BY <1>2, <2>1, <3>1, <3>2 DEF RowOK
  <2> QED BY <2>2, <2>3, <2>4 DEF BudgetInv
<1>3. CASE UNCHANGED vars \/ RestartApi \/ ApiUp
  <2>1. /\ UNCHANGED <<pending, processing, dedupe, status, begun, job, pc>>
        /\ \A h \in Handlers : handler'[h] \in {handler[h], Nobody}
        /\ backlog' = backlog \/ backlog' = {r \in Runs : status[r] = "queued"}
    BY <1>3 DEF vars, queueVars, storeVars, workerVars, apiVars, RestartApi, ApiUp
  <2>2. \A r \in Runs : r \in backlog' => status[r] # "absent"
    BY <2>1 DEF BudgetInv, RowOK
  <2> QED BY <1>2, <2>1, <2>2
<1>4. ASSUME NEW h \in Handlers, EnqueueFromWebhook(h) \/ EnqueueRaises(h)
      PROVE  BudgetInv'
  <2>1. /\ handler[h] \in Runs /\ UNCHANGED <<status, begun, job, pc, backlog>>
        /\ \A g \in Handlers : handler'[g] \in {handler[g], Nobody}
        /\ Enqueue(handler[h]) \/ UNCHANGED queueVars
    BY <1>1, <1>4 DEF EnqueueFromWebhook, EnqueueRaises, storeVars, workerVars
  <2>2. status[handler[h]] # "absent" /\ \A r \in Runs : r \in backlog => status[r] # "absent"
    BY <2>1 DEF BudgetInv, RowOK
  <2>3. CASE UNCHANGED queueVars
    BY <1>2, <2>1, <2>2, <2>3 DEF queueVars
  <2>4. CASE Enqueue(handler[h])
    BY <2>1, <2>2, <2>4, BudgetEnqueue
  <2> QED BY <2>1, <2>3, <2>4
<1>5. ASSUME NEW r \in Runs, Reconcile(r)
      PROVE  BudgetInv'
  <2>1. /\ Enqueue(r) /\ UNCHANGED <<status, begun, job, pc, handler>>
        /\ backlog' \subseteq backlog /\ r \in backlog
    BY <1>5 DEF Reconcile, storeVars, workerVars
  <2>2. status[r] # "absent"
    BY <2>1 DEF BudgetInv, RowOK
  <2> QED BY <2>1, <2>2, BudgetEnqueue
<1>6. ASSUME NEW h \in Handlers, NEW r \in Runs, ReceiveWebhook(h, r)
      PROVE  BudgetInv'
  <2>1. /\ UNCHANGED <<pending, processing, dedupe, begun, job, pc, backlog>>
        /\ handler' = [handler EXCEPT ![h] = r]
        /\ status' = [status EXCEPT ![r] = IF @ = "absent" THEN "queued" ELSE @]
        /\ status'[r] = "queued"
    BY <1>6 DEF ReceiveWebhook, CreateIfAbsent, queueVars, workerVars
  <2>2. Dead' = Dead /\ Deaths' = Deaths
    BY <2>1 DEF Dead, Deaths
  <2>3. \A q \in Runs : \/ status'[q] = status[q]
                        \/ q = r /\ status[q] = "absent" /\ q \notin dedupe
    BY <1>1, <2>1 DEF BudgetInv, RowOK
  <2>4. /\ \A e \in ToSet(pending) : e.run \in dedupe /\ e.run \in Runs
        /\ \A w \in Workers : \A e \in ToSet(processing[w]) : e.run \in dedupe /\ e.run \in Runs
    BY <1>1, JobsKnown, BudgetTypes
  <2>5. \A w \in Workers : pc[w] \in Holding => job[w].run \in dedupe /\ job[w].run \in Runs
    BY <1>1, OnlyJob DEF TimelyInv
  <2>6. \A e \in ToSet(pending)' : Waiting(e)'
    BY <2>1, <2>2, <2>3, <2>4 DEF BudgetInv, Waiting, Open
  <2>7. ASSUME NEW w \in Workers
        PROVE  HandOK(w)' /\ ListOK(w)'
    <3>1. HandOK(w) /\ ListOK(w)
      BY DEF BudgetInv
    <3>2. HandOK(w)'
      BY <2>1, <2>2, <2>3, <2>5, <3>1 DEF HandOK, Waiting, Tried, Open, Holding
    <3>3. ListOK(w)'
      BY <2>1, <2>2, <2>3, <2>4, <3>1 DEF ListOK, Waiting, Tried, Open
    <3> QED BY <3>2, <3>3
  <2>8. ASSUME NEW q \in Runs
        PROVE  RowOK(q)'
    <3>1. RowOK(q)
      BY DEF BudgetInv
    <3>2. (\E g \in Handlers : handler'[g] = q) => q = r \/ \E g \in Handlers : handler[g] = q
      BY <1>1, <2>1
    <3> QED BY <1>1, <2>1, <2>2, <2>3, <3>1, <3>2 DEF RowOK
  <2> QED BY <2>6, <2>7, <2>8 DEF BudgetInv
<1> QED BY <1>3, <1>4, <1>5, <1>6

LEMMA BudgetNext ==
    ASSUME "database" \notin Faults, MaxStalls = 0, IsFiniteSet(Workers),
           TimelyInv, BudgetInv, [Next]_vars
    PROVE  BudgetInv'
<1>1. SystemInv'
  BY SystemNextInv DEF TimelyInv
<1>2. ASSUME NEW w \in Workers, Maintain(w) \/ MaintainRaises(w) \/ Expire(w)
      PROVE  BudgetInv'
  BY <1>2, BudgetMaintain
<1>3. ASSUME NEW w \in Workers, Main(w) \/ QueueRaises(w) \/ Resend(w)
      PROVE  BudgetInv'
  BY <1>1, <1>3, BudgetPipeline, BudgetQueue DEF Main
<1>4. ASSUME NEW w \in Workers, Crash(w)
      PROVE  BudgetInv'
  BY <1>1, <1>4, BudgetCrash DEF Crash
<1> QED BY <1>1, <1>2, <1>3, <1>4, BudgetApi DEF Next

(***************************************************************************)
(* While heartbeats arrive in time and transactions do not raise, a run is *)
(* tried max_attempts times at most, and once more for every worker that   *)
(* died, whatever webhooks are redelivered and whatever stage, request or  *)
(* Redis command raises; and unless a worker died, a run that rests as     *)
(* failed was tried exactly max_attempts times.                            *)
(***************************************************************************)
THEOREM RetryBudgetCorrect ==
    ASSUME "database" \notin Faults, MaxStalls = 0, IsFiniteSet(Workers)
    PROVE  Spec => []RetryBudgetKept
<1>1. Init => BudgetInv
  BY BudgetInit
<1>2. SystemInv /\ FenceInv /\ LeaseInv /\ OwnerInv => TimelyInv
  BY DEF SystemInv, SystemTypeOK, LeaseInv, TimelyInv
<1>3. TimelyInv /\ BudgetInv /\ [Next]_vars => BudgetInv'
  BY BudgetNext
<1>4. BudgetInv => RetryBudgetKept
  BY DEF BudgetInv, RowOK, RetryBudgetKept, Deaths
<1> QED BY <1>1, <1>2, <1>3, <1>4, SystemInvariant, FenceInvariant, LeaseInvariant,
           OwnerInvariant, PTL DEF Spec

=============================================================================
