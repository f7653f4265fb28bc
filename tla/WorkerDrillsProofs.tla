-------------------------- MODULE WorkerDrillsProofs --------------------------
(***************************************************************************)
(* Proofs about the two worker drills (ReplicaDrill and the modules it     *)
(* extends), for every number of workers, jobs and breaks of the network.  *)
(***************************************************************************)
EXTENDS ReplicaDrill, RedisQueueProofs, FiniteSetTheorems

-----------------------------------------------------------------------------
(* The load profile                                                        *)

\* Quotient and remainder.
LEMMA Quotient ==
    ASSUME NEW a \in Nat, NEW b \in Nat \ {0}
    PROVE  /\ a \div b \in Nat /\ a % b \in Nat
           /\ a = (b * (a \div b)) + (a % b) /\ a % b < b
<1>1. a \div b \in Nat /\ a % b \in 0 .. b - 1
  OBVIOUS
<1>2. a = b * (a \div b) + (a % b)
  OBVIOUS
<1> QED BY <1>1, <1>2

\* Max picks the greatest element.
LEMMA MaxIs ==
    ASSUME NEW S \in SUBSET Int, NEW m \in S, \A x \in S : x <= m
    PROVE  Max(S) = m
<1>1. \E x \in S : \A y \in S : x >= y
  OBVIOUS
<1>2. Max(S) \in S /\ \A y \in S : Max(S) >= y
  BY <1>1 DEF Max
<1>3. Max(S) \in Int /\ m \in Int /\ Max(S) >= m /\ Max(S) <= m
  BY <1>2
<1> HIDE DEF Max
<1> QED BY <1>3

\* Profile.planned_duration is where the pacing loop sends its last batch.
LEMMA PlanPaced ==
    ASSUME NEW jobs \in Nat, jobs >= 2, NEW burst \in Nat \ {0}
    PROVE  Planned(jobs, burst) = LastBatchAt(jobs, burst)
<1> DEFINE m == jobs - 1
           c == (m + burst - 1) \div burst
           q == (c - 1) * burst
<1>1. m \in Nat /\ m >= 1 /\ m + burst - 1 \in Nat
  OBVIOUS
<1>2. /\ c \in Nat
      /\ m + burst - 1 = burst * c + ((m + burst - 1) % burst)
      /\ (m + burst - 1) % burst < burst /\ (m + burst - 1) % burst \in Nat
  BY <1>1, Quotient
<1> HIDE DEF c
<1>3. burst * c >= m /\ burst * c < m + burst
  BY <1>1, <1>2
<1>4. c >= 1
  BY <1>1, <1>2, <1>3
<1>5. PICK d \in Nat : d = c - 1
  BY <1>2, <1>4
<1>6. burst * c = burst * d + burst
  BY <1>2, <1>5
<1>7. q = burst * d /\ q \in Nat /\ q < m /\ q + burst >= m
  BY <1>3, <1>5, <1>6, <1>1
<1>8. q % burst = 0
  <2>1. PICK e \in Nat, r \in Nat : q = burst * e + r /\ r < burst /\ r = q % burst
    BY <1>7, Quotient
  <2>2. burst * d = burst * e + r
    BY <1>7, <2>1
  <2>3. ~(d > e)
    <3>1. SUFFICES ASSUME d > e PROVE FALSE
      OBVIOUS
    <3>2a. d - (e + 1) \in Nat
      BY <3>1, <1>5
    <3>2b. PICK k \in Nat : k = d - (e + 1)
      BY <3>2a
    <3>2. d = e + 1 + k
      BY <3>2b, <1>5
    <3>3. burst * d = burst * e + burst + burst * k /\ burst * k \in Nat
      BY <3>2, <1>5
    <3> QED BY <3>3, <2>1, <2>2
  <2>4. ~(d < e)
    <3>1. SUFFICES ASSUME d < e PROVE FALSE
      OBVIOUS
    <3>2a. e - (d + 1) \in Nat
      BY <3>1, <1>5
    <3>2b. PICK k \in Nat : k = e - (d + 1)
      BY <3>2a
    <3>2. e = d + 1 + k
      BY <3>2b, <1>5
    <3>3. burst * e = burst * d + burst + burst * k /\ burst * k \in Nat
      BY <3>2, <1>5
    <3> QED BY <3>3, <2>1, <2>2
  <2>5. d = e
    BY <2>3, <2>4, <1>5
  <2>6. burst * e \in Nat /\ burst * e = burst * e + r
    BY <2>2, <2>5
  <2>7. r = 0
    BY <2>6
  <2> QED BY <2>1, <2>7
<1> HIDE DEF q
<1>9. q \in PausesAt(jobs, burst) \cup {0}
  BY <1>7, <1>8 DEF PausesAt
<1>10. ASSUME NEW p \in PausesAt(jobs, burst) PROVE p <= q
  <2>1. p \in Nat /\ p % burst = 0 /\ p < m
    BY <1>10 DEF PausesAt
  <2>2a. p \div burst \in Nat /\ p = burst * (p \div burst) + (p % burst)
    BY <2>1, Quotient
  <2>2b. PICK k \in Nat : k = p \div burst
    BY <2>2a
  <2>2. p = burst * k /\ burst * k \in Nat
    BY <2>1, <2>2a, <2>2b
  <2>3. burst * k < burst * d + burst
    BY <2>1, <2>2, <1>3, <1>6
  <2>4. k < d + 1
    BY <2>3, <1>5, <2>2
  <2>5. burst * k <= burst * d
    BY <2>4, <1>5
  <2> QED BY <2>2, <2>5, <1>7
<1>11. LastBatchAt(jobs, burst) = q
  <2>1. PausesAt(jobs, burst) \cup {0} \in SUBSET Int
    BY <1>1 DEF PausesAt
  <2>2. \A x \in PausesAt(jobs, burst) \cup {0} : x <= q
    BY <1>10, <1>7
  <2> QED BY <2>1, <2>2, <1>9, MaxIs DEF LastBatchAt
<1> QED BY <1>11 DEF q, c, Planned, Ceiling

(***************************************************************************)
(* The duration that the evidence states as planned is the one the pacing  *)
(* loop produces (run_container_soak.py: planned_duration,                 *)
(* container_runtime.py: run_coordinator).                                 *)
(***************************************************************************)
THEOREM PlanIsPacedCorrect == Spec => []PlanIsPaced
<1>1. PlanIsPaced
  <2>1. ASSUME NEW jobs \in 2 .. 30, NEW burst \in 1 .. jobs
        PROVE  Planned(jobs, burst) = LastBatchAt(jobs, burst)
    BY PlanPaced
  <2> QED BY <2>1 DEF PlanIsPaced
<1> QED BY <1>1, PTL

-----------------------------------------------------------------------------
(* Inductive invariant                                                     *)

Labels == {"off", "dead", "boot", "booting", "idle", "claimed", "hold", "call",
           "complete", "ack", "raise"}

\* Types, and what a worker holds while it works.
DrillTypes ==
    /\ drill \in {"soak", "replica"}
    /\ pc \in [Workers -> Labels]
    /\ job \in [Workers -> Envelope \cup {NoJob}]
    /\ call \in [Workers -> [provider : Providers, tries : Nat]]
    /\ tally \in [Workers -> Nat]
    /\ requests \in [Providers -> 0 .. Healthy + 1]
    /\ starts \in [Runs -> Nat]
    /\ completions \in [Runs -> Nat]
    /\ done \in [Runs -> Nat]
    /\ worked \subseteq Workers
    /\ recovered \in Nat
    /\ sent \in Nat
    /\ \A w \in Workers : Busy(w) => job[w] \in Envelope

\* A worker of the soak has the answer of GitHub for a run, or finished it.
PastGithub(r) ==
    \/ done[r] > 0
    \/ \E w \in Workers : pc[w] = "call" /\ call[w].provider = "llm" /\ job[w].run = r

(***************************************************************************)
(* No call has tried more often than its provider was asked; a call is at  *)
(* "llm" only while its worker is in one; and every run that got an answer *)
(* got one that only it got, after the two failures.                       *)
(***************************************************************************)
CallsOK ==
    /\ \A w \in Workers :
        /\ pc[w] # "raise"
        /\ call[w].tries <= requests[call[w].provider]
        /\ pc[w] # "call" \/ drill = "replica" => call[w] = NoCall
    /\ drill = "soak" =>
        /\ \A r \in Runs :
            /\ PastGithub(r) => requests["github"] >= 3
            /\ done[r] > 0 => requests["llm"] >= 3
            /\ \A s \in Runs \ {r} :
                /\ PastGithub(r) /\ PastGithub(s) => requests["github"] >= 4
                /\ done[r] > 0 /\ done[s] > 0 => requests["llm"] >= 4

\* Those who finished a run and have not recorded it.
Unrecorded(r) == {w \in Workers : pc[w] = "complete" /\ job[w].run = r}

\* Only finished runs are recorded as completed, and all that were finished
\* are, but for those whose worker is about to do it.
CountsOK ==
    /\ \A w \in Workers : pc[w] = "complete" => done[job[w].run] > 0
    /\ \A r \in Runs : completions[r] > 0 => done[r] > 0
    /\ \A r \in Runs : done[r] <= completions[r] + Cardinality(Unrecorded(r))
    /\ drill = "replica" => done = completions

Opening == {"seed", "claim"}
Closing == {"send", "complete", "members", "size", "count", "judge", "observe", "within",
            "beyond"}

\* The victim of the soak starts its job and is killed in it; whoever works on
\* that job later starts it again.
VictimOK ==
    drill = "soak" =>
        /\ \A w \in Workers :
            /\ pc[w] = "hold" => /\ w = Victim /\ job[w].run = VictimRun
                                 /\ w \in worked /\ starts[VictimRun] >= 1
            /\ pc[w] \in {"call", "complete", "ack"} /\ job[w].run = VictimRun
                 => starts[VictimRun] >= 2
            /\ pc[w] = "dead" => w = Victim
            /\ pc[w] = "off" => processing[w] = <<>>
        /\ done[VictimRun] > 0 => starts[VictimRun] >= 2
        /\ step \in Opening => /\ \A w \in Workers \ {Victim} : pc[w] = "off"
                               /\ dedupe \subseteq {VictimRun}
        /\ step \notin Opening => /\ pc[Victim] = "dead"
                                  /\ Victim \in worked /\ starts[VictimRun] >= 1
        /\ step \in Closing => reconnected

\* Unless the network spoiled the soak there is one job to recover, and it is
\* in the victim's list, in the count of one round, or in the metric.
RecoveryOK ==
    drill = "soak" /\ ~spoiled =>
        /\ Len(processing[Victim]) <= 1
        /\ recovered <= 1
        /\ \A w \in Workers :
            /\ tally[w] \in {0, 1, Raised}
            /\ tally[w] = 1 => recovered = 0 /\ \A u \in Workers \ {w} : tally[u] # 1
        /\ step \in Opening \/ processing[Victim] # <<>>
             => recovered = 0 /\ \A w \in Workers : tally[w] # 1

\* What is known when the verdict is near, and after it.
VerdictOK ==
    /\ drill = "soak" => step \in Opening \cup Closing
                            \cup {"workers", "recovery", "cut", "reconnect", "reconnected"}
    /\ drill = "replica" => step \in {"first", "abandon", "abandoned", "replicas", "send",
                                      "wait", "acked", "check", "checked", "ended"}
    /\ step \in {"judge", "observe", "within", "beyond", "check", "checked", "ended"}
          => dedupe = {}
    /\ verdict = "passed" /\ drill = "soak" =>
        /\ step \in {"observe", "within", "beyond"}
        /\ ExactlyOnce /\ QueueDrained
    /\ verdict = "passed" /\ drill = "replica" =>
        /\ step \in {"checked", "ended"}
        /\ step = "checked" => \A r \in Runs : completions[r] = 1
    /\ evidence # "none" => verdict = "passed" /\ step \in {"within", "beyond"}

DrillInv ==
    /\ QueueInv
    /\ DrillTypes
    /\ CallsOK
    /\ CountsOK
    /\ VictimOK
    /\ RecoveryOK
    /\ VerdictOK

-----------------------------------------------------------------------------
(* The steps, grouped by what they change                                  *)

\* What only workers, and a driver that starts or kills them, change.
Quiet == UNCHANGED <<drill, workerVars, requests, trackerVars, done>>

LEMMA StepKinds ==
    ASSUME Next
    PROVE  \/ Quiet
           \/ verdict = "none" /\ KillVictim
           \/ verdict = "none" /\ \E w \in Workers : StartWorker(w)
           \/ verdict = "none" /\ StartReplicas
           \/ EndReplicaDrill
           \/ verdict = "none" /\ WorkerNext /\ UNCHANGED driverVars
<1>1. CASE verdict = "none" /\ SoakNext
  <2>1. CASE SeedVictim \/ (drill = "soak" /\ (SendBatch \/ BatchSent("complete")))
    BY <2>1 DEF SeedVictim, SendBatch, Send, BatchSent, SenderOnly, DriverOnly, Quiet, historyVars
  <2>2. CASE \/ VictimRecovered \/ CutNetwork \/ RestoreNetwork \/ ReconnectionSeen \/ AllCompleted
             \/ ReadMembers \/ ReadSize \/ ReadCardinality \/ WaitExpires \/ Judge
             \/ \E w \in Workers : ReadLength(w)
    BY <2>2 DEF VictimRecovered, CutNetwork, RestoreNetwork, ReconnectionSeen, AllCompleted, Read,
       ReadMembers, ReadSize, ReadCardinality, WaitExpires, Judge, ReadLength, DriverOnly, Quiet,
       historyVars
  <2> QED BY <1>1, <2>1, <2>2 DEF SoakNext
<1>2. CASE verdict = "none" /\ ReplicaNext
  <2>1. CASE EnqueueFirst \/ (drill = "replica" /\ (SendBatch \/ BatchSent("wait")))
    BY <2>1 DEF EnqueueFirst, SendBatch, Send, BatchSent, SenderOnly, DriverOnly, Quiet, historyVars
  <2>2. CASE AbandonedBeats \/ AbandonedClaims \/ CompletionWaited \/ AcknowledgementWaited
             \/ CheckResults
    BY <2>2 DEF AbandonedBeats, AbandonedClaims, CompletionWaited, AcknowledgementWaited,
       CheckResults, DriverOnly, Quiet, historyVars
  <2> QED BY <1>2, <2>1, <2>2 DEF ReplicaNext
<1>3. CASE UnplannedBreak \/ NetworkReturns \/ CompileEvidence
  BY <1>3 DEF UnplannedBreak, NetworkReturns, CompileEvidence, DriverOnly, Quiet, historyVars
<1> QED BY <1>1, <1>2, <1>3 DEF Next

\* A step of one worker.
WorkerActs(w) ==
    \/ LeaseRunsOut(w)
    \/ Beat(w) \/ Scan(w) \/ BootBeat(w) \/ RecoverStep(w) \/ NothingToRecover(w)
    \/ RecoverLost(w) \/ MaintenanceFails(w)
    \/ DequeuePop(w) \/ DequeueNothing(w)
    \/ QueueFails(w) \/ AcknowledgeJob(w)
    \/ RecordStart(w) \/ RecordStartAgain(w) \/ CallProvider(w)
    \/ RecordCompletion(w) \/ RecordCompletionAgain(w) \/ ProcessEnds(w)

\* A worker changes nothing of another.
LEMMA OthersKeep ==
    ASSUME NEW w \in Workers, DrillTypes, WorkerActs(w)
    PROVE  /\ drill' = drill
           /\ DOMAIN pc' = Workers /\ DOMAIN job' = Workers /\ DOMAIN call' = Workers
           /\ DOMAIN tally' = Workers
           /\ \A u \in Workers \ {w} :
                /\ pc'[u] = pc[u] /\ job'[u] = job[u] /\ call'[u] = call[u]
                /\ tally'[u] = tally[u]
<1>1. CASE LeaseRunsOut(w)
  BY <1>1 DEF LeaseRunsOut, workerVars, DrillTypes
<1>2. CASE Beat(w) \/ Scan(w)
  BY <1>2 DEF Beat, Scan, MaintenanceOnly, DrillTypes
<1>3. CASE BootBeat(w)
  BY <1>3 DEF BootBeat, MaintenanceOnly, Goto, DrillTypes
<1>4. CASE RecoverStep(w)
  BY <1>4 DEF RecoverStep, MaintenanceOnly, DrillTypes
<1>5. CASE NothingToRecover(w) \/ RecoverLost(w) \/ MaintenanceFails(w)
  BY <1>5 DEF NothingToRecover, RecoverLost, MaintenanceFails, MaintenanceOnly, DrillTypes
<1>6. CASE DequeuePop(w) \/ DequeueNothing(w) \/ AcknowledgeJob(w)
  BY <1>6 DEF DequeuePop, DequeueNothing, AcknowledgeJob, MainOnly, Goto, DrillTypes
<1>7. CASE QueueFails(w)
  BY <1>7 DEF QueueFails, Goto, DrillTypes
<1>8. CASE RecordStart(w) \/ RecordStartAgain(w)
  BY <1>8 DEF RecordStart, RecordStartAgain, PipelineOnly, Goto, DrillTypes
<1>9. CASE CallProvider(w)
  BY <1>9 DEF CallProvider, PipelineOnly, Goto, DrillTypes
<1>10. CASE RecordCompletion(w) \/ RecordCompletionAgain(w) \/ ProcessEnds(w)
  BY <1>10 DEF RecordCompletion, RecordCompletionAgain, ProcessEnds, PipelineOnly, Goto, DrillTypes
<1> QED BY <1>1, <1>2, <1>3, <1>4, <1>5, <1>6, <1>7, <1>8, <1>9, <1>10 DEF WorkerActs

-----------------------------------------------------------------------------
(* The drills use the queue as its clients do                              *)

\* The commands of one worker are commands of the queue.
LEMMA WorkerUsesQueue ==
    ASSUME QueueInv, DrillTypes, NEW w \in Workers, WorkerActs(w)
    PROVE  [QueueNext]_queueVars
<1> USE DEF QueueNext
<1>1. CASE LeaseRunsOut(w) \/ Beat(w) \/ Scan(w) \/ BootBeat(w) \/ MaintenanceFails(w)
  BY <1>1 DEF LeaseRunsOut, Beat, Scan, BootBeat, MaintenanceFails
<1>2. CASE RecoverStep(w) \/ RecoverLost(w)
  <2>1. \E v \in scan[w] : Recover(w, v)
    BY <1>2 DEF RecoverStep, RecoverLost
  <2>2. scan[w] \subseteq Workers
    BY DEF QueueInv, QueueTypeOK
  <2> QED BY <2>1, <2>2
<1>3. CASE DequeuePop(w) \/ DequeueNothing(w)
  BY <1>3 DEF DequeuePop, DequeueNothing
<1>4. CASE QueueFails(w) \/ AcknowledgeJob(w)
  <2>1. \/ UNCHANGED queueVars \/ Claim(w)
        \/ pc[w] = "ack" /\ Acknowledge(w, job[w])
    BY <1>4 DEF QueueFails, AcknowledgeJob
  <2>2. pc[w] = "ack" => job[w] \in Envelope
    BY DEF DrillTypes, Busy
  <2> QED BY <2>1, <2>2
<1>5. CASE \/ NothingToRecover(w) \/ RecordStart(w) \/ RecordStartAgain(w) \/ CallProvider(w)
           \/ RecordCompletion(w) \/ RecordCompletionAgain(w) \/ ProcessEnds(w)
  BY <1>5 DEF NothingToRecover, RecordStart, RecordStartAgain, CallProvider, RecordCompletion,
     RecordCompletionAgain, ProcessEnds, PipelineOnly
<1> QED BY <1>1, <1>2, <1>3, <1>4, <1>5 DEF WorkerActs

\* The run ids that the driver sends.
LEMMA BatchRuns ==
    ASSUME NEW n \in Nat, n < Len(Batch)
    PROVE  Batch[n + 1] \in Runs
  BY BatchAssumption

\* So are those of the driver, but for the end of the replica drill.
LEMMA DriverUsesQueue ==
    ASSUME Next, ~(verdict = "none" /\ WorkerNext /\ UNCHANGED driverVars), ~EndReplicaDrill,
           sent \in Nat
    PROVE  [QueueNext]_queueVars
<1> USE DEF QueueNext
<1>1. VictimRun \in Runs /\ Victim \in Workers
  BY DrillAssumption
<1>2. CASE SoakNext
  <2>1. CASE SeedVictim
    BY <2>1, <1>1 DEF SeedVictim, EnqueueAnswered
  <2>2. CASE SendBatch
    BY <2>2, BatchRuns DEF SendBatch, Send, EnqueueAnswered, EnqueueRaises
  <2>3. CASE KillVictim
    BY <2>3, <1>1 DEF KillVictim
  <2>4. CASE \/ VictimRecovered \/ CutNetwork \/ RestoreNetwork \/ ReconnectionSeen \/ AllCompleted
             \/ ReadMembers \/ ReadSize \/ ReadCardinality \/ WaitExpires \/ Judge
             \/ BatchSent("complete") \/ \E w \in Workers : StartWorker(w) \/ ReadLength(w)
    BY <2>4 DEF VictimRecovered, CutNetwork, RestoreNetwork, ReconnectionSeen, AllCompleted, Read,
       ReadMembers, ReadSize, ReadCardinality, WaitExpires, Judge, ReadLength, StartWorker,
       BatchSent
  <2> QED BY <1>2, <2>1, <2>2, <2>3, <2>4 DEF SoakNext
<1>3. CASE ReplicaNext
  <2>1. CASE EnqueueFirst \/ AbandonedBeats \/ AbandonedClaims
    BY <2>1, <1>1 DEF EnqueueFirst, EnqueueAnswered, AbandonedBeats, AbandonedClaims
  <2>2. CASE SendBatch
    BY <2>2, BatchRuns DEF SendBatch, Send, EnqueueAnswered, EnqueueRaises
  <2>3. CASE \/ StartReplicas \/ CompletionWaited \/ AcknowledgementWaited \/ CheckResults
             \/ BatchSent("wait")
    BY <2>3 DEF StartReplicas, CompletionWaited, AcknowledgementWaited, CheckResults, BatchSent
  <2> QED BY <1>3, <2>1, <2>2, <2>3 DEF ReplicaNext
<1>4. CASE UnplannedBreak \/ NetworkReturns \/ CompileEvidence
  BY <1>4 DEF UnplannedBreak, NetworkReturns, CompileEvidence
<1> QED BY <1>2, <1>3, <1>4 DEF Next

LEMMA QueueStep ==
    ASSUME DrillInv, Next
    PROVE  QueueInv'
<1>1. CASE EndReplicaDrill
  <2>1. /\ pending' = <<>> /\ processing' = [w \in Workers |-> <<>>] /\ dedupe' = {}
        /\ registered' = {} /\ leased' = {} /\ scan' = [w \in Workers |-> {}]
    BY <1>1 DEF EndReplicaDrill
  <2>2. RunsOf(<<>>) = {} /\ NoRepeat(<<>>)
    BY DEF RunsOf, NoRepeat
  <2>3. QueueTypeOK'
    BY <2>1 DEF QueueTypeOK
  <2>4. DedupeMatchesJobs'
    BY <2>1, <2>2 DEF DedupeMatchesJobs
  <2>5. OneJobPerRun'
    BY <2>1, <2>2 DEF OneJobPerRun
  <2> QED BY <2>3, <2>4, <2>5 DEF QueueInv
<1>2. CASE verdict = "none" /\ WorkerNext /\ UNCHANGED driverVars
  <2>1. PICK w \in Workers : WorkerActs(w)
    BY <1>2 DEF WorkerNext, WorkerActs
  <2>2. [QueueNext]_queueVars
    BY <2>1, WorkerUsesQueue DEF DrillInv
  <2> QED BY <2>2, QueueNextInv DEF DrillInv
<1>3. CASE ~EndReplicaDrill /\ ~(verdict = "none" /\ WorkerNext /\ UNCHANGED driverVars)
  <2>1. [QueueNext]_queueVars
    BY <1>3, DriverUsesQueue DEF DrillInv, DrillTypes
  <2> QED BY <2>1, QueueNextInv DEF DrillInv
<1> QED BY <1>1, <1>2, <1>3

-----------------------------------------------------------------------------
(* Types                                                                   *)

\* The job that a pop hands out.
LEMMA PoppedJob ==
    ASSUME QueueInv, pending # <<>>
    PROVE  Last(pending) \in Envelope
  BY PopJob DEF QueueInv, QueueTypeOK

\* What a recovery script of a round does to the counts: worker w visits v, and
\* has found n jobs in this round.
Recovers(w, v, n) ==
    /\ v \in Workers /\ v \in scan[w]
    /\ n = tally[w] + (IF v \in leased THEN 0 ELSE Len(processing[v]))
    /\ n \in Nat
    /\ tally[w] # Raised
    /\ Alive(w)
    /\ Recover(w, v)
    /\ ~spoiled' => ~spoiled /\ ~TakenOver(v)
    /\ \/ /\ tally' = [tally EXCEPT ![w] = 0]
          /\ recovered' = recovered + n
          /\ pc' = [pc EXCEPT ![w] = IF pc[w] = "booting" THEN "idle" ELSE pc[w]]
       \/ /\ tally' = [tally EXCEPT ![w] = n]
          /\ recovered' = recovered /\ pc' = pc
    /\ UNCHANGED <<drill, job, call, requests, starts, completions, worked, done>>

LEMMA RecoverEffect ==
    ASSUME QueueInv, DrillTypes, NEW w \in Workers, RecoverStep(w)
    PROVE  \E v \in Workers, n \in Nat : Recovers(w, v, n)
<1> DEFINE Found(v) == tally[w] + (IF v \in leased THEN 0 ELSE Len(processing[v]))
<1>1. PICK v \in scan[w] :
        /\ Recover(w, v)
        /\ spoiled' = (spoiled \/ TakenOver(v))
        /\ \/ /\ tally' = [tally EXCEPT ![w] = 0]
              /\ recovered' = recovered + Found(v)
              /\ pc' = [pc EXCEPT ![w] = IF pc[w] = "booting" THEN "idle" ELSE pc[w]]
           \/ /\ tally' = [tally EXCEPT ![w] = Found(v)]
              /\ recovered' = recovered /\ pc' = pc
  <2>1. PICK v \in scan[w] :
        /\ Recover(w, v)
        /\ spoiled' = (spoiled \/ TakenOver(v))
        /\ IF scan[w] = {v}
           THEN /\ tally' = [tally EXCEPT ![w] = 0]
                /\ recovered' = recovered + Found(v)
                /\ pc' = [pc EXCEPT ![w] = IF @ = "booting" THEN "idle" ELSE @]
                /\ QueueSuccess(w, "maintenance")
           ELSE /\ tally' = [tally EXCEPT ![w] = Found(v)]
                /\ UNCHANGED <<recovered, metricVars, pc>>
    BY Zenon DEF RecoverStep
  <2>2. CASE scan[w] = {v}
    <3>1. pc' = [pc EXCEPT ![w] = IF pc[w] = "booting" THEN "idle" ELSE pc[w]]
      BY <2>1, <2>2
    <3> QED BY <2>1, <2>2, <3>1
  <2>3. CASE scan[w] # {v}
    BY <2>1, <2>3
  <2> QED BY <2>2, <2>3
<1>2. v \in Workers /\ processing[v] \in Seq(Envelope) /\ tally[w] \in Nat
  BY DEF QueueInv, QueueTypeOK, DrillTypes
<1>3. Found(v) \in Nat
  BY <1>2
<1>4. /\ tally[w] # Raised /\ Alive(w)
      /\ UNCHANGED <<drill, job, call, requests, starts, completions, worked, done>>
  BY DEF RecoverStep, MaintenanceOnly
<1>5. ~spoiled' => ~spoiled /\ ~TakenOver(v)
  BY <1>1
<1> HIDE DEF Found
<1>6. Found(v) = tally[w] + (IF v \in leased THEN 0 ELSE Len(processing[v]))
  BY DEF Found
<1>7. Recovers(w, v, Found(v))
  BY <1>1, <1>2, <1>3, <1>4, <1>5, <1>6 DEF Recovers
<1> QED BY <1>2, <1>3, <1>7

\* What the n-th request of provider p does, sent by worker w.
Asks(w, p, n) ==
    /\ drill = "soak"
    /\ pc[w] = "call"
    /\ p = call[w].provider
    /\ n = requests[p] + 1
    /\ requests' = [requests EXCEPT ![p] = IF n > Healthy + 1 THEN Healthy + 1 ELSE n]
    /\ \/ /\ n >= 3 /\ p = "github"
          /\ call' = [call EXCEPT ![w] = [provider |-> "llm", tries |-> 0]]
          /\ pc' = pc /\ done' = done
       \/ /\ n >= 3 /\ p = "llm"
          /\ call' = [call EXCEPT ![w] = NoCall]
          /\ pc' = [pc EXCEPT ![w] = "complete"]
          /\ done' = [done EXCEPT ![job[w].run] = @ + 1]
       \/ /\ n <= 2 /\ call[w].tries + 1 < MaxTries
          /\ call' = [call EXCEPT ![w] = [provider |-> p, tries |-> call[w].tries + 1]]
          /\ pc' = pc /\ done' = done
       \/ /\ n <= 2 /\ call[w].tries + 1 >= MaxTries
          /\ call' = [call EXCEPT ![w] = NoCall]
          /\ pc' = [pc EXCEPT ![w] = "raise"]
          /\ done' = done
    /\ UNCHANGED <<queueVars, drill, job, tally, recovered, starts, completions, worked, spoiled,
                   metricVars>>

LEMMA CallEffect ==
    ASSUME DrillTypes, NEW w \in Workers, CallProvider(w)
    PROVE  \E p \in Providers, n \in Nat : Asks(w, p, n)
<1> DEFINE p == call[w].provider
           n == requests[p] + 1
           outcome == CallOutcome(call[w], n)
<1>1. /\ p \in {"github", "llm"} /\ call[w].tries \in Nat /\ requests[p] \in 0 .. 4
      /\ call[w] = [provider |-> p, tries |-> call[w].tries] /\ p \in Providers
  BY DEF DrillTypes, Providers, Healthy
<1>2. /\ drill = "soak" /\ pc[w] = "call"
      /\ requests' = [requests EXCEPT ![p] = IF n > Healthy + 1 THEN @ ELSE n]
      /\ call' = [call EXCEPT ![w] = outcome.call]
      /\ pc' = [pc EXCEPT ![w] = outcome.label]
      /\ done' = IF outcome.label = "complete"
                 THEN [done EXCEPT ![job[w].run] = @ + 1] ELSE done
      /\ UNCHANGED <<queueVars, drill, job, tally, recovered, starts, completions, worked, spoiled,
                     metricVars>>
  BY Zenon DEF CallProvider, Goto, PipelineOnly, Counters, netVars
<1> HIDE DEF outcome
<1>3. requests' = [requests EXCEPT ![p] = IF n > Healthy + 1 THEN Healthy + 1 ELSE n]
  <2>1. (IF n > Healthy + 1 THEN requests[p] ELSE n)
            = (IF n > Healthy + 1 THEN Healthy + 1 ELSE n)
    BY <1>1 DEF Healthy
  <2>2. requests' = [requests EXCEPT ![p] = IF n > Healthy + 1 THEN requests[p] ELSE n]
    BY <1>2
  <2> HIDE DEF n, p
  <2> QED BY <2>1, <2>2
<1>4. pc' = pc \/ outcome.label # "call"
  BY <1>2 DEF DrillTypes
<1>5. n \in Nat /\ n >= 1
  BY <1>1
<1>6. Status(n) = 200 <=> n >= 3
  BY <1>5 DEF Status
<1>7. CASE n >= 3 /\ p = "github"
  <2>1. outcome = [label |-> "call", call |-> [provider |-> "llm", tries |-> 0]]
    BY <1>6, <1>7 DEF CallOutcome, outcome
  <2>2. /\ call' = [call EXCEPT ![w] = [provider |-> "llm", tries |-> 0]]
        /\ pc' = pc /\ done' = done
    BY <1>2, <1>4, <2>1
  <2> HIDE DEF n, p, outcome
  <2> QED BY <1>1, <1>2, <1>3, <1>5, <1>7, <2>2 DEF Asks, n, p
<1>8. CASE n >= 3 /\ p = "llm"
  <2>1. outcome = [label |-> "complete", call |-> NoCall]
    BY <1>6, <1>8 DEF CallOutcome, outcome
  <2>2. /\ call' = [call EXCEPT ![w] = NoCall]
        /\ pc' = [pc EXCEPT ![w] = "complete"]
        /\ done' = [done EXCEPT ![job[w].run] = @ + 1]
    BY <1>2, <2>1
  <2> HIDE DEF n, p, outcome
  <2> QED BY <1>1, <1>2, <1>3, <1>5, <1>8, <2>2 DEF Asks, n, p
<1>9. CASE n <= 2 /\ call[w].tries + 1 < MaxTries
  <2>1. outcome = [label |-> "call", call |-> [provider |-> p, tries |-> call[w].tries + 1]]
    BY <1>1, <1>5, <1>6, <1>9 DEF CallOutcome, outcome
  <2>2. /\ call' = [call EXCEPT ![w] = [provider |-> p, tries |-> call[w].tries + 1]]
        /\ pc' = pc /\ done' = done
    BY <1>2, <1>4, <2>1
  <2> HIDE DEF n, p, outcome
  <2> QED BY <1>1, <1>2, <1>3, <1>5, <1>9, <2>2 DEF Asks, n, p
<1>10. CASE n <= 2 /\ call[w].tries + 1 >= MaxTries
  <2>1. outcome = [label |-> "raise", call |-> NoCall]
    BY <1>1, <1>5, <1>6, <1>10 DEF CallOutcome, MaxTries, outcome
  <2>2. /\ call' = [call EXCEPT ![w] = NoCall]
        /\ pc' = [pc EXCEPT ![w] = "raise"] /\ done' = done
    BY <1>2, <2>1
  <2> HIDE DEF n, p, outcome
  <2> QED BY <1>1, <1>2, <1>3, <1>5, <1>10, <2>2 DEF Asks, n, p
<1> QED BY <1>1, <1>5, <1>7, <1>8, <1>9, <1>10 DEF MaxTries

\* The driver counts the jobs that it sent.
LEMMA SentStep ==
    ASSUME Next, sent \in Nat
    PROVE  sent' \in Nat
<1>1. CASE SoakNext
  <2>1. CASE SeedVictim \/ KillVictim \/ VictimRecovered \/ CutNetwork \/ RestoreNetwork
    BY <2>1 DEF SeedVictim, KillVictim, VictimRecovered, CutNetwork, RestoreNetwork, Waiting
  <2>2. CASE ReconnectionSeen \/ AllCompleted \/ ReadMembers \/ ReadSize \/ ReadCardinality
    <3>1. sent' = sent
      BY <2>2, Zenon DEF ReconnectionSeen, AllCompleted, Read, ReadMembers, ReadSize,
         ReadCardinality, Waiting
    <3> QED BY <3>1
  <2>3. CASE WaitExpires \/ Judge
    BY <2>3, Zenon DEF WaitExpires, Judge
  <2>5. CASE SendBatch \/ BatchSent("complete")
    BY <2>5 DEF SendBatch, BatchSent
  <2>4. CASE \E w \in Workers : StartWorker(w) \/ ReadLength(w)
    BY <2>4 DEF StartWorker, ReadLength, Waiting
  <2> QED BY <1>1, <2>1, <2>2, <2>3, <2>4, <2>5 DEF SoakNext
<1>2. CASE ReplicaNext
  <2>1. CASE EnqueueFirst \/ AbandonedBeats \/ AbandonedClaims \/ StartReplicas
    BY <2>1 DEF EnqueueFirst, AbandonedBeats, AbandonedClaims, StartReplicas
  <2>2. CASE CompletionWaited \/ AcknowledgementWaited \/ CheckResults
    BY <2>2 DEF CompletionWaited, AcknowledgementWaited, CheckResults
  <2>3. CASE SendBatch \/ BatchSent("wait")
    BY <2>3 DEF SendBatch, BatchSent
  <2> QED BY <1>2, <2>1, <2>2, <2>3 DEF ReplicaNext
<1>3. CASE UnplannedBreak \/ NetworkReturns \/ CompileEvidence \/ EndReplicaDrill
  BY <1>3 DEF UnplannedBreak, NetworkReturns, CompileEvidence, EndReplicaDrill, driverVars
<1>4. CASE UNCHANGED driverVars
  BY <1>4 DEF driverVars
<1> QED BY <1>1, <1>2, <1>3, <1>4 DEF Next

LEMMA TypesStep ==
    ASSUME DrillInv, Next
    PROVE  DrillTypes'
<1> USE DEF Labels
<1>1. DrillTypes /\ QueueInv
  BY DEF DrillInv
<1>2. sent' \in Nat
  BY <1>1, SentStep DEF DrillTypes
<1>3. CASE Quiet
  BY <1>1, <1>2, <1>3 DEF Quiet, workerVars, trackerVars, DrillTypes, Busy
<1>4. CASE KillVictim
  BY <1>1, <1>2, <1>4 DEF KillVictim, Goto, trackerVars, historyVars, DrillTypes, Busy, Waiting
<1>5. CASE \E w \in Workers : StartWorker(w)
  BY <1>1, <1>2, <1>5 DEF StartWorker, Goto, trackerVars, historyVars, DrillTypes, Busy, Waiting
<1>6. CASE StartReplicas
  BY <1>1, <1>2, <1>6 DEF StartReplicas, trackerVars, historyVars, DrillTypes, Busy
<1>7. CASE EndReplicaDrill
  BY <1>1, <1>2, <1>7 DEF EndReplicaDrill, trackerVars, historyVars, DrillTypes, Busy
<1>8. ASSUME NEW w \in Workers, WorkerActs(w)
      PROVE  DrillTypes'
  <2>1. CASE LeaseRunsOut(w)
    BY <1>1, <1>2, <2>1 DEF LeaseRunsOut, workerVars, trackerVars, historyVars, DrillTypes, Busy
  <2>2. CASE Beat(w) \/ Scan(w) \/ BootBeat(w)
    BY <1>1, <1>2, <2>2 DEF Beat, Scan, BootBeat, MaintenanceOnly, Goto, DrillTypes, Busy
  <2>3. CASE RecoverStep(w)
    <3>1. PICK v \in Workers, n \in Nat : Recovers(w, v, n)
      BY <1>1, <2>3, RecoverEffect
    <3>2. pc' \in [Workers -> Labels] /\ \A u \in Workers : Busy(u)' => Busy(u)
      BY <1>1, <3>1 DEF Recovers, DrillTypes, Busy
    <3>3. tally' \in [Workers -> Nat] /\ recovered' \in Nat
      <4>1. \/ tally' = [tally EXCEPT ![w] = 0] /\ recovered' = recovered + n
            \/ tally' = [tally EXCEPT ![w] = n] /\ recovered' = recovered
        BY <3>1 DEF Recovers
      <4> QED BY <1>1, <4>1 DEF DrillTypes
    <3> QED BY <1>1, <1>2, <3>1, <3>2, <3>3 DEF Recovers, DrillTypes
  <2>4. CASE NothingToRecover(w) \/ RecoverLost(w) \/ MaintenanceFails(w)
    <3>1. pc' \in [Workers -> Labels] /\ \A u \in Workers : Busy(u)' => Busy(u)
      BY <1>1, <2>4 DEF NothingToRecover, RecoverLost, MaintenanceFails, DrillTypes, Busy
    <3>2. tally' \in [Workers -> Nat] /\ recovered' = recovered
      BY <1>1, <2>4 DEF NothingToRecover, RecoverLost, MaintenanceFails, DrillTypes, Raised
    <3>3. UNCHANGED <<drill, job, call, requests, starts, completions, worked, done>>
      BY <2>4 DEF NothingToRecover, RecoverLost, MaintenanceFails, MaintenanceOnly
    <3> QED BY <1>1, <1>2, <3>1, <3>2, <3>3 DEF DrillTypes
  <2>5. CASE DequeuePop(w)
    <3>1. Last(pending) \in Envelope
      BY <1>1, <2>5, PoppedJob DEF DequeuePop, Claim
    <3> QED BY <1>1, <1>2, <2>5, <3>1 DEF DequeuePop, MainOnly, Counters, Goto, historyVars,
            DrillTypes, Busy
  <2>6. CASE DequeueNothing(w) \/ AcknowledgeJob(w)
    BY <1>1, <1>2, <2>6 DEF DequeueNothing, AcknowledgeJob, MainOnly, Counters, Goto, historyVars,
       DrillTypes, Busy
  <2>7. CASE QueueFails(w)
    BY <1>1, <1>2, <2>7 DEF QueueFails, Counters, Goto, DrillTypes, Busy
  <2>8. CASE RecordStart(w) \/ RecordStartAgain(w)
    BY <1>1, <1>2, <2>8 DEF RecordStart, RecordStartAgain, CountStart, PipelineOnly, Goto,
       historyVars, DrillTypes, Busy
  <2>9. CASE CallProvider(w)
    <3>1. PICK p \in Providers, n \in Nat : Asks(w, p, n)
      BY <1>1, <2>9, CallEffect
    <3>2. requests' \in [Providers -> 0 .. Healthy + 1]
      BY <1>1, <3>1 DEF Asks, DrillTypes, Healthy
    <3>3. call' \in [Workers -> [provider : Providers, tries : Nat]]
      <4>1. NoCall \in [provider : Providers, tries : Nat]
        BY DEF NoCall, Providers
      <4>2. [provider |-> "llm", tries |-> 0] \in [provider : Providers, tries : Nat]
        BY DEF Providers
      <4>3. [provider |-> p, tries |-> call[w].tries + 1] \in [provider : Providers, tries : Nat]
        BY <1>1 DEF DrillTypes
      <4>4. \E c \in [provider : Providers, tries : Nat] : call' = [call EXCEPT ![w] = c]
        BY <3>1, <4>1, <4>2, <4>3 DEF Asks
      <4> QED BY <1>1, <4>4 DEF DrillTypes
    <3>4. done' \in [Runs -> Nat] /\ pc' \in [Workers -> Labels]
      BY <1>1, <3>1 DEF Asks, DrillTypes
    <3>5. \A u \in Workers : pc'[u] \in {"claimed", "hold", "call", "complete", "ack"}
                => pc[u] \in {"claimed", "hold", "call", "complete", "ack"}
      BY <1>1, <3>1 DEF Asks, DrillTypes
    <3> QED BY <1>1, <1>2, <3>1, <3>2, <3>3, <3>4, <3>5 DEF Asks, DrillTypes, Busy
  <2>10. CASE RecordCompletion(w) \/ RecordCompletionAgain(w) \/ ProcessEnds(w)
    <3>1. pc' \in [Workers -> Labels] /\ \A u \in Workers : Busy(u)' => Busy(u)
      BY <1>1, <2>10 DEF RecordCompletion, RecordCompletionAgain, ProcessEnds, Goto, DrillTypes, Busy
    <3>2. completions' \in [Runs -> Nat]
      BY <1>1, <2>10 DEF RecordCompletion, RecordCompletionAgain, ProcessEnds, DrillTypes
    <3>3. done' \in [Runs -> Nat]
      BY <1>1, <2>10 DEF RecordCompletion, RecordCompletionAgain, ProcessEnds, historyVars, DrillTypes
    <3>4. UNCHANGED <<drill, job, call, tally, recovered, requests, starts, worked>>
      BY <2>10 DEF RecordCompletion, RecordCompletionAgain, ProcessEnds, PipelineOnly
    <3> QED BY <1>1, <1>2, <3>1, <3>2, <3>3, <3>4 DEF DrillTypes
  <2> QED BY <1>8, <2>1, <2>2, <2>3, <2>4, <2>5, <2>6, <2>7, <2>8, <2>9, <2>10 DEF WorkerActs
<1>9. CASE WorkerNext
  BY <1>8, <1>9 DEF WorkerNext, WorkerActs
<1> QED BY <1>3, <1>4, <1>5, <1>6, <1>7, <1>9, StepKinds

-----------------------------------------------------------------------------
(* Calls of the providers                                                  *)

\* Steps that begin, end or interrupt no call.
LEMMA CallsFrame ==
    ASSUME CallsOK, drill' = drill, requests' = requests, call' = call,
           done' = done \/ drill = "replica",
           \A u \in Workers :
              \/ pc'[u] = "call" /\ pc[u] = "call" /\ job'[u] = job[u]
              \/ pc'[u] # "raise" /\ call[u] = NoCall
    PROVE  CallsOK'
<1>1. \A u \in Workers :
        /\ pc'[u] # "raise"
        /\ call'[u].tries <= requests'[call'[u].provider]
        /\ pc'[u] # "call" \/ drill' = "replica" => call'[u] = NoCall
  BY DEF CallsOK
<1>2. CASE drill = "soak"
  <2>1. ASSUME NEW r \in Runs, PastGithub(r)' PROVE PastGithub(r)
    <3>1. CASE done'[r] > 0
      BY <1>2, <3>1 DEF PastGithub
    <3>2. CASE \E w \in Workers : pc'[w] = "call" /\ call'[w].provider = "llm" /\ job'[w].run = r
      <4>1. PICK w \in Workers : pc'[w] = "call" /\ call'[w].provider = "llm" /\ job'[w].run = r
        BY <3>2
      <4>2. call[w] # NoCall
        BY <4>1 DEF NoCall
      <4> QED BY <4>1, <4>2 DEF PastGithub
    <3> QED BY <2>1, <3>1, <3>2 DEF PastGithub
  <2>2. done' = done
    BY <1>2
  <2> QED BY <1>1, <2>1, <2>2, <1>2 DEF CallsOK
<1>3. CASE drill # "soak"
  BY <1>1, <1>3 DEF CallsOK
<1> QED BY <1>2, <1>3

\* A request of a provider: a second run that gets an answer gets a later one.
LEMMA AsksCalls ==
    ASSUME DrillTypes, CallsOK, NEW w \in Workers, NEW p \in Providers, NEW n \in Nat,
           Asks(w, p, n)
    PROVE  CallsOK'
<1> DEFINE run == job[w].run
<1>1. /\ drill = "soak" /\ drill' = drill /\ pc[w] = "call" /\ job' = job
      /\ p = call[w].provider /\ n = requests[p] + 1
      /\ requests \in [Providers -> 0 .. 4] /\ requests' \in [Providers -> Nat]
      /\ requests'[p] = IF n > 4 THEN 4 ELSE n
      /\ \A q \in Providers \ {p} : requests'[q] = requests[q]
      /\ p \in {"github", "llm"} /\ call[w].tries \in Nat
      /\ "github" \in Providers /\ "llm" \in Providers
      /\ pc \in [Workers -> Labels] /\ done \in [Runs -> Nat] /\ run \in Runs
      /\ \A u \in Workers : call[u].provider \in Providers /\ call[u].tries \in Nat
      /\ DOMAIN call = Workers
  BY DEF Asks, DrillTypes, Providers, Healthy, Busy, Envelope
<1>2. call[w].tries <= requests[p]
  BY <1>1 DEF CallsOK
<1>3. \A q \in Providers :
        requests'[q] \in Nat /\ requests[q] \in Nat /\ requests'[q] >= requests[q]
  <2> TAKE q \in Providers
  <2>1. requests[q] \in 0 .. 4 /\ requests'[q] \in Nat
    BY <1>1
  <2> QED BY <1>1, <2>1
<1>4. \A u \in Workers \ {w} : call'[u] = call[u] /\ pc'[u] = pc[u]
  BY <1>1 DEF Asks
<1>5. \A u \in Workers \ {w} :
        /\ pc'[u] # "raise"
        /\ call'[u].tries <= requests'[call'[u].provider]
        /\ pc'[u] # "call" \/ drill' = "replica" => call'[u] = NoCall
  <2> TAKE u \in Workers \ {w}
  <2>1. call[u].tries <= requests[call[u].provider] /\ call[u].provider \in Providers
    BY <1>1 DEF CallsOK
  <2>2. requests'[call[u].provider] >= requests[call[u].provider]
    BY <2>1, <1>3
  <2>3. requests'[call[u].provider] \in Nat /\ requests[call[u].provider] \in Nat
    BY <2>1, <1>3
  <2>4. call[u].tries <= requests'[call[u].provider]
    BY <2>1, <2>2, <2>3, <1>1
  <2> QED BY <1>1, <1>4, <2>4 DEF CallsOK
<1>6. \A r \in Runs :
        /\ PastGithub(r) => requests["github"] >= 3
        /\ done[r] > 0 => requests["llm"] >= 3
        /\ \A s \in Runs \ {r} :
            /\ PastGithub(r) /\ PastGithub(s) => requests["github"] >= 4
            /\ done[r] > 0 /\ done[s] > 0 => requests["llm"] >= 4
  BY <1>1 DEF CallsOK
<1>7. CASE n >= 3 /\ p = "github"
  <2>1. call' = [call EXCEPT ![w] = [provider |-> "llm", tries |-> 0]] /\ pc' = pc /\ done' = done
    BY <1>7, <1>1 DEF Asks
  <2>2. call'[w] = [provider |-> "llm", tries |-> 0]
    BY <2>1, <1>1
  <2>3. \A r \in Runs : PastGithub(r)' <=> PastGithub(r) \/ r = run
    BY <2>1, <2>2, <1>1, <1>4 DEF PastGithub
  <2>4. requests'["github"] >= 3 /\ (requests["github"] >= 3 => requests'["github"] >= 4)
    BY <1>1, <1>7
  <2>5. requests'["llm"] = requests["llm"]
    BY <1>1, <1>7
  <2>6. \A r \in Runs :
        /\ PastGithub(r)' => requests'["github"] >= 3
        /\ done'[r] > 0 => requests'["llm"] >= 3
        /\ \A s \in Runs \ {r} :
            /\ PastGithub(r)' /\ PastGithub(s)' => requests'["github"] >= 4
            /\ done'[r] > 0 /\ done'[s] > 0 => requests'["llm"] >= 4
    BY <1>1, <1>3, <1>6, <2>1, <2>3, <2>4, <2>5
  <2>7. /\ pc'[w] # "raise" /\ call'[w].tries <= requests'[call'[w].provider] /\ pc'[w] = "call"
    BY <2>1, <2>2, <1>1
  <2> QED BY <1>1, <1>5, <2>6, <2>7 DEF CallsOK
<1>8. CASE n >= 3 /\ p = "llm"
  <2>1. /\ call' = [call EXCEPT ![w] = NoCall]
        /\ pc' = [pc EXCEPT ![w] = "complete"]
        /\ done' = [done EXCEPT ![job[w].run] = @ + 1]
    BY <1>8, <1>1 DEF Asks
  <2>2. call'[w] = NoCall /\ pc'[w] = "complete"
    BY <2>1, <1>1
  <2>3. PastGithub(run)
    BY <1>1, <1>8 DEF PastGithub
  <2>4. \A r \in Runs : done'[r] > 0 => done[r] > 0 \/ r = run
    BY <1>1, <2>1
  <2>5. \A r \in Runs : PastGithub(r)' => PastGithub(r)
    BY <2>2, <2>3, <2>4, <1>1, <1>4 DEF PastGithub
  <2>6. requests'["llm"] >= 3 /\ (requests["llm"] >= 3 => requests'["llm"] >= 4)
    BY <1>1, <1>8
  <2>7. requests'["github"] = requests["github"]
    BY <1>1, <1>8
  <2>8. \A r \in Runs :
        /\ PastGithub(r)' => requests'["github"] >= 3
        /\ done'[r] > 0 => requests'["llm"] >= 3
        /\ \A s \in Runs \ {r} :
            /\ PastGithub(r)' /\ PastGithub(s)' => requests'["github"] >= 4
            /\ done'[r] > 0 /\ done'[s] > 0 => requests'["llm"] >= 4
    BY <1>1, <1>3, <1>6, <2>4, <2>5, <2>6, <2>7
  <2>9. call'[w].tries <= requests'[call'[w].provider]
    BY <2>2, <1>1 DEF NoCall
  <2> QED BY <1>1, <1>5, <2>2, <2>8, <2>9 DEF CallsOK
<1>9. CASE n <= 2
  <2>1. /\ call' = [call EXCEPT ![w] = [provider |-> p, tries |-> call[w].tries + 1]]
        /\ pc' = pc /\ done' = done
    BY <1>9, <1>1, <1>2 DEF Asks, MaxTries
  <2>2. call'[w] = [provider |-> p, tries |-> call[w].tries + 1]
    BY <2>1, <1>1
  <2>3. \A u \in Workers : call'[u].provider = call[u].provider
    BY <2>2, <1>1, <1>4
  <2>4. \A r \in Runs : PastGithub(r)' <=> PastGithub(r)
    BY <2>1, <2>3, <1>1 DEF PastGithub
  <2>5. \A r \in Runs :
        /\ PastGithub(r)' => requests'["github"] >= 3
        /\ done'[r] > 0 => requests'["llm"] >= 3
        /\ \A s \in Runs \ {r} :
            /\ PastGithub(r)' /\ PastGithub(s)' => requests'["github"] >= 4
            /\ done'[r] > 0 /\ done'[s] > 0 => requests'["llm"] >= 4
    BY <1>1, <1>3, <1>6, <2>1, <2>4
  <2>6. call'[w].tries <= requests'[call'[w].provider] /\ pc'[w] = "call"
    BY <2>1, <2>2, <1>1, <1>2, <1>9
  <2> QED BY <1>1, <1>5, <2>5, <2>6 DEF CallsOK
<1> QED BY <1>1, <1>7, <1>8, <1>9

LEMMA CallsStep ==
    ASSUME DrillInv, Next
    PROVE  CallsOK'
<1>1. DrillTypes /\ CallsOK /\ QueueInv
  BY DEF DrillInv
<1>2. \A u \in Workers : pc[u] # "raise" /\ (pc[u] # "call" \/ drill = "replica" => call[u] = NoCall)
  BY <1>1 DEF CallsOK
<1>3. CASE Quiet
  <2>1. /\ drill' = drill /\ requests' = requests /\ call' = call /\ pc' = pc /\ job' = job
        /\ done' = done
    BY <1>3 DEF Quiet, workerVars
  <2> QED BY <1>1, <1>2, <2>1, CallsFrame
<1>4. CASE KillVictim
  <2>1. /\ drill' = drill /\ requests' = requests /\ call' = call /\ done' = done
        /\ pc[Victim] = "hold" /\ pc' = [pc EXCEPT ![Victim] = "dead"]
        /\ job' = [job EXCEPT ![Victim] = NoJob]
    BY <1>4 DEF KillVictim, Waiting, Goto, historyVars
  <2>2. \A u \in Workers :
              \/ pc'[u] = "call" /\ pc[u] = "call" /\ job'[u] = job[u]
              \/ pc'[u] # "raise" /\ call[u] = NoCall
    BY <1>1, <1>2, <2>1 DEF DrillTypes
  <2> QED BY <1>1, <2>1, <2>2, CallsFrame
<1>5. ASSUME NEW w \in Workers, StartWorker(w)
      PROVE  CallsOK'
  <2>1. /\ drill' = drill /\ requests' = requests /\ call' = call /\ done' = done
        /\ pc[w] = "off" /\ pc' = [pc EXCEPT ![w] = "boot"]
        /\ job' = job
    BY <1>5 DEF StartWorker, Waiting, Goto, historyVars
  <2>2. \A u \in Workers :
              \/ pc'[u] = "call" /\ pc[u] = "call" /\ job'[u] = job[u]
              \/ pc'[u] # "raise" /\ call[u] = NoCall
    BY <1>1, <1>2, <2>1 DEF DrillTypes
  <2> QED BY <1>1, <2>1, <2>2, CallsFrame
<1>6. CASE StartReplicas \/ EndReplicaDrill
  <2>1. /\ drill = "replica" /\ drill' = drill /\ requests' = requests /\ call' = call
        /\ \A u \in Workers : pc'[u] \in {"dead", "boot"}
    BY <1>6 DEF StartReplicas, EndReplicaDrill
  <2> QED BY <1>1, <1>2, <2>1, CallsFrame
<1>7. ASSUME NEW w \in Workers, WorkerActs(w)
      PROVE  CallsOK'
  <2>1. CASE CallProvider(w)
    <3>1. PICK p \in Providers, n \in Nat : Asks(w, p, n)
      BY <1>1, <2>1, CallEffect
    <3> QED BY <1>1, <3>1, AsksCalls
  <2>2. CASE ~CallProvider(w)
    <3>1. /\ drill' = drill
          /\ \A u \in Workers \ {w} : pc'[u] = pc[u] /\ job'[u] = job[u]
      BY <1>1, <1>7, OthersKeep
    <3>2. /\ requests' = requests /\ call' = call
          /\ done' = done \/ drill = "replica"
          /\ \/ pc'[w] = pc[w] /\ job'[w] = job[w]
             \/ pc'[w] # "raise" /\ (pc[w] # "call" \/ drill = "replica")
      <4>1. CASE LeaseRunsOut(w) \/ Beat(w) \/ Scan(w)
        BY <4>1 DEF LeaseRunsOut, Beat, Scan, MaintenanceOnly, workerVars, historyVars
      <4>2. CASE BootBeat(w)
        BY <1>1, <4>2 DEF BootBeat, MaintenanceOnly, Goto, DrillTypes
      <4>3. CASE RecoverStep(w)
        <5>1. PICK v \in Workers, n \in Nat : Recovers(w, v, n)
          BY <1>1, <4>3, RecoverEffect
        <5> QED BY <1>1, <5>1 DEF Recovers, DrillTypes
      <4>4. CASE NothingToRecover(w) \/ RecoverLost(w) \/ MaintenanceFails(w)
        BY <1>1, <4>4 DEF NothingToRecover, RecoverLost, MaintenanceFails, MaintenanceOnly,
           DrillTypes
      <4>5. CASE DequeuePop(w) \/ DequeueNothing(w) \/ AcknowledgeJob(w)
        BY <1>1, <4>5 DEF DequeuePop, DequeueNothing, AcknowledgeJob, MainOnly, Goto, historyVars,
           DrillTypes
      <4>6. CASE QueueFails(w)
        BY <1>1, <4>6 DEF QueueFails, Goto, DrillTypes
      <4>7. CASE RecordStart(w) \/ RecordStartAgain(w)
        BY <1>1, <4>7 DEF RecordStart, RecordStartAgain, PipelineOnly, Goto, historyVars, DrillTypes
      <4>8. CASE RecordCompletion(w) \/ RecordCompletionAgain(w) \/ ProcessEnds(w)
        BY <1>1, <4>8 DEF RecordCompletion, RecordCompletionAgain, ProcessEnds, PipelineOnly, Goto,
           historyVars, DrillTypes
      <4> QED BY <1>7, <2>2, <4>1, <4>2, <4>3, <4>4, <4>5, <4>6, <4>7, <4>8 DEF WorkerActs
    <3>3. \A u \in Workers :
              \/ pc'[u] = "call" /\ pc[u] = "call" /\ job'[u] = job[u]
              \/ pc'[u] # "raise" /\ call[u] = NoCall
      BY <1>2, <3>1, <3>2
    <3> QED BY <1>1, <3>1, <3>2, <3>3, CallsFrame
  <2> QED BY <2>1, <2>2
<1>8. CASE WorkerNext
  BY <1>7, <1>8 DEF WorkerNext, WorkerActs
<1> QED BY <1>3, <1>4, <1>5, <1>6, <1>8, StepKinds

-----------------------------------------------------------------------------
(* Counters                                                                *)

\* Steps that finish no run and record none.
LEMMA CountsFrame ==
    ASSUME CountsOK, drill' = drill, done' = done, completions' = completions,
           \A u \in Workers :
              \/ pc'[u] = pc[u] /\ job'[u] = job[u]
              \/ pc'[u] # "complete" /\ pc[u] # "complete"
    PROVE  CountsOK'
<1>1. ASSUME NEW r PROVE Unrecorded(r)' = Unrecorded(r)
  BY DEF Unrecorded
<1>2. \A w \in Workers : pc'[w] = "complete" => done'[job'[w].run] > 0
  BY DEF CountsOK
<1> QED BY <1>1, <1>2 DEF CountsOK

\* A worker finishes a run, or records it.
LEMMA UnrecordedSets ==
    ASSUME IsFiniteSet(Workers), NEW r
    PROVE  IsFiniteSet(Unrecorded(r)) /\ Cardinality(Unrecorded(r)) \in Nat
<1>1. Unrecorded(r) \subseteq Workers
  BY DEF Unrecorded
<1> QED BY <1>1, FS_Subset, FS_CardinalityType

LEMMA CountsStep ==
    ASSUME DrillInv, Next, IsFiniteSet(Workers)
    PROVE  CountsOK'
<1>1. DrillTypes /\ CountsOK /\ QueueInv
  BY DEF DrillInv
<1>3. CASE Quiet
  <2>1. drill' = drill /\ pc' = pc /\ job' = job /\ done' = done /\ completions' = completions
    BY <1>3 DEF Quiet, workerVars, trackerVars
  <2> QED BY <1>1, <2>1, CountsFrame
<1>4. CASE KillVictim
  <2>1. /\ drill' = drill /\ done' = done /\ completions' = completions
        /\ pc[Victim] = "hold" /\ pc' = [pc EXCEPT ![Victim] = "dead"]
        /\ job' = [job EXCEPT ![Victim] = NoJob]
    BY <1>4 DEF KillVictim, Waiting, Goto, historyVars, trackerVars
  <2>2. \A u \in Workers :
              \/ pc'[u] = pc[u] /\ job'[u] = job[u]
              \/ pc'[u] # "complete" /\ pc[u] # "complete"
    BY <1>1, <2>1 DEF DrillTypes
  <2> QED BY <1>1, <2>1, <2>2, CountsFrame
<1>5. ASSUME NEW w \in Workers, StartWorker(w)
      PROVE  CountsOK'
  <2>1. /\ drill' = drill /\ done' = done /\ completions' = completions
        /\ pc[w] = "off" /\ pc' = [pc EXCEPT ![w] = "boot"] /\ job' = job
    BY <1>5 DEF StartWorker, Waiting, Goto, historyVars, trackerVars
  <2>2. \A u \in Workers :
              \/ pc'[u] = pc[u] /\ job'[u] = job[u]
              \/ pc'[u] # "complete" /\ pc[u] # "complete"
    BY <1>1, <2>1 DEF DrillTypes
  <2> QED BY <1>1, <2>1, <2>2, CountsFrame
<1>6. CASE StartReplicas \/ EndReplicaDrill
  <2>1. /\ drill = "replica" /\ drill' = drill /\ done' = done /\ completions' = completions
        /\ \A u \in Workers : pc'[u] \in {"dead", "boot"}
    BY <1>6 DEF StartReplicas, EndReplicaDrill, historyVars, trackerVars
  <2>2. done = completions /\ done \in [Runs -> Nat]
    BY <1>1, <2>1 DEF CountsOK, DrillTypes
  <2>3. ASSUME NEW r \in Runs PROVE Unrecorded(r)' = {}
    BY <2>1 DEF Unrecorded
  <2>4. \A r \in Runs : done'[r] <= completions'[r] + Cardinality(Unrecorded(r)')
    BY <2>1, <2>2, <2>3, FS_EmptySet
  <2> QED BY <1>1, <2>1, <2>2, <2>4 DEF CountsOK
<1>7. ASSUME NEW w \in Workers, WorkerActs(w)
      PROVE  CountsOK'
  <2>1. /\ drill' = drill
        /\ \A u \in Workers \ {w} : pc'[u] = pc[u] /\ job'[u] = job[u]
    BY <1>1, <1>7, OthersKeep
  <2>2. CASE CallProvider(w)
    <3>1. PICK p \in Providers, n \in Nat : Asks(w, p, n)
      BY <1>1, <2>2, CallEffect
    <3>2. CASE done' = done /\ pc' = pc
      BY <1>1, <3>1, <3>2, CountsFrame DEF Asks
    <3>3. CASE done' = done /\ pc' = [pc EXCEPT ![w] = "raise"]
      <4>1. \A u \in Workers :
              \/ pc'[u] = pc[u] /\ job'[u] = job[u]
              \/ pc'[u] # "complete" /\ pc[u] # "complete"
        BY <1>1, <3>1, <3>3 DEF Asks, DrillTypes
      <4> QED BY <1>1, <3>1, <3>3, <4>1, CountsFrame DEF Asks
    <3>4. CASE /\ pc' = [pc EXCEPT ![w] = "complete"]
               /\ done' = [done EXCEPT ![job[w].run] = @ + 1]
      <4> DEFINE run == job[w].run
      <4>1. /\ run \in Runs /\ pc[w] = "call" /\ job' = job /\ completions' = completions
            /\ drill = "soak" /\ drill' = drill /\ pc'[w] = "complete"
            /\ done \in [Runs -> Nat] /\ completions \in [Runs -> Nat]
            /\ \A u \in Workers : pc[u] = "complete" => job[u].run \in Runs
        BY <1>1, <3>1, <3>4 DEF Asks, DrillTypes, Busy, Envelope
      <4>2. Unrecorded(run)' = Unrecorded(run) \cup {w} /\ w \notin Unrecorded(run)
        BY <2>1, <4>1 DEF Unrecorded
      <4>3. Cardinality(Unrecorded(run) \cup {w}) = Cardinality(Unrecorded(run)) + 1
        BY <4>2, UnrecordedSets, FS_AddElement
      <4>4. ASSUME NEW r \in Runs, r # run PROVE Unrecorded(r)' = Unrecorded(r)
        BY <2>1, <4>1, <4>4 DEF Unrecorded
      <4>5. done'[run] = done[run] + 1 /\ \A r \in Runs \ {run} : done'[r] = done[r]
        BY <3>4, <4>1
      <4>6. \A r \in Runs : Cardinality(Unrecorded(r)) \in Nat
        BY UnrecordedSets
      <4>7. done'[run] <= completions'[run] + Cardinality(Unrecorded(run)')
        BY <1>1, <4>1, <4>2, <4>3, <4>5, <4>6 DEF CountsOK
      <4>8. \A r \in Runs : done'[r] <= completions'[r] + Cardinality(Unrecorded(r)')
        BY <1>1, <4>1, <4>4, <4>5, <4>7 DEF CountsOK
      <4>9. \A r \in Runs : done[r] > 0 => done'[r] > 0
        BY <4>1, <4>5
      <4>10. done'[run] > 0
        BY <4>1, <4>5
      <4>11. \A u \in Workers : pc'[u] = "complete" => done'[job'[u].run] > 0
        BY <1>1, <2>1, <4>1, <4>9, <4>10 DEF CountsOK
      <4> QED BY <1>1, <4>1, <4>8, <4>9, <4>11 DEF CountsOK
    <3> QED BY <3>1, <3>2, <3>3, <3>4 DEF Asks
  <2>3. CASE RecordCompletion(w) \/ RecordCompletionAgain(w)
    <3> DEFINE run == job[w].run
    <3>1. /\ run \in Runs /\ pc[w] = "complete" /\ job' = job /\ done' = done
          /\ completions' = [completions EXCEPT ![run] = @ + 1]
          /\ drill = "soak" /\ drill' = drill /\ pc'[w] \in {"complete", "ack"}
          /\ done \in [Runs -> Nat] /\ completions \in [Runs -> Nat]
      BY <1>1, <2>3 DEF RecordCompletion, RecordCompletionAgain, DrillTypes, Busy, Envelope, Goto,
         PipelineOnly, historyVars
    <3>2. /\ completions'[run] = completions[run] + 1
          /\ \A r \in Runs \ {run} : completions'[r] = completions[r]
      BY <3>1
    <3>3. ASSUME NEW r \in Runs, r # run PROVE Unrecorded(r)' = Unrecorded(r)
      BY <2>1, <3>1, <3>3 DEF Unrecorded
    <3>4. w \in Unrecorded(run)
      BY <3>1 DEF Unrecorded
    <3>5. Unrecorded(run)' = Unrecorded(run) \/ Unrecorded(run)' = Unrecorded(run) \ {w}
      BY <2>1, <3>1 DEF Unrecorded
    <3>6. Cardinality(Unrecorded(run) \ {w}) = Cardinality(Unrecorded(run)) - 1
      BY <3>4, UnrecordedSets, FS_RemoveElement
    <3>7. \A r \in Runs : Cardinality(Unrecorded(r)) \in Nat
      BY UnrecordedSets
    <3>8. done'[run] <= completions'[run] + Cardinality(Unrecorded(run)')
      <4>1. done[run] <= completions[run] + Cardinality(Unrecorded(run))
        BY <1>1, <3>1 DEF CountsOK
      <4>2. \/ Cardinality(Unrecorded(run)') = Cardinality(Unrecorded(run))
            \/ Cardinality(Unrecorded(run)') = Cardinality(Unrecorded(run)) - 1
        BY <3>5, <3>6
      <4>3. Cardinality(Unrecorded(run)) \in Nat /\ done[run] \in Nat /\ completions[run] \in Nat
        BY <3>1, <3>7
      <4>4. done'[run] = done[run] /\ completions'[run] = completions[run] + 1
        BY <3>1, <3>2
      <4> QED BY <4>1, <4>2, <4>3, <4>4
    <3>9. \A r \in Runs : done'[r] <= completions'[r] + Cardinality(Unrecorded(r)')
      BY <1>1, <3>1, <3>2, <3>3, <3>8 DEF CountsOK
    <3>10. \A u \in Workers : pc'[u] = "complete" => done'[job'[u].run] > 0
      BY <1>1, <2>1, <3>1 DEF CountsOK
    <3>11. \A r \in Runs : completions'[r] > 0 => done'[r] > 0
      BY <1>1, <3>1, <3>2 DEF CountsOK
    <3> QED BY <3>1, <3>9, <3>10, <3>11 DEF CountsOK
  <2>4. CASE ProcessEnds(w)
    <3> DEFINE run == job[w].run
    <3>1. /\ run \in Runs /\ pc[w] = "call" /\ job' = job
          /\ completions' = [completions EXCEPT ![run] = @ + 1]
          /\ done' = [done EXCEPT ![run] = @ + 1]
          /\ drill = "replica" /\ pc'[w] = "ack"
          /\ done \in [Runs -> Nat] /\ completions \in [Runs -> Nat]
          /\ \A u \in Workers : pc[u] = "complete" => job[u].run \in Runs
      BY <1>1, <2>4 DEF ProcessEnds, DrillTypes, Busy, Envelope, Goto, PipelineOnly
    <3>2. done = completions
      BY <1>1, <3>1 DEF CountsOK
    <3>3. done' = completions'
      BY <3>1, <3>2
    <3>4. \A r \in Runs : done'[r] \in Nat /\ completions'[r] = done'[r] /\ (done[r] > 0 => done'[r] > 0)
      BY <3>1, <3>3
    <3>5. ASSUME NEW r \in Runs PROVE Unrecorded(r)' = Unrecorded(r)
      BY <2>1, <3>1 DEF Unrecorded
    <3>6. \A r \in Runs : Cardinality(Unrecorded(r)) \in Nat
      BY UnrecordedSets
    <3>7. \A r \in Runs : done'[r] <= completions'[r] + Cardinality(Unrecorded(r)')
      BY <3>4, <3>5, <3>6
    <3>8. \A u \in Workers : pc'[u] = "complete" => done'[job'[u].run] > 0
      BY <1>1, <2>1, <3>1, <3>4 DEF CountsOK
    <3> QED BY <2>1, <3>1, <3>3, <3>4, <3>7, <3>8 DEF CountsOK
  <2>5. CASE ~CallProvider(w) /\ ~(RecordCompletion(w) \/ RecordCompletionAgain(w)) /\ ~ProcessEnds(w)
    <3>1. /\ done' = done /\ completions' = completions
          /\ \/ pc'[w] = pc[w] /\ job'[w] = job[w]
             \/ pc'[w] # "complete" /\ pc[w] # "complete"
      <4>1. CASE LeaseRunsOut(w) \/ Beat(w) \/ Scan(w)
        BY <4>1 DEF LeaseRunsOut, Beat, Scan, MaintenanceOnly, workerVars, historyVars, trackerVars
      <4>2. CASE BootBeat(w)
        BY <1>1, <4>2 DEF BootBeat, MaintenanceOnly, Goto, DrillTypes
      <4>3. CASE RecoverStep(w)
        <5>1. PICK v \in Workers, n \in Nat : Recovers(w, v, n)
          BY <1>1, <4>3, RecoverEffect
        <5> QED BY <1>1, <5>1 DEF Recovers, DrillTypes
      <4>4. CASE NothingToRecover(w) \/ RecoverLost(w) \/ MaintenanceFails(w)
        BY <1>1, <4>4 DEF NothingToRecover, RecoverLost, MaintenanceFails, MaintenanceOnly,
           DrillTypes
      <4>5. CASE DequeuePop(w) \/ DequeueNothing(w) \/ AcknowledgeJob(w)
        BY <1>1, <4>5 DEF DequeuePop, DequeueNothing, AcknowledgeJob, MainOnly, Goto, historyVars,
           Counters, DrillTypes
      <4>6. CASE QueueFails(w)
        BY <1>1, <4>6 DEF QueueFails, Goto, DrillTypes, Counters
      <4>7. CASE RecordStart(w) \/ RecordStartAgain(w)
        BY <1>1, <4>7 DEF RecordStart, RecordStartAgain, CountStart, PipelineOnly, Goto,
           historyVars, DrillTypes
      <4> QED BY <1>7, <2>5, <4>1, <4>2, <4>3, <4>4, <4>5, <4>6, <4>7 DEF WorkerActs
    <3>2. \A u \in Workers :
              \/ pc'[u] = pc[u] /\ job'[u] = job[u]
              \/ pc'[u] # "complete" /\ pc[u] # "complete"
      BY <2>1, <3>1
    <3> QED BY <1>1, <2>1, <3>1, <3>2, CountsFrame
  <2> QED BY <2>2, <2>3, <2>4, <2>5
<1>8. CASE WorkerNext
  BY <1>7, <1>8 DEF WorkerNext, WorkerActs
<1> QED BY <1>3, <1>4, <1>5, <1>6, <1>8, StepKinds

-----------------------------------------------------------------------------
(* The victim of the soak                                                  *)

Working == {"call", "complete", "ack"}

\* A worker that starts its job.
Starts(w) ==
    /\ pc[w] = "claimed" /\ job'[w] = job[w]
    /\ starts' = [starts EXCEPT ![job[w].run] = @ + 1]
    /\ w \in worked'
    /\ IF drill = "soak" /\ w = Victim /\ job[w].run = VictimRun
       THEN pc'[w] = "hold" ELSE pc'[w] = "call"

\* What no step of a worker does, and where a worker goes from where.
Advances(w) ==
    /\ dedupe' \subseteq dedupe
    /\ worked \subseteq worked'
    /\ \A r \in Runs : starts'[r] >= starts[r]
    /\ spoiled => spoiled'
    /\ reconnected => reconnected'
    /\ pc[w] \in {"off", "dead"} => pc'[w] = pc[w]
    /\ pc'[w] \in {"off", "dead"} => pc'[w] = pc[w]
    /\ \A r \in Runs : done'[r] > 0 => \/ done[r] > 0
                                       \/ pc[w] = "call" /\ job[w].run = r
    /\ pc'[w] = "hold" => (pc[w] = "hold" /\ job'[w] = job[w]) \/ Starts(w)
    /\ pc'[w] \in Working => (pc[w] \in Working /\ job'[w] = job[w]) \/ Starts(w)

LEMMA WorkerAdvances ==
    ASSUME QueueInv, DrillTypes, NEW w \in Workers, WorkerActs(w)
    PROVE  Advances(w)
<1> USE DEF Working
<1>1. CASE LeaseRunsOut(w)
  BY <1>1 DEF LeaseRunsOut, LeaseExpires, workerVars, trackerVars, metricVars, historyVars, DrillTypes,
     Advances
<1>2. CASE Beat(w) \/ Scan(w)
  BY <1>2 DEF Beat, Scan, Heartbeat, ScanWorkers, MaintenanceOnly, metricVars, DrillTypes, Advances
<1>3. CASE BootBeat(w)
  BY <1>3 DEF BootBeat, Heartbeat, MaintenanceOnly, Goto, metricVars, DrillTypes, Advances
<1>4. CASE RecoverStep(w)
  <2>1. PICK v \in Workers, n \in Nat : Recovers(w, v, n)
    BY <1>4, RecoverEffect
  <2>2. reconnected => reconnected'
    BY <1>4, Zenon DEF RecoverStep, QueueSuccess, metricVars
  <2>3. dedupe' = dedupe
    BY <2>1 DEF Recovers, Recover
  <2>4. (spoiled => spoiled')
    BY <2>1 DEF Recovers
  <2>5. pc'[w] = pc[w] \/ (pc[w] = "booting" /\ pc'[w] = "idle")
    BY <2>1 DEF Recovers, DrillTypes
  <2> QED BY <2>1, <2>2, <2>3, <2>4, <2>5 DEF Recovers, DrillTypes, Advances
<1>5. CASE NothingToRecover(w)
  <2>1. reconnected => reconnected'
    BY <1>5, Zenon DEF NothingToRecover, QueueSuccess
  <2> QED BY <1>5, <2>1 DEF NothingToRecover, MaintenanceOnly, DrillTypes, Advances, Alive, queueVars
<1>6. CASE RecoverLost(w)
  <2>1. \E v \in scan[w] : Recover(w, v) /\ spoiled' = (spoiled \/ TakenOver(v))
    BY <1>6 DEF RecoverLost
  <2>2. (spoiled => spoiled') /\ dedupe' = dedupe
    BY <2>1 DEF Recover
  <2> QED BY <1>6, <2>2 DEF RecoverLost, MaintenanceOnly, metricVars, DrillTypes, Advances
<1>7. CASE MaintenanceFails(w)
  BY <1>7 DEF MaintenanceFails, AbortScan, QueueError, MaintenanceOnly, DrillTypes, Advances, Alive
<1>8. CASE DequeuePop(w)
  BY <1>8 DEF DequeuePop, Claim, MainOnly, Counters, metricVars, Goto, historyVars, DrillTypes, Advances
<1>9. CASE DequeueNothing(w)
  <2>1. reconnected => reconnected'
    BY <1>9, Zenon DEF DequeueNothing, QueueSuccess
  <2> QED BY <1>9, <2>1 DEF DequeueNothing, MainOnly, Counters, historyVars, DrillTypes, Advances,
          queueVars
<1>10. CASE QueueFails(w)
  <2>1. dedupe' \subseteq dedupe
    BY <1>10 DEF QueueFails, queueVars, Claim, Acknowledge
  <2>2. spoiled => spoiled'
    BY <1>10, Zenon DEF QueueFails
  <2> QED BY <1>10, <2>1, <2>2 DEF QueueFails, QueueError, Goto, Counters, DrillTypes, Advances
<1>11. CASE AcknowledgeJob(w)
  <2>1. reconnected => reconnected'
    BY <1>11, Zenon DEF AcknowledgeJob, QueueSuccess
  <2> QED BY <1>11, <2>1 DEF AcknowledgeJob, Acknowledge, MainOnly, Counters, historyVars, Goto,
          DrillTypes, Advances
<1>12. CASE RecordStart(w)
  <2>1. /\ Starts(w)
        /\ UNCHANGED <<dedupe, done, spoiled, reconnected>> /\ worked \subseteq worked'
    BY <1>12 DEF RecordStart, CountStart, PipelineOnly, Goto, historyVars, metricVars, queueVars,
       DrillTypes, Starts
  <2>2. \A r \in Runs : starts'[r] >= starts[r]
    BY <2>1 DEF Starts, DrillTypes
  <2> QED BY <2>1, <2>2 DEF Advances, Starts
<1>13. CASE RecordStartAgain(w)
  <2>1. \A r \in Runs : starts'[r] >= starts[r]
    BY <1>13 DEF RecordStartAgain, CountStart, DrillTypes
  <2> QED BY <1>13, <2>1 DEF RecordStartAgain, CountStart, PipelineOnly, historyVars, metricVars,
          queueVars, DrillTypes, Advances
<1>14. CASE CallProvider(w)
  <2>1. PICK p \in Providers, n \in Nat : Asks(w, p, n)
    BY <1>14, CallEffect
  <2>2. \A r \in Runs : done'[r] > 0 => done[r] > 0 \/ (pc[w] = "call" /\ job[w].run = r)
    BY <2>1 DEF Asks, DrillTypes
  <2>3. pc[w] = "call" /\ (pc'[w] = "call" \/ pc'[w] = "complete" \/ pc'[w] = "raise") /\ job' = job
    BY <2>1 DEF Asks, DrillTypes
  <2> QED BY <2>1, <2>2, <2>3 DEF Asks, DrillTypes, Advances, queueVars, metricVars
<1>15. CASE RecordCompletion(w) \/ RecordCompletionAgain(w)
  BY <1>15 DEF RecordCompletion, RecordCompletionAgain, PipelineOnly, Goto, historyVars, metricVars,
     queueVars, DrillTypes, Advances
<1>16. CASE ProcessEnds(w)
  <2>1. \A r \in Runs : done'[r] > 0 => done[r] > 0 \/ (pc[w] = "call" /\ job[w].run = r)
    BY <1>16 DEF ProcessEnds, DrillTypes
  <2> QED BY <1>16, <2>1 DEF ProcessEnds, PipelineOnly, Goto, metricVars, queueVars, DrillTypes, Advances
<1> QED BY <1>1, <1>2, <1>3, <1>4, <1>5, <1>6, <1>7, <1>8, <1>9, <1>10, <1>11, <1>12, <1>13, <1>14,
        <1>15, <1>16 DEF WorkerActs

\* A worker puts jobs into its own list only, and empties others at most.
LEMMA ListsOfOthers ==
    ASSUME QueueInv, DrillTypes, NEW w \in Workers, WorkerActs(w), NEW u \in Workers,
           u # w \/ pc[w] \in {"off", "dead"}
    PROVE  processing'[u] = processing[u] \/ processing'[u] = <<>>
<1>0. processing \in [Workers -> Seq(Envelope)] /\ scan[w] \subseteq Workers
  BY DEF QueueInv, QueueTypeOK
<1>1. CASE LeaseRunsOut(w) \/ Beat(w) \/ Scan(w) \/ BootBeat(w) \/ MaintenanceFails(w)
  BY <1>1 DEF LeaseRunsOut, Beat, Scan, BootBeat, MaintenanceFails, LeaseExpires, Heartbeat, ScanWorkers,
     AbortScan
<1>2. CASE RecoverStep(w) \/ RecoverLost(w)
  <2>1. PICK v \in scan[w] : Recover(w, v)
    BY <1>2 DEF RecoverStep, RecoverLost
  <2> QED BY <1>0, <2>1 DEF Recover
<1>3. CASE DequeuePop(w) \/ QueueFails(w) \/ AcknowledgeJob(w)
  <2>1. pc[w] \in {"idle", "claimed", "ack"}
    BY <1>3 DEF DequeuePop, QueueFails, AcknowledgeJob
  <2>2. processing' = processing \/ \E x : processing' = [processing EXCEPT ![w] = x]
    BY <1>3 DEF DequeuePop, QueueFails, AcknowledgeJob, Claim, Acknowledge, queueVars
  <2> QED BY <1>0, <2>1, <2>2
<1>4. CASE \/ DequeueNothing(w) \/ NothingToRecover(w) \/ RecordStart(w) \/ RecordStartAgain(w)
           \/ CallProvider(w) \/ RecordCompletion(w) \/ RecordCompletionAgain(w) \/ ProcessEnds(w)
  BY <1>4 DEF DequeueNothing, NothingToRecover, RecordStart, RecordStartAgain, CallProvider,
     RecordCompletion, RecordCompletionAgain, ProcessEnds, PipelineOnly, queueVars
<1> QED BY <1>1, <1>2, <1>3, <1>4 DEF WorkerActs

\* How the soak's driver moves while it leaves the workers alone.
Moves ==
    /\ UNCHANGED <<processing, reconnected, recovered>>
    /\ spoiled => spoiled'
    /\ \/ step' = step /\ (dedupe' = dedupe \/ step = "send")
       \/ step = "seed" /\ step' \in Opening /\ dedupe' \subseteq dedupe \cup {VictimRun}
       \/ /\ step \notin Opening /\ step' \notin Opening /\ dedupe' = dedupe
          /\ step' \in Closing => step \in Closing \/ reconnected

LEMMA DriverMoves ==
    ASSUME Next, drill = "soak", ~KillVictim, ~\E w \in Workers : StartWorker(w),
           ~(verdict = "none" /\ WorkerNext /\ UNCHANGED driverVars)
    PROVE  Moves
<1> USE DEF Opening, Closing
<1>1. CASE SeedVictim
  <2>1. UNCHANGED <<processing, reconnected, recovered>>
    BY <1>1 DEF SeedVictim, EnqueueAnswered, Enqueue, SenderOnly, metricVars, trackerVars, queueVars
  <2>2. spoiled => spoiled'
    BY <1>1, Zenon DEF SeedVictim, EnqueueAnswered
  <2>3. step = "seed" /\ step' \in {"seed", "claim"} /\ dedupe' \subseteq dedupe \cup {VictimRun}
    BY <1>1 DEF SeedVictim, EnqueueAnswered, Enqueue, To, queueVars
  <2> QED BY <2>1, <2>2, <2>3 DEF Moves
<1>2. CASE SendBatch
  <2>1. UNCHANGED <<processing, reconnected, recovered>>
    BY <1>2 DEF SendBatch, Send, EnqueueAnswered, EnqueueRaises, Enqueue, SenderOnly, metricVars,
       trackerVars, queueVars
  <2>2. spoiled => spoiled'
    BY <1>2, Zenon DEF SendBatch, Send, EnqueueAnswered, EnqueueRaises
  <2>3. step = "send" /\ step' = step
    BY <1>2 DEF SendBatch, Send, EnqueueAnswered, EnqueueRaises, To
  <2> QED BY <2>1, <2>2, <2>3 DEF Moves
<1>3. CASE /\ UNCHANGED <<queueVars, metricVars, recovered, spoiled>>
           /\ \/ step' = step
              \/ step \notin Opening /\ step' \notin Opening /\ step \in Closing
              \/ step \notin Opening /\ step' \notin Opening /\ step' \notin Closing
              \/ step \notin Opening /\ step' \notin Opening /\ reconnected
  BY <1>3 DEF Moves, queueVars, metricVars
<1>4. CASE \/ VictimRecovered \/ CutNetwork \/ RestoreNetwork \/ ReconnectionSeen \/ AllCompleted
           \/ ReadMembers \/ ReadSize \/ BatchSent("complete") \/ \E w \in Workers : ReadLength(w)
  <2>1. UNCHANGED <<queueVars, metricVars, recovered, spoiled>>
    BY <1>4 DEF VictimRecovered, CutNetwork, RestoreNetwork, ReconnectionSeen, AllCompleted, Read,
       ReadMembers, ReadSize, ReadLength, BatchSent, DriverOnly, historyVars, trackerVars
  <2>2. CASE VictimRecovered \/ CutNetwork \/ RestoreNetwork \/ ReconnectionSeen \/ AllCompleted
    BY <1>3, <2>1, <2>2 DEF VictimRecovered, CutNetwork, RestoreNetwork, ReconnectionSeen,
       AllCompleted, Read, Waiting, To
  <2>3. CASE ReadMembers \/ ReadSize \/ BatchSent("complete") \/ \E w \in Workers : ReadLength(w)
    BY <1>3, <2>1, <2>3 DEF ReadMembers, ReadSize, ReadLength, BatchSent, To
  <2> QED BY <1>4, <2>2, <2>3
<1>5. CASE ReadCardinality \/ WaitExpires \/ Judge
  <2>1. UNCHANGED <<queueVars, metricVars, recovered, spoiled>>
    BY <1>5, Zenon DEF ReadCardinality, WaitExpires, Judge, DriverOnly, historyVars, trackerVars
  <2>2. \/ step' = step
        \/ step = "count" /\ (step' = "judge" \/ step' = "members")
        \/ step = "judge" /\ step' = "observe"
    BY <1>5, Zenon DEF ReadCardinality, WaitExpires, Judge, To
  <2> QED BY <1>3, <2>1, <2>2
<1>6. CASE CompileEvidence
  <2>1. UNCHANGED <<queueVars, metricVars, recovered, spoiled>>
    BY <1>6 DEF CompileEvidence, DriverOnly, historyVars, trackerVars
  <2>2. step = "observe" /\ (step' = "within" \/ step' = "beyond")
    BY <1>6, Zenon DEF CompileEvidence
  <2> QED BY <1>3, <2>1, <2>2
<1>7. CASE UnplannedBreak \/ NetworkReturns
  BY <1>3, <1>7 DEF UnplannedBreak, NetworkReturns, driverVars, DriverOnly, historyVars, trackerVars
<1>8. ~ReplicaNext /\ ~EndReplicaDrill
  <2>1. ~(EnqueueFirst \/ AbandonedBeats \/ AbandonedClaims \/ StartReplicas)
    BY DEF EnqueueFirst, AbandonedBeats, AbandonedClaims, StartReplicas
  <2>2. ~(CompletionWaited \/ AcknowledgementWaited \/ CheckResults \/ EndReplicaDrill)
    BY Zenon DEF CompletionWaited, AcknowledgementWaited, CheckResults, EndReplicaDrill
  <2> QED BY <2>1, <2>2 DEF ReplicaNext
<1> QED BY <1>1, <1>2, <1>4, <1>5, <1>6, <1>7, <1>8 DEF Next, SoakNext

\* A worker's step, seen from the victim.
LEMMA VictimWorker ==
    ASSUME QueueInv, DrillTypes, DrillTypes', VictimOK, drill = "soak",
           NEW w \in Workers, WorkerActs(w), step' = step
    PROVE  VictimOK'
<1> USE DEF Working
<1>1. /\ Advances(w) /\ drill' = drill
      /\ \A u \in Workers \ {w} : pc'[u] = pc[u] /\ job'[u] = job[u]
  BY WorkerAdvances, OthersKeep
<1>2. /\ Victim \in Workers /\ VictimRun \in Runs
      /\ starts[VictimRun] \in Nat /\ starts'[VictimRun] >= starts[VictimRun]
  BY <1>1, DrillAssumption DEF DrillTypes, Advances
<1>3. Starts(w) /\ job[w].run = VictimRun => starts'[VictimRun] = starts[VictimRun] + 1
  BY <1>2 DEF Starts, DrillTypes
<1>3a. starts'[VictimRun] \in Nat /\ starts' \in [Runs -> Nat]
  BY <1>2 DEF DrillTypes
<1>4. \A u \in Workers : pc'[u] = "hold" => /\ u = Victim /\ job'[u].run = VictimRun
                                            /\ u \in worked' /\ starts'[VictimRun] >= 1
  <2> TAKE u \in Workers
  <2>1. CASE u # w \/ (pc[w] = "hold" /\ job'[w] = job[w])
    BY <1>1, <1>2, <1>3a, <2>1 DEF VictimOK, Advances
  <2>2. CASE u = w /\ Starts(w)
    BY <1>1, <1>2, <1>3, <2>2 DEF Starts
  <2> QED BY <1>1, <2>1, <2>2 DEF Advances
<1>5. \A u \in Workers : pc'[u] \in Working /\ job'[u].run = VictimRun => starts'[VictimRun] >= 2
  <2> SUFFICES ASSUME NEW u \in Workers, pc'[u] \in Working, job'[u].run = VictimRun
               PROVE  starts'[VictimRun] >= 2
    OBVIOUS
  <2>1. CASE u # w \/ (pc[w] \in Working /\ job'[w] = job[w])
    BY <1>1, <1>2, <1>3a, <2>1 DEF VictimOK
  <2>2. CASE u = w /\ Starts(w)
    <3>1. w # Victim /\ pc[w] # "off"
      BY <2>2 DEF Starts
    <3>2. step \notin Opening
      BY <3>1 DEF VictimOK
    <3>3. starts[VictimRun] >= 1
      BY <3>2 DEF VictimOK
    <3> QED BY <1>2, <1>3, <2>2, <3>3 DEF Starts
  <2> QED BY <1>1, <2>1, <2>2 DEF Advances
<1>6. \A u \in Workers : pc'[u] = "dead" => u = Victim
  BY <1>1 DEF Advances, VictimOK
<1>7. \A u \in Workers : pc'[u] = "off" => processing'[u] = <<>>
  <2> SUFFICES ASSUME NEW u \in Workers, pc'[u] = "off" PROVE processing'[u] = <<>>
    OBVIOUS
  <2>1. pc[u] = "off" /\ (u # w \/ pc[w] \in {"off", "dead"})
    BY <1>1 DEF Advances
  <2>2. processing[u] = <<>>
    BY <2>1 DEF VictimOK
  <2> QED BY <2>1, <2>2, ListsOfOthers
<1>8. done'[VictimRun] > 0 => starts'[VictimRun] >= 2
  BY <1>1, <1>2, <1>3a DEF Advances, VictimOK
<1>9. step' \in Opening => /\ \A u \in Workers \ {Victim} : pc'[u] = "off"
                           /\ dedupe' \subseteq {VictimRun}
  BY <1>1 DEF Advances, VictimOK
<1>10. step' \notin Opening => /\ pc'[Victim] = "dead"
                               /\ Victim \in worked' /\ starts'[VictimRun] >= 1
  BY <1>1, <1>2, <1>3a DEF Advances, VictimOK
<1>11. step' \in Closing => reconnected'
  BY <1>1 DEF Advances, VictimOK
<1> QED BY <1>1, <1>4, <1>5, <1>6, <1>7, <1>8, <1>9, <1>10, <1>11 DEF VictimOK

LEMMA VictimStep ==
    ASSUME DrillInv, Next
    PROVE  VictimOK'
<1> USE DEF Opening, Closing
<1>1. QueueInv /\ DrillTypes /\ VictimOK /\ Victim \in Workers
  BY DrillAssumption DEF DrillInv
<1>2. drill' = drill
  <2>1. CASE KillVictim \/ StartReplicas \/ EndReplicaDrill \/ \E w \in Workers : StartWorker(w)
    BY <2>1 DEF KillVictim, StartReplicas, EndReplicaDrill, StartWorker
  <2>2. CASE WorkerNext
    <3>1. PICK w \in Workers : WorkerActs(w)
      BY <2>2 DEF WorkerNext, WorkerActs
    <3> QED BY <1>1, <3>1, OthersKeep
  <2> QED BY <2>1, <2>2, StepKinds DEF Quiet
<1>3. SUFFICES ASSUME drill = "soak" PROVE VictimOK'
  BY <1>2 DEF VictimOK
<1>4. CASE verdict = "none" /\ WorkerNext /\ UNCHANGED driverVars
  <2>1. PICK w \in Workers : WorkerActs(w)
    BY <1>4 DEF WorkerNext, WorkerActs
  <2> QED BY <1>1, <1>3, <1>4, <2>1, VictimWorker, TypesStep DEF driverVars
<1>5. CASE KillVictim
  <2>1. /\ pc[Victim] = "hold" /\ pc' = [pc EXCEPT ![Victim] = "dead"]
        /\ job' = [job EXCEPT ![Victim] = NoJob]
        /\ step = "claim" /\ step' = "workers"
        /\ starts' = starts /\ worked' = worked /\ done' = done /\ processing' = processing
    BY <1>5 DEF KillVictim, Waiting, To, Goto, AbortScan, trackerVars, historyVars
  <2>2. Victim \in worked /\ starts[VictimRun] >= 1 /\ \A u \in Workers \ {Victim} : pc[u] = "off"
    BY <1>1, <1>3, <2>1 DEF VictimOK
  <2>3. pc'[Victim] = "dead" /\ \A u \in Workers \ {Victim} : pc'[u] = "off"
    BY <1>1, <2>1, <2>2 DEF DrillTypes
  <2> QED BY <1>1, <1>2, <1>3, <2>1, <2>2, <2>3 DEF VictimOK
<1>6. ASSUME NEW w \in Workers, StartWorker(w)
      PROVE  VictimOK'
  <2>1. /\ pc[w] = "off" /\ pc' = [pc EXCEPT ![w] = "boot"] /\ job' = job
        /\ step = "workers" /\ step' \in {"workers", "recovery"}
        /\ starts' = starts /\ worked' = worked /\ done' = done /\ processing' = processing
    BY <1>6 DEF StartWorker, Waiting, To, Goto, trackerVars, historyVars, queueVars
  <2>2. pc'[w] = "boot" /\ \A u \in Workers \ {w} : pc'[u] = pc[u]
    BY <1>1, <2>1 DEF DrillTypes
  <2>3. pc[Victim] = "dead"
    BY <1>1, <1>3, <2>1 DEF VictimOK
  <2> QED BY <1>1, <1>2, <1>3, <2>1, <2>2, <2>3 DEF VictimOK
<1>7. CASE /\ ~KillVictim /\ ~\E w \in Workers : StartWorker(w)
           /\ ~(verdict = "none" /\ WorkerNext /\ UNCHANGED driverVars)
  <2>1. Moves
    BY <1>3, <1>7, DriverMoves
  <2>2. Quiet
    <3>1. ~StartReplicas /\ ~EndReplicaDrill
      BY <1>3 DEF StartReplicas, EndReplicaDrill
    <3> QED BY <1>7, <3>1, StepKinds
  <2>3. /\ pc' = pc /\ job' = job /\ worked' = worked /\ starts' = starts /\ done' = done
        /\ processing' = processing /\ reconnected' = reconnected
    BY <2>1, <2>2 DEF Moves, Quiet, workerVars, trackerVars
  <2>4. step' \in Opening => step \in Opening /\ dedupe' \subseteq {VictimRun}
    BY <1>1, <1>3, <2>1 DEF Moves, VictimOK
  <2>5. step' \notin Opening => step \notin Opening
    BY <2>1 DEF Moves
  <2>6. step' \in Closing => step \in Closing \/ reconnected
    BY <2>1 DEF Moves
  <2> QED BY <1>1, <1>2, <1>3, <2>3, <2>4, <2>5, <2>6 DEF VictimOK
<1> QED BY <1>4, <1>5, <1>6, <1>7

-----------------------------------------------------------------------------
(* Recovery in the soak                                                    *)

\* A list of one run has at most one job.
LEMMA OneInList ==
    ASSUME NEW list \in Seq(Envelope), NEW r, NoRepeat(list), RunsOf(list) \subseteq {r}
    PROVE  Len(list) <= 1
<1>1. Len(list) \in Nat /\ DOMAIN list = 1 .. Len(list)
  OBVIOUS
<1> SUFFICES ASSUME Len(list) >= 2 PROVE FALSE
  BY <1>1
<1>2. 1 \in DOMAIN list /\ 2 \in DOMAIN list
  BY <1>1
<1>3. list[1].run = r /\ list[2].run = r
  BY <1>2 DEF RunsOf
<1> QED BY <1>2, <1>3 DEF NoRepeat

\* A worker's step moves the job to recover, or forgets to count it.
LEMMA RecoveryWorker ==
    ASSUME QueueInv, QueueInv', DrillTypes, VictimOK, VictimOK', RecoveryOK, drill = "soak",
           NEW w \in Workers, WorkerActs(w), step' = step, ~spoiled'
    PROVE  RecoveryOK'
<1>1. /\ Advances(w) /\ drill' = drill /\ DOMAIN tally' = Workers
      /\ \A u \in Workers \ {w} : pc'[u] = pc[u] /\ tally'[u] = tally[u]
  BY WorkerAdvances, OthersKeep
<1>2. ~spoiled /\ Victim \in Workers
  BY <1>1, DrillAssumption DEF Advances
<1>3. /\ Len(processing[Victim]) <= 1 /\ recovered <= 1 /\ recovered \in Nat
      /\ \A u \in Workers :
          /\ tally[u] \in {0, 1, Raised}
          /\ tally[u] = 1 => recovered = 0 /\ \A x \in Workers \ {u} : tally[x] # 1
      /\ step \in Opening \/ processing[Victim] # <<>>
           => recovered = 0 /\ \A u \in Workers : tally[u] # 1
  BY <1>2 DEF RecoveryOK, DrillTypes
<1>4. processing'[Victim] \in Seq(Envelope) /\ processing[Victim] \in Seq(Envelope)
  BY <1>2 DEF QueueInv, QueueTypeOK
<1>5. step \notin Opening => processing'[Victim] = processing[Victim] \/ processing'[Victim] = <<>>
  <2> SUFFICES ASSUME step \notin Opening
               PROVE  processing'[Victim] = processing[Victim] \/ processing'[Victim] = <<>>
    OBVIOUS
  <2>1. pc[Victim] = "dead"
    BY DEF VictimOK
  <2> QED BY <1>2, <2>1, ListsOfOthers
<1>6. Len(processing'[Victim]) <= 1
  <2>1. CASE step \notin Opening
    BY <1>3, <1>4, <1>5, <2>1
  <2>2. CASE step \in Opening
    <3>1. dedupe' \subseteq {VictimRun}
      BY <1>1, <2>2 DEF VictimOK
    <3>2. NoRepeat(processing'[Victim])
      BY <1>2 DEF QueueInv, OneJobPerRun
    <3>3. RunsOf(processing'[Victim]) \subseteq Runs
      BY <1>4, RunsOfType
    <3>4. RunsOf(processing'[Victim]) \subseteq {VictimRun}
      BY <1>2, <3>1, <3>3 DEF QueueInv, DedupeMatchesJobs
    <3> QED BY <1>4, <3>2, <3>4, OneInList
  <2> QED BY <2>1, <2>2
<1>7. CASE RecoverStep(w)
  <2>1. PICK v \in Workers, n \in Nat : Recovers(w, v, n)
    BY <1>7, RecoverEffect
  <2>2. tally[w] \in {0, 1} /\ Alive(w) /\ ~TakenOver(v) /\ Recover(w, v)
    BY <1>3, <2>1 DEF Recovers
  <2>3. \/ /\ tally'[w] = 0 /\ recovered' = recovered + n
        \/ /\ tally'[w] = n /\ recovered' = recovered
    BY <2>1 DEF Recovers, DrillTypes
  <2>4. processing[v] \in Seq(Envelope)
    BY DEF QueueInv, QueueTypeOK
  <2>5. CASE v \in leased \/ processing[v] = <<>>
    <3>1. n = tally[w]
      BY <2>1, <2>2, <2>5 DEF Recovers
    <3>2. processing'[Victim] # <<>> => processing[Victim] # <<>>
      BY <1>2, <2>2, <2>5 DEF Recover, QueueInv, QueueTypeOK
    <3>3. step' \in Opening \/ processing'[Victim] # <<>>
            => step \in Opening \/ processing[Victim] # <<>>
      BY <3>2
    <3>4. CASE tally[w] = 0
      BY <1>1, <1>3, <1>6, <2>3, <3>1, <3>3, <3>4 DEF RecoveryOK
    <3>5. CASE tally[w] = 1
      <4>1. recovered = 0 /\ \A x \in Workers \ {w} : tally[x] # 1
        BY <1>3, <3>5
      <4>2. ~(step' \in Opening \/ processing'[Victim] # <<>>)
        BY <1>3, <3>3, <3>5
      <4> QED BY <1>1, <1>3, <1>6, <2>3, <3>1, <3>5, <4>1, <4>2 DEF RecoveryOK, Raised
    <3> QED BY <2>2, <3>4, <3>5
  <2>6. CASE v \notin leased /\ processing[v] # <<>>
    <3>1. ~Alive(v)
      BY <2>2, <2>6 DEF TakenOver
    <3>2. pc[v] = "dead"
      BY <2>6, <3>1 DEF Alive, VictimOK
    <3>3. v = Victim
      BY <3>2 DEF VictimOK
    <3>4. w # Victim
      BY <2>2, <3>1, <3>3
    <3>5. step \notin Opening
      BY <2>2, <3>4 DEF VictimOK, Alive
    <3>6. recovered = 0 /\ \A u \in Workers : tally[u] # 1
      BY <1>3, <2>6, <3>3
    <3>7. Len(processing[v]) = 1
      <4>1. Len(processing[v]) \in Nat /\ Len(processing[v]) # 0
        BY <2>4, <2>6, EmptySeq, LenProperties
      <4>2. Len(processing[v]) <= 1
        BY <1>3, <3>3
      <4>3. \A k \in Nat : k # 0 /\ k <= 1 => k = 1
        OBVIOUS
      <4> HIDE DEF Opening
      <4> QED BY <4>1, <4>2, <4>3, Zenon
    <3>8. tally[w] = 0 /\ n = 1
      BY <2>1, <2>2, <2>6, <3>6, <3>7 DEF Recovers
    <3>9. processing'[Victim] = <<>>
      BY <2>2, <2>6, <3>3 DEF Recover, QueueInv, QueueTypeOK
    <3> QED BY <1>1, <1>3, <1>6, <2>3, <3>5, <3>6, <3>8, <3>9 DEF RecoveryOK, Raised
  <2> QED BY <2>5, <2>6
<1>8. CASE ~RecoverStep(w)
  <2>1. recovered' = recovered /\ (tally' = tally \/ tally' = [tally EXCEPT ![w] = 0]
                                   \/ tally' = [tally EXCEPT ![w] = Raised])
    <3>1. CASE LeaseRunsOut(w) \/ Beat(w) \/ Scan(w) \/ BootBeat(w)
      BY <3>1 DEF LeaseRunsOut, Beat, Scan, BootBeat, workerVars, trackerVars
    <3>2. CASE NothingToRecover(w) \/ RecoverLost(w) \/ MaintenanceFails(w)
      BY <3>2 DEF NothingToRecover, RecoverLost, MaintenanceFails
    <3>3. CASE DequeuePop(w) \/ DequeueNothing(w) \/ QueueFails(w) \/ AcknowledgeJob(w)
      BY <3>3 DEF DequeuePop, DequeueNothing, QueueFails, AcknowledgeJob, MainOnly
    <3>4. CASE \/ RecordStart(w) \/ RecordStartAgain(w) \/ CallProvider(w)
               \/ RecordCompletion(w) \/ RecordCompletionAgain(w) \/ ProcessEnds(w)
      BY <3>4 DEF RecordStart, RecordStartAgain, CallProvider, RecordCompletion,
         RecordCompletionAgain, ProcessEnds, PipelineOnly
    <3> QED BY <1>8, <3>1, <3>2, <3>3, <3>4 DEF WorkerActs
  <2>2. tally'[w] \in {0, 1, Raised} /\ (tally'[w] = 1 => tally[w] = 1)
    BY <1>3, <2>1 DEF DrillTypes, Raised
  <2>3. step' \in Opening \/ processing'[Victim] # <<>>
            => step \in Opening \/ processing[Victim] # <<>>
    BY <1>5
  <2> QED BY <1>1, <1>3, <1>6, <2>1, <2>2, <2>3 DEF RecoveryOK
<1> QED BY <1>7, <1>8

LEMMA RecoveryStep ==
    ASSUME DrillInv, Next
    PROVE  RecoveryOK'
<1> USE DEF Opening, Closing
<1>1. QueueInv /\ DrillTypes /\ VictimOK /\ RecoveryOK /\ Victim \in Workers
  BY DrillAssumption DEF DrillInv
<1>2. SUFFICES ASSUME drill' = "soak", ~spoiled' PROVE RecoveryOK'
  BY DEF RecoveryOK
<1>3. drill = "soak"
  <2>1. CASE KillVictim \/ StartReplicas \/ EndReplicaDrill \/ \E w \in Workers : StartWorker(w)
    BY <1>2, <2>1 DEF KillVictim, StartReplicas, EndReplicaDrill, StartWorker
  <2>2. CASE WorkerNext
    <3>1. PICK w \in Workers : WorkerActs(w)
      BY <2>2 DEF WorkerNext, WorkerActs
    <3> QED BY <1>1, <1>2, <3>1, OthersKeep
  <2> QED BY <1>2, <2>1, <2>2, StepKinds DEF Quiet
<1>4. CASE verdict = "none" /\ WorkerNext /\ UNCHANGED driverVars
  <2>1. PICK w \in Workers : WorkerActs(w)
    BY <1>4 DEF WorkerNext, WorkerActs
  <2>2. QueueInv' /\ VictimOK'
    BY QueueStep, VictimStep
  <2> QED BY <1>1, <1>2, <1>3, <1>4, <2>1, <2>2, RecoveryWorker DEF driverVars
<1>5. CASE KillVictim
  <2>1. /\ tally' = [tally EXCEPT ![Victim] = 0] /\ recovered' = recovered /\ spoiled' = spoiled
        /\ step = "claim" /\ step' = "workers" /\ processing' = processing
    BY <1>5 DEF KillVictim, Waiting, To, AbortScan, trackerVars, historyVars
  <2>2. \A u \in Workers : tally'[u] = tally[u] \/ tally'[u] = 0
    BY <1>1, <2>1 DEF DrillTypes
  <2> QED BY <1>1, <1>2, <1>3, <2>1, <2>2 DEF RecoveryOK, Raised
<1>6. ASSUME NEW w \in Workers, StartWorker(w)
      PROVE  RecoveryOK'
  <2>1. /\ tally' = tally /\ recovered' = recovered /\ spoiled' = spoiled
        /\ step = "workers" /\ step' \in {"workers", "recovery"} /\ processing' = processing
    BY <1>6 DEF StartWorker, Waiting, To, trackerVars, historyVars, queueVars
  <2> QED BY <1>1, <1>2, <1>3, <2>1 DEF RecoveryOK
<1>7. CASE /\ ~KillVictim /\ ~\E w \in Workers : StartWorker(w)
           /\ ~(verdict = "none" /\ WorkerNext /\ UNCHANGED driverVars)
  <2>1. Moves
    BY <1>3, <1>7, DriverMoves
  <2>2. Quiet
    <3>1. ~StartReplicas /\ ~EndReplicaDrill
      BY <1>3 DEF StartReplicas, EndReplicaDrill
    <3> QED BY <1>7, <3>1, StepKinds
  <2>3. tally' = tally /\ recovered' = recovered /\ processing' = processing /\ ~spoiled
    BY <1>2, <2>1, <2>2 DEF Moves, Quiet, workerVars, trackerVars
  <2>4. step' \in Opening => step \in Opening
    BY <2>1 DEF Moves
  <2> QED BY <1>1, <1>2, <1>3, <2>3, <2>4 DEF RecoveryOK
<1> QED BY <1>4, <1>5, <1>6, <1>7

-----------------------------------------------------------------------------
(* Verdict                                                                 *)

Reached == {"judge", "observe", "within", "beyond", "check", "checked", "ended"}
SoakLabels == Opening \cup Closing \cup {"workers", "recovery", "cut", "reconnect", "reconnected"}
ReplicaLabels == {"first", "abandon", "abandoned", "replicas", "send", "wait", "acked", "check",
                  "checked", "ended"}

\* Steps that do not concern the verdict.
LEMMA VerdictFrame ==
    ASSUME VerdictOK, drill' = drill, verdict = "none", verdict' # "passed", evidence' = evidence,
           drill = "soak" => step' \in SoakLabels,
           drill = "replica" => step' \in ReplicaLabels,
           step' \in Reached => dedupe' \subseteq dedupe /\ (step \in Reached \/ dedupe = {})
    PROVE  VerdictOK'
<1>1. evidence = "none"
  BY DEF VerdictOK
<1> QED BY <1>1 DEF VerdictOK, Reached, SoakLabels, ReplicaLabels

LEMMA VerdictStep ==
    ASSUME DrillInv, Next
    PROVE  VerdictOK'
<1> USE DEF Opening, Closing, Reached, SoakLabels, ReplicaLabels
<1>1. QueueInv /\ DrillTypes /\ VerdictOK
  BY DEF DrillInv
<1>2. CASE verdict = "none" /\ WorkerNext /\ UNCHANGED driverVars
  <2>1. PICK w \in Workers : WorkerActs(w)
    BY <1>2 DEF WorkerNext, WorkerActs
  <2>2. dedupe' \subseteq dedupe /\ drill' = drill
    BY <1>1, <2>1, WorkerAdvances, OthersKeep DEF Advances
  <2>3. step' = step /\ verdict' = verdict /\ evidence' = evidence
    BY <1>2 DEF driverVars
  <2>4. /\ drill = "soak" => step' \in SoakLabels
        /\ drill = "replica" => step' \in ReplicaLabels
    BY <1>1, <2>3 DEF VerdictOK
  <2> QED BY <1>1, <1>2, <2>2, <2>3, <2>4, VerdictFrame
<1>3. CASE verdict = "none" /\ (SeedVictim \/ EnqueueFirst \/ SendBatch)
  <2>1. drill' = drill /\ evidence' = evidence
    BY <1>3 DEF SeedVictim, EnqueueFirst, SendBatch, Send, EnqueueAnswered, EnqueueRaises,
       SenderOnly, Fail, KeepVerdict
  <2>2. /\ drill = "soak" => step' \in {"seed", "claim", "send"}
        /\ drill = "replica" => step' \in {"first", "abandon", "send"}
        /\ step' \notin Reached
    BY <1>3 DEF SeedVictim, EnqueueFirst, SendBatch, Send, EnqueueAnswered, EnqueueRaises, To
  <2>3. verdict' # "passed"
    BY <1>3 DEF SeedVictim, EnqueueFirst, SendBatch, Send, EnqueueAnswered, EnqueueRaises, Fail,
       KeepVerdict
  <2> QED BY <1>1, <1>3, <2>1, <2>2, <2>3, VerdictFrame
<1>4. CASE verdict = "none" /\ \/ KillVictim \/ VictimRecovered \/ CutNetwork \/ RestoreNetwork
                               \/ ReconnectionSeen \/ AllCompleted
                               \/ \E w \in Workers : StartWorker(w)
  <2>1. /\ drill = "soak" /\ drill' = drill /\ evidence' = evidence /\ verdict' = verdict
        /\ step' \in {"workers", "recovery", "cut", "reconnect", "reconnected", "send", "members"}
    BY <1>4 DEF KillVictim, VictimRecovered, CutNetwork, RestoreNetwork, ReconnectionSeen,
       AllCompleted, StartWorker, Read, Waiting, To, KeepVerdict, DriverOnly
  <2> QED BY <1>1, <1>4, <2>1, VerdictFrame
<1>5. CASE verdict = "none" /\ \/ ReadMembers \/ ReadSize \/ \E w \in Workers : ReadLength(w)
                               \/ (drill = "soak" /\ BatchSent("complete"))
  <2>1. /\ drill = "soak" /\ drill' = drill /\ evidence' = evidence /\ verdict' = verdict
        /\ step' \in {"size", "count", "complete"}
    BY <1>5 DEF ReadMembers, ReadSize, ReadLength, BatchSent, To, KeepVerdict, DriverOnly
  <2> QED BY <1>1, <1>5, <2>1, VerdictFrame
<1>6. CASE verdict = "none" /\ (ReadCardinality \/ WaitExpires)
  <2>1. /\ drill = "soak" /\ drill' = drill /\ evidence' = evidence /\ verdict' # "passed"
        /\ dedupe' = dedupe
    BY <1>6, Zenon DEF ReadCardinality, WaitExpires, Fail, KeepVerdict, DriverOnly, queueVars
  <2>2. \/ step' = "judge" /\ dedupe = {}
        \/ step' = "members"
        \/ step' = step /\ step \in {"count", "complete"}
    BY <1>6, Zenon DEF ReadCardinality, WaitExpires, To, Drained
  <2> QED BY <1>1, <1>6, <2>1, <2>2, VerdictFrame
<1>7. CASE verdict = "none" /\ Judge
  <2>1. /\ drill = "soak" /\ drill' = drill /\ step = "judge" /\ step' = "observe"
        /\ UNCHANGED <<queueVars, completions>> /\ evidence' = evidence
        /\ verdict' = "passed" => ExactlyOnce /\ QueueDrained
    BY <1>7, Zenon DEF Judge, To, Fail, DriverOnly, trackerVars
  <2>2. ExactlyOnce' <=> ExactlyOnce
    BY <2>1 DEF ExactlyOnce, Lost, Completed, DuplicateCompletions
  <2>3. QueueDrained' <=> QueueDrained
    BY <2>1 DEF QueueDrained, queueVars
  <2>4. dedupe' = {} /\ evidence = "none"
    BY <1>1, <1>7, <2>1 DEF VerdictOK, queueVars
  <2> QED BY <2>1, <2>2, <2>3, <2>4 DEF VerdictOK
<1>8. CASE verdict = "none" /\ \/ AbandonedBeats \/ AbandonedClaims \/ StartReplicas
                               \/ (drill = "replica" /\ BatchSent("wait"))
  <2>1. /\ drill = "replica" /\ drill' = drill /\ evidence' = evidence /\ verdict' = verdict
        /\ step' \in {"abandoned", "replicas", "send", "wait"}
    BY <1>8 DEF AbandonedBeats, AbandonedClaims, StartReplicas, BatchSent, To, KeepVerdict,
       DriverOnly, ReplicaOnly
  <2> QED BY <1>1, <1>8, <2>1, VerdictFrame
<1>9. CASE verdict = "none" /\ (CompletionWaited \/ AcknowledgementWaited)
  <2>1. /\ drill = "replica" /\ drill' = drill /\ evidence' = evidence /\ verdict' # "passed"
        /\ dedupe' = dedupe
    BY <1>9, Zenon DEF CompletionWaited, AcknowledgementWaited, Fail, KeepVerdict, DriverOnly,
       queueVars
  <2>2. \/ step' = "check" /\ dedupe = {}
        \/ step' = "acked"
        \/ step' = step /\ step \in {"wait", "acked"}
    BY <1>9, Zenon DEF CompletionWaited, AcknowledgementWaited, To
  <2> QED BY <1>1, <1>9, <2>1, <2>2, VerdictFrame
<1>10. CASE verdict = "none" /\ CheckResults
  <2>1. /\ drill = "replica" /\ drill' = drill /\ step = "check" /\ step' = "checked"
        /\ UNCHANGED <<queueVars, completions>> /\ evidence' = evidence
        /\ verdict' = "passed" => OnceEach
    BY <1>10, Zenon DEF CheckResults, To, Fail, DriverOnly, trackerVars
  <2>2. dedupe' = {} /\ evidence = "none"
    BY <1>1, <1>10, <2>1 DEF VerdictOK, queueVars
  <2> QED BY <2>1, <2>2 DEF VerdictOK, OnceEach
<1>11. CASE UnplannedBreak \/ NetworkReturns
  <2>1. UNCHANGED <<drill, queueVars, step, verdict, evidence, completions>>
    BY <1>11 DEF UnplannedBreak, NetworkReturns, driverVars, DriverOnly, trackerVars
  <2>2. ExactlyOnce' <=> ExactlyOnce
    BY <2>1 DEF ExactlyOnce, Lost, Completed, DuplicateCompletions
  <2>3. QueueDrained' <=> QueueDrained
    BY <2>1 DEF QueueDrained, queueVars
  <2> QED BY <1>1, <2>1, <2>2, <2>3 DEF VerdictOK, queueVars
<1>12. CASE CompileEvidence
  <2>1. /\ drill = "soak" /\ drill' = drill /\ step = "observe" /\ verdict = "passed"
        /\ verdict' = verdict /\ UNCHANGED <<queueVars, completions>>
        /\ (step' = "within" \/ step' = "beyond")
    BY <1>12, Zenon DEF CompileEvidence, DriverOnly, trackerVars
  <2>2. ExactlyOnce' <=> ExactlyOnce
    BY <2>1 DEF ExactlyOnce, Lost, Completed, DuplicateCompletions
  <2>3. QueueDrained' <=> QueueDrained
    BY <2>1 DEF QueueDrained, queueVars
  <2> QED BY <1>1, <2>1, <2>2, <2>3 DEF VerdictOK, queueVars
<1>13. CASE EndReplicaDrill
  <2>1. /\ drill = "replica" /\ drill' = drill /\ step' = "ended" /\ dedupe' = {}
        /\ verdict' = verdict /\ evidence' = evidence
    BY <1>13 DEF EndReplicaDrill, To, ReplicaOnly
  <2>2. evidence = "none"
    BY <1>1, <2>1 DEF VerdictOK
  <2> QED BY <2>1, <2>2 DEF VerdictOK
<1> QED BY <1>2, <1>3, <1>4, <1>5, <1>6, <1>7, <1>8, <1>9, <1>10, <1>11, <1>12, <1>13
        DEF Next, SoakNext, ReplicaNext

-----------------------------------------------------------------------------
(* The invariant                                                           *)

LEMMA DrillInitInv ==
    ASSUME Init, IsFiniteSet(Workers)
    PROVE  DrillInv
<1>1. QueueInv
  BY QueueInitInv DEF Init, DrillInit
<1>2. /\ drill \in {"soak", "replica"}
      /\ pc = [w \in Workers |-> IF w = Victim /\ drill = "soak" THEN "boot" ELSE "off"]
      /\ job = [w \in Workers |-> NoJob] /\ call = [w \in Workers |-> NoCall]
      /\ tally = [w \in Workers |-> 0] /\ requests = [p \in Providers |-> 0]
      /\ starts = [r \in Runs |-> 0] /\ completions = [r \in Runs |-> 0]
      /\ done = [r \in Runs |-> 0] /\ worked = {} /\ recovered = 0 /\ sent = 0
      /\ processing = [w \in Workers |-> <<>>] /\ dedupe = {}
      /\ verdict = "none" /\ evidence = "none" /\ Victim \in Workers /\ VictimRun \in Runs
      /\ step = IF drill = "soak" THEN "seed" ELSE "first"
  BY DrillAssumption DEF Init, DrillInit, QueueInit
<1>3. NoCall \in [provider : Providers, tries : Nat]
  BY DEF NoCall, Providers
<1>4. DrillTypes
  BY <1>2, <1>3 DEF DrillTypes, Labels, Busy, Healthy
<1>5. CallsOK
  BY <1>2 DEF CallsOK, PastGithub, NoCall, Providers
<1>6. \A r \in Runs : Unrecorded(r) = {}
  BY <1>2 DEF Unrecorded
<1>7. CountsOK
  <2>1. \A r \in Runs : done[r] = 0 /\ completions[r] = 0
    BY <1>2
  <2>2. \A r \in Runs : Cardinality(Unrecorded(r)) = 0
    BY <1>6, FS_EmptySet
  <2>3. \A w \in Workers : pc[w] # "complete"
    BY <1>2
  <2>4. done = completions
    BY <1>2
  <2> QED BY <2>1, <2>2, <2>3, <2>4 DEF CountsOK
<1>8. VictimOK
  BY <1>2 DEF VictimOK, Opening, Closing
<1>9. RecoveryOK
  BY <1>2 DEF RecoveryOK, Raised
<1>10. VerdictOK
  BY <1>2 DEF VerdictOK, Opening
<1> QED BY <1>1, <1>4, <1>5, <1>7, <1>8, <1>9, <1>10 DEF DrillInv

LEMMA DrillNextInv ==
    ASSUME DrillInv, [Next]_soakVars, IsFiniteSet(Workers)
    PROVE  DrillInv'
<1>1. CASE Next
  BY <1>1, QueueStep, TypesStep, CallsStep, CountsStep, VictimStep, RecoveryStep, VerdictStep
     DEF DrillInv
<1>2. CASE UNCHANGED soakVars
  <2>1. UNCHANGED <<pending, processing, registered, leased, dedupe, scan, drill, pc, job, call,
                    tally, requests, starts, completions, worked, recovered, reconnected, done,
                    spoiled, step, sent, verdict, evidence>>
    BY <1>2 DEF soakVars, drillVars, driverVars, queueVars, workerVars, trackerVars, metricVars,
       historyVars
  <2>2. QueueInv'
    BY <2>1, QueueNextInv DEF DrillInv, queueVars
  <2>3. DrillTypes'
    BY <2>1 DEF DrillInv, DrillTypes, Busy
  <2>4. CallsOK'
    BY <2>1 DEF DrillInv, CallsOK, PastGithub
  <2>5. CountsOK'
    BY <2>1 DEF DrillInv, CountsOK, Unrecorded
  <2>6. VictimOK'
    BY <2>1 DEF DrillInv, VictimOK
  <2>7. RecoveryOK'
    BY <2>1 DEF DrillInv, RecoveryOK
  <2>8. VerdictOK'
    BY <2>1 DEF DrillInv, VerdictOK, ExactlyOnce, Lost, Completed, DuplicateCompletions, QueueDrained
  <2> QED BY <2>2, <2>3, <2>4, <2>5, <2>6, <2>7, <2>8 DEF DrillInv
<1> QED BY <1>1, <1>2

(***************************************************************************)
(* The inductive invariant of both drills: the real queue under them, what *)
(* every worker holds and has recorded, the calls of the providers, the    *)
(* fate of the victim and of its job, and what each step of the driver     *)
(* implies (container_runtime.py, run_container_soak.py,                   *)
(* verify_replica_recovery.py).                                            *)
(***************************************************************************)
THEOREM DrillInvariant ==
    ASSUME IsFiniteSet(Workers)
    PROVE  Spec => []DrillInv
<1>1. Init => DrillInv
  BY DrillInitInv
<1>2. DrillInv /\ [Next]_soakVars => DrillInv'
  BY DrillNextInv
<1> QED BY <1>1, <1>2, PTL DEF Spec

-----------------------------------------------------------------------------
(* What a drill that passed shows                                          *)

\* There are finitely many jobs: the driver's batch is a list.
LEMMA RunsFinite == IsFiniteSet(Runs) /\ Cardinality(Runs) \in Nat
<1>1. Len(Batch) \in Nat /\ DOMAIN Batch = 1 .. Len(Batch)
  BY BatchAssumption
<1>2. IsFiniteSet(DOMAIN Batch)
  <2>1. 1 \in Int /\ Len(Batch) \in Int
    BY <1>1
  <2>2. IsFiniteSet(1 .. Len(Batch))
    BY <2>1, FS_Interval
  <2> QED BY <1>1, <2>2
<1>3. Batch \in Surjection(DOMAIN Batch, Range(Batch))
  <2>1. Batch = [i \in DOMAIN Batch |-> Batch[i]]
    BY <1>1, BatchAssumption
  <2>2. \A i \in DOMAIN Batch : Batch[i] \in Range(Batch)
    BY DEF Range
  <2>3. Batch \in [DOMAIN Batch -> Range(Batch)]
    BY <2>1, <2>2
  <2>4. \A t \in Range(Batch) : \E i \in DOMAIN Batch : Batch[i] = t
    BY DEF Range
  <2> QED BY <2>3, <2>4 DEF Surjection
<1>4. IsFiniteSet(Range(Batch))
  BY <1>2, <1>3, FS_Surjection
<1>5. Runs = Range(Batch) \cup {VictimRun}
  BY BatchAssumption, DrillAssumption
<1>6. IsFiniteSet(Runs)
  BY <1>4, <1>5, FS_AddElement
<1> QED BY <1>6, FS_CardinalityType

\* No completion counts for nothing: each run has exactly one.
LEMMA OnceIsOnce ==
    ASSUME DrillTypes, ExactlyOnce
    PROVE  Completed = Runs /\ \A r \in Runs : completions[r] = 1
<1> DEFINE After(r) == {r} \X (2 .. completions[r])
           U == UNION {After(r) : r \in Completed}
<1>1. Completed = Runs
  BY DEF ExactlyOnce, Lost, Completed
<1>2. \A r \in Runs : completions[r] \in Nat /\ completions[r] > 0
  BY <1>1 DEF Completed, DrillTypes
<1>3. ASSUME NEW r \in Runs PROVE IsFiniteSet(After(r))
  <2>1. 2 \in Int /\ completions[r] \in Int
    BY <1>2
  <2>2. IsFiniteSet(2 .. completions[r])
    BY <2>1, FS_Interval
  <2>3. IsFiniteSet({r})
    BY FS_Singleton
  <2> QED BY <2>2, <2>3, FS_Product
<1>4. IsFiniteSet({After(r) : r \in Completed})
  <2> DEFINE f == [r \in Completed |-> After(r)]
  <2>1. f \in Surjection(Completed, {After(r) : r \in Completed})
    BY DEF Surjection
  <2> QED BY <1>1, <2>1, RunsFinite, FS_Surjection
<1>5. IsFiniteSet(U)
  <2>1. \A T \in {After(r) : r \in Completed} : IsFiniteSet(T)
    BY <1>1, <1>3
  <2> HIDE DEF After
  <2> QED BY <1>4, <2>1, FS_UNION
<1>6. U = {}
  <2>1. Cardinality(U) = 0
    BY DEF ExactlyOnce, DuplicateCompletions
  <2> HIDE DEF U
  <2> QED BY <1>5, <2>1, FS_EmptySet
<1>7. ASSUME NEW r \in Runs, completions[r] >= 2 PROVE FALSE
  <2>1. <<r, 2>> \in After(r)
    BY <1>2, <1>7
  <2> QED BY <1>1, <1>6, <2>1
<1> QED BY <1>1, <1>2, <1>7

\* Without a run id there is no job in any list.
LEMMA NothingQueued ==
    ASSUME QueueInv, dedupe = {}
    PROVE  pending = <<>> /\ \A w \in Workers : processing[w] = <<>>
<1>1. ASSUME NEW list \in Seq(Envelope), RunsOf(list) \subseteq {}
      PROVE  list = <<>>
  <2>1. Len(list) \in Nat /\ DOMAIN list = 1 .. Len(list)
    OBVIOUS
  <2>2. ~(1 \in DOMAIN list)
    BY <1>1 DEF RunsOf
  <2>3. Len(list) = 0
    BY <2>1, <2>2
  <2> QED BY <2>3, EmptySeq
<1>2. pending \in Seq(Envelope) /\ \A w \in Workers : processing[w] \in Seq(Envelope)
  BY DEF QueueInv, QueueTypeOK
<1>3. RunsOf(pending) \subseteq Runs /\ \A w \in Workers : RunsOf(processing[w]) \subseteq Runs
  BY <1>2, RunsOfType
<1>4. RunsOf(pending) \subseteq {} /\ \A w \in Workers : RunsOf(processing[w]) \subseteq {}
  BY <1>3 DEF QueueInv, DedupeMatchesJobs
<1> QED BY <1>1, <1>2, <1>4

(***************************************************************************)
(* A drill that passes is right, for any number of workers and jobs and    *)
(* any breaks of the network: the jobs are done, the queue is empty, and   *)
(* the faults that the soak claims to have survived took place.            *)
(***************************************************************************)
THEOREM PassIsTrueCorrect ==
    ASSUME IsFiniteSet(Workers)
    PROVE  Spec => []PassIsTrue
<1>1. DrillInv => PassIsTrue
  <2> SUFFICES ASSUME DrillInv, verdict = "passed" PROVE PassIsTrue
    BY DEF PassIsTrue
  <2>1. QueueInv /\ DrillTypes /\ CountsOK /\ VictimOK /\ RecoveryOK /\ VerdictOK
    BY DEF DrillInv
  <2>2. dedupe = {}
    <3>1. drill = "soak" \/ drill = "replica"
      BY <2>1 DEF DrillTypes
    <3>2. \/ step = "observe" \/ step = "within" \/ step = "beyond"
          \/ step = "checked" \/ step = "ended"
      BY <2>1, <3>1 DEF VerdictOK
    <3> QED BY <2>1, <3>2 DEF VerdictOK
  <2>3. pending = <<>> /\ \A w \in Workers : processing[w] = <<>>
    BY <2>1, <2>2, NothingQueued
  <2>4. ASSUME step # "ended", NEW r \in Runs
        PROVE  \/ done[r] = 1
               \/ done[r] > 1 /\ \E w \in Workers : Busy(w) /\ job[w].run = r
    <3>1. completions[r] = 1 /\ done[r] \in Nat
      BY <2>1, <2>4, OnceIsOnce DEF VerdictOK, DrillTypes
    <3>2. done[r] > 0 /\ done[r] <= 1 + Cardinality(Unrecorded(r))
      BY <2>1, <3>1 DEF CountsOK
    <3>3. CASE Unrecorded(r) = {}
      BY <3>1, <3>2, <3>3, FS_EmptySet
    <3>4. CASE Unrecorded(r) # {}
      <4>1. \E w \in Workers : Busy(w) /\ job[w].run = r
        BY <3>4 DEF Unrecorded, Busy
      <4> QED BY <3>1, <3>2, <4>1
    <3> QED BY <3>3, <3>4
  <2>5. ASSUME drill = "soak" PROVE FaultsHappened
    <3>1. step \in {"observe", "within", "beyond"} /\ ExactlyOnce
      BY <2>1, <2>5 DEF VerdictOK
    <3>2. step \in Closing /\ step \notin Opening
      BY <3>1 DEF Closing, Opening
    <3>3. pc[Victim] = "dead" /\ Victim \in worked /\ reconnected
      BY <2>1, <2>5, <3>2 DEF VictimOK
    <3>4. completions[VictimRun] = 1 /\ VictimRun \in Runs
      BY <2>1, <3>1, OnceIsOnce, DrillAssumption
    <3>5. done[VictimRun] > 0
      BY <2>1, <3>4 DEF CountsOK
    <3>6. starts[VictimRun] >= 2
      BY <2>1, <2>5, <3>5 DEF VictimOK
    <3>7. recovered <= 1 \/ spoiled
      BY <2>1, <2>5 DEF RecoveryOK
    <3> QED BY <3>3, <3>6, <3>7 DEF FaultsHappened
  <2> QED BY <2>2, <2>3, <2>4, <2>5 DEF PassIsTrue
<1> QED BY <1>1, DrillInvariant, PTL

-----------------------------------------------------------------------------
(* What the evidence of a soak says                                        *)

\* The times of execute() that build_observation uses.
LEMMA TimesOf ==
    /\ TimeOf("seed") = 1 /\ TimeOf("claim") = 2 /\ TimeOf("recovery") = 3 /\ TimeOf("cut") = 4
    /\ TimeOf("reconnect") = 5 /\ TimeOf("sample") = 7 /\ TimeOf("check") = 8
    /\ Len(Marks) = 8
<1>1. Len(Marks) = 8 /\ DOMAIN Marks = 1 .. 8
  BY DEF Marks
<1>2. /\ Marks[1] = "seed" /\ Marks[2] = "claim" /\ Marks[3] = "recovery" /\ Marks[4] = "cut"
      /\ Marks[5] = "reconnect" /\ Marks[6] = "drain" /\ Marks[7] = "sample"
      /\ Marks[8] = "check"
  BY DEF Marks
<1>3. \A i \in 1 .. 8 : i \in {1, 2, 3, 4, 5, 6, 7, 8}
  OBVIOUS
<1> HIDE DEF Marks
<1>4. TimeOf("seed") = 1
  BY <1>1, <1>2, <1>3 DEF TimeOf
<1>5. TimeOf("claim") = 2
  BY <1>1, <1>2, <1>3 DEF TimeOf
<1>6. TimeOf("recovery") = 3
  BY <1>1, <1>2, <1>3 DEF TimeOf
<1>7. TimeOf("cut") = 4
  BY <1>1, <1>2, <1>3 DEF TimeOf
<1>8. TimeOf("reconnect") = 5
  BY <1>1, <1>2, <1>3 DEF TimeOf
<1>9. TimeOf("sample") = 7
  BY <1>1, <1>2, <1>3 DEF TimeOf
<1>10. TimeOf("check") = 8
  BY <1>1, <1>2, <1>3 DEF TimeOf
<1> QED BY <1>1, <1>4, <1>5, <1>6, <1>7, <1>8, <1>9, <1>10

\* Min picks the least element.
LEMMA MinIs ==
    ASSUME NEW S \in SUBSET Int, NEW m \in S, \A x \in S : m <= x
    PROVE  Min(S) = m
<1>1. \E x \in S : \A y \in S : x <= y
  OBVIOUS
<1>2. Min(S) \in S /\ \A y \in S : Min(S) <= y
  BY <1>1 DEF Min
<1>3. Min(S) \in Int /\ m \in Int /\ Min(S) >= m /\ Min(S) <= m
  BY <1>2
<1> HIDE DEF Min
<1> QED BY <1>3

\* A provider that answered four requests has failed twice and recovered twice.
LEMMA AuditOfFour ==
    Audit(4) = [requests |-> 4, rate_limit_responses |-> 1, transient_failures |-> 1,
                retry_successes |-> 2, latencyP50 |-> 1, latencyP95 |-> 1]
<1>1. Min({2, 2}) = 2
  BY MinIs
<1> QED BY <1>1 DEF Audit

\* In a soak that finished two runs both providers have answered four requests.
LEMMA ProvidersAnswered ==
    ASSUME DrillTypes, CallsOK, CountsOK, drill = "soak",
           NEW r \in Runs, NEW s \in Runs, r # s, completions[r] > 0, completions[s] > 0
    PROVE  requests["github"] = 4 /\ requests["llm"] = 4
<1>1. done[r] > 0 /\ done[s] > 0
  BY DEF CountsOK
<1>2. PastGithub(r) /\ PastGithub(s)
  BY <1>1 DEF PastGithub
<1>3. requests["github"] >= 4 /\ requests["llm"] >= 4
  BY <1>1, <1>2 DEF CallsOK
<1>4. requests["github"] \in 0 .. 4 /\ requests["llm"] \in 0 .. 4
  BY DEF DrillTypes, Providers, Healthy
<1> QED BY <1>3, <1>4

\* Two jobs differ, one of which is not the victim's.
LEMMA TwoRuns ==
    ASSUME Cardinality(Runs) >= 2
    PROVE  \E r \in Runs, s \in Runs : r # s
<1>1. VictimRun \in Runs
  BY DrillAssumption
<1>2. ASSUME \A r \in Runs : r = VictimRun PROVE FALSE
  <2>1. Runs = {VictimRun}
    BY <1>1, <1>2
  <2>2. Cardinality(Runs) = 1
    BY <2>1, FS_Singleton
  <2> QED BY <2>2
<1> QED BY <1>1, <1>2

\* The fields of a measurement, and which of them make it Within.
LEMMA Measured ==
    ASSUME NEW m \in Measurements
    PROVE  /\ m.startP95 \in {60, 61} /\ m.completionP95 \in {120, 121}
           /\ m.startSlo \in {98, 99} /\ m.completionSlo \in {98, 99}
           /\ m.cpu \in {90, 91, 101} /\ m.memory \in {90, 91, 101} /\ m.redis \in {90, 91, 101}
           /\ m.pool \in {0, 20, 21} /\ m.connections \in {50, 51} /\ m.secrets \in {0, 1}
           /\ m = Within <=> /\ m.startP95 = 60 /\ m.completionP95 = 120
                             /\ m.startSlo = 99 /\ m.completionSlo = 99
                             /\ m.cpu = 90 /\ m.memory = 90 /\ m.redis = 90
                             /\ m.pool = 20 /\ m.connections = 50 /\ m.secrets = 0
<1> DEFINE R == [startP95 : {60, 61}, completionP95 : {120, 121}, startSlo : {98, 99},
                 completionSlo : {98, 99}, cpu : {90, 91, 101}, memory : {90, 91, 101},
                 redis : {90, 91, 101}, pool : {0, 20, 21}, connections : {50, 51},
                 secrets : {0, 1}]
<1>1. Within = [startP95 |-> 60, completionP95 |-> 120, startSlo |-> 99, completionSlo |-> 99,
                cpu |-> 90, memory |-> 90, redis |-> 90, pool |-> 20, connections |-> 50,
                secrets |-> 0]
  BY DEF Within, MaxUtilization, Replicas, PoolSize, MaxConnections
<1>2. Beyond = [startP95 |-> {61}, completionP95 |-> {121}, startSlo |-> {98},
                completionSlo |-> {98}, cpu |-> {91, 101}, memory |-> {91, 101},
                redis |-> {91, 101}, pool |-> {0, 21}, connections |-> {51}, secrets |-> {1}]
  BY DEF Beyond, MaxUtilization, Replicas, PoolSize, MaxConnections
<1>3. \/ m = Within
      \/ \E f \in DOMAIN Within : \E x \in Beyond[f] : m = [Within EXCEPT ![f] = x]
  BY DEF Measurements
<1>4. m \in R
  <2>1. Within \in R
    BY <1>1
  <2>2. ASSUME NEW f \in DOMAIN Within, NEW x \in Beyond[f]
        PROVE  [Within EXCEPT ![f] = x] \in R
    BY <1>1, <1>2
  <2> QED BY <1>3, <2>1, <2>2
<1>5. \A x \in R :
        x = Within <=> /\ x.startP95 = 60 /\ x.completionP95 = 120
                       /\ x.startSlo = 99 /\ x.completionSlo = 99
                       /\ x.cpu = 90 /\ x.memory = 90 /\ x.redis = 90
                       /\ x.pool = 20 /\ x.connections = 50 /\ x.secrets = 0
  BY <1>1
<1> QED BY <1>4, <1>5

\* The verifier accepts the observation of a soak that went well if and only if
\* each thing that was measured is within its limit.
LEMMA EvidenceIsRight ==
    ASSUME DrillInv, drill = "soak", ExactlyOnce, QueueDrained, Cardinality(Runs) >= 2,
           NEW m \in Measurements
    PROVE  /\ compile_evidence(build_observation(m)) # "none"
           /\ compile_evidence(build_observation(m)) = "passed" <=> m = Within
<1> DEFINE n == Cardinality(Runs)
           o == build_observation(m)
           duration == Max({1, Planned(n, 1)})
<1>1. Completed = Runs /\ Lost = {} /\ DuplicateCompletions = 0
  BY OnceIsOnce DEF DrillInv, ExactlyOnce
<1>2. n \in Nat /\ n >= 2
  BY RunsFinite
<1>3. requests["github"] = 4 /\ requests["llm"] = 4
  <2>1. PICK r \in Runs, s \in Runs : r # s
    BY TwoRuns
  <2>2. completions[r] > 0 /\ completions[s] > 0
    BY <1>1 DEF Completed
  <2> QED BY <2>1, <2>2, ProvidersAnswered DEF DrillInv
<1>4. duration \in Nat /\ duration > 0
  <2>1. Planned(n, 1) \in Int
    <3>1. (n - 1) + 1 - 1 \in Nat
      BY <1>2
    <3>2. PICK k \in Nat : k = (n - 1) + 1 - 1
      BY <3>1
    <3>3. k \div 1 \in Nat
      BY Quotient
    <3> QED BY <3>2, <3>3 DEF Planned, Ceiling
  <2>2. PICK k \in Int : k = Planned(n, 1)
    BY <2>1
  <2>3. {1, k} \in SUBSET Int
    OBVIOUS
  <2>4. CASE k <= 1
    <3>1. Max({1, k}) = 1
      BY <2>3, <2>4, MaxIs
    <3> QED BY <2>2, <3>1
  <2>5. CASE k > 1
    <3>1. Max({1, k}) = k
      BY <2>3, <2>5, MaxIs
    <3> QED BY <2>2, <2>5, <3>1
  <2> QED BY <2>4, <2>5
<1>5. Cardinality(Completed) = n /\ Cardinality(Lost) = 0
  BY <1>1, FS_EmptySet
<1> HIDE DEF n, duration
<1>6. /\ o.started_at = 1 /\ o.completed_at = 7 /\ o.captured_at = 7 /\ o.checked_at = 8
      /\ o.minDuration = 0 /\ o.minSlo = 99 /\ o.maxRecovery = 8
      /\ o.jobs = n /\ o.burst = 1 /\ o.planned = duration
      /\ o.arrivalRate = 4 /\ o.recommendedRate = 4 /\ o.sustainedRate = 5
      /\ o.headroom = 20 /\ o.reviewed = TRUE
  BY TimesOf DEF build_observation, n, duration
<1>7. /\ o.completed_jobs = n /\ o.lost_jobs = 0 /\ o.duplicate_completions = 0
      /\ o.startP95 = m.startP95 /\ o.completionP95 = m.completionP95
      /\ o.startSlo = m.startSlo /\ o.completionSlo = m.completionSlo
      /\ o.cpu = m.cpu /\ o.memory = m.memory /\ o.redis = m.redis
      /\ o.pool = m.pool /\ o.connections = m.connections
      /\ o.secret_scan_matches = m.secrets
  BY <1>1, <1>5 DEF build_observation
<1>8. o.exactly_once /\ o.queue_drained
  <2>1. o.exactly_once = ExactlyOnce /\ o.queue_drained = QueueDrained
    BY DEF build_observation
  <2> QED BY <2>1
<1>9. o.providers = [p \in Providers |-> Audit(requests[p])]
  BY DEF build_observation
<1>10. /\ DOMAIN o.providers = Providers
       /\ \A p \in Providers :
            o.providers[p] = [requests |-> 4, rate_limit_responses |-> 1,
                              transient_failures |-> 1, retry_successes |-> 2,
                              latencyP50 |-> 1, latencyP95 |-> 1]
  BY <1>3, <1>9, AuditOfFour DEF Providers
<1>11. /\ DOMAIN o.faults = {"worker_termination", "expired_lease", "network_interruption"}
       /\ o.faults["worker_termination"] = Fault(2, 3)
       /\ o.faults["expired_lease"] = Fault(2, 3)
       /\ o.faults["network_interruption"] = Fault(4, 5)
  <2>1. o.faults = [worker_termination   |-> Fault(2, 3),
                    expired_lease        |-> Fault(2, 3),
                    network_interruption |-> Fault(4, 5)]
    BY TimesOf DEF build_observation
  <2> QED BY <2>1
<1> HIDE DEF o
<1>12. /\ m.startP95 \in {60, 61} /\ m.completionP95 \in {120, 121}
       /\ m.startSlo \in {98, 99} /\ m.completionSlo \in {98, 99}
       /\ m.cpu \in {90, 91, 101} /\ m.memory \in {90, 91, 101} /\ m.redis \in {90, 91, 101}
       /\ m.pool \in {0, 20, 21} /\ m.connections \in {50, 51} /\ m.secrets \in {0, 1}
  BY Measured
<1>13. m = Within <=> /\ m.startP95 = 60 /\ m.completionP95 = 120
                      /\ m.startSlo = 99 /\ m.completionSlo = 99
                      /\ m.cpu = 90 /\ m.memory = 90 /\ m.redis = 90
                      /\ m.pool = 20 /\ m.connections = 50 /\ m.secrets = 0
  BY Measured
<1>14. WithinWindow(o)
  <2> DEFINE fs == {{o.faults[f].injected_at, o.faults[f].recovered_at} : f \in DOMAIN o.faults}
             times == {o.captured_at} \cup UNION fs
  <2>1. fs = {{2, 3}, {4, 5}}
    BY <1>11 DEF Fault
  <2> HIDE DEF fs
  <2>2. times = {2, 3, 4, 5, 7}
    <3>1. UNION fs = {2, 3, 4, 5}
      BY <2>1
    <3>2. times = {7} \cup {2, 3, 4, 5}
      BY <1>6, <3>1, Zenon
    <3> QED BY <3>2
  <2> HIDE DEF times
  <2>3. times \in SUBSET Int /\ 2 \in times /\ 7 \in times
    BY <2>2
  <2>4. \A x \in times : 2 <= x /\ x <= 7
    BY <2>2
  <2>5. Min(times) = 2
    BY <2>3, <2>4, MinIs
  <2>6. Max(times) = 7
    BY <2>3, <2>4, MaxIs
  <2>7. /\ Min(times) >= o.started_at /\ Max(times) <= o.completed_at
        /\ o.completed_at <= o.checked_at
    BY <1>6, <2>5, <2>6
  <2> QED BY <2>7 DEF WithinWindow, times, fs
<1>15. Parses(o) <=> m.cpu <= 100 /\ m.memory <= 100 /\ m.redis <= 100 /\ m.pool > 0
  <2>1. o.started_at < o.completed_at /\ LoadParses(o) /\ CapacityParses(o)
    BY <1>2, <1>4, <1>6 DEF LoadParses, CapacityParses
  <2>2. \A p \in DOMAIN o.providers : ProviderParses(o.providers[p])
    BY <1>10 DEF ProviderParses
  <2>3. \A f \in DOMAIN o.faults : FaultParses(o.faults[f])
    BY <1>11 DEF FaultParses, Fault
  <2>4. ResultsParse(o)
    BY <1>7, <1>12 DEF ResultsParse
  <2>5. ResourcesParse(o) <=> m.cpu <= 100 /\ m.memory <= 100 /\ m.redis <= 100 /\ m.pool > 0
    BY <1>7, <1>12 DEF ResourcesParse
  <2> QED BY <1>14, <2>1, <2>2, <2>3, <2>4, <2>5 DEF Parses
<1> DEFINE c == ChecksOf(o)
           InTime == /\ m.startP95 <= 60 /\ m.completionP95 <= 120
                     /\ m.startSlo >= 99 /\ m.completionSlo >= 99
           InBounds == /\ m.cpu <= 90 /\ m.memory <= 90 /\ m.redis <= 90
                       /\ m.pool <= 20 /\ m.connections <= 50
<1>16. DOMAIN c = {"production_duration", "resource_limits_consistent",
                   "provider_failures_exercised", "faults_recovered", "exactly_once_and_drained",
                   "analysis_slo", "resource_headroom", "capacity_recommendation",
                   "artifact_secret_scan"}
  BY DEF ChecksOf
<1>17. /\ c["production_duration"] /\ c["resource_limits_consistent"]
       /\ c["provider_failures_exercised"] /\ c["faults_recovered"]
       /\ c["exactly_once_and_drained"] /\ c["capacity_recommendation"]
  <2>1. c["production_duration"]
    BY <1>4, <1>6 DEF ChecksOf
  <2>2. c["resource_limits_consistent"]
    <3>1. Replicas * PoolSize <= MaxConnections
      BY DEF Replicas, PoolSize, MaxConnections
    <3> QED BY <3>1 DEF ChecksOf
  <2>3. c["provider_failures_exercised"]
    <3>1. \A p \in DOMAIN o.providers : ProviderExercised(o.providers[p])
      BY <1>10 DEF ProviderExercised
    <3> QED BY <3>1 DEF ChecksOf
  <2>4. c["faults_recovered"]
    <3>1. \A f \in DOMAIN o.faults :
            /\ o.faults[f].lost_jobs = 0
            /\ o.faults[f].recovered_at - o.faults[f].injected_at <= o.maxRecovery
      BY <1>6, <1>11 DEF Fault
    <3> QED BY <3>1 DEF ChecksOf
  <2>5. c["exactly_once_and_drained"]
    BY <1>6, <1>7, <1>8 DEF ChecksOf
  <2>6. c["capacity_recommendation"]
    BY <1>6 DEF ChecksOf
  <2> QED BY <2>1, <2>2, <2>3, <2>4, <2>5, <2>6
<1>18. /\ c["analysis_slo"] <=> InTime
       /\ c["resource_headroom"] <=> InBounds
       /\ c["artifact_secret_scan"] <=> m.secrets = 0
  <2>1. c["analysis_slo"] <=> InTime
    BY <1>6, <1>7 DEF ChecksOf
  <2>2. c["resource_headroom"] <=> InBounds
    BY <1>7 DEF ChecksOf, MaxUtilization, Replicas, PoolSize, MaxConnections
  <2>3. c["artifact_secret_scan"] <=> m.secrets = 0
    BY <1>7 DEF ChecksOf
  <2> QED BY <2>1, <2>2, <2>3
<1> HIDE DEF c
<1>19. (\A x \in DOMAIN c : c[x]) <=> InTime /\ InBounds /\ m.secrets = 0
  <2> HIDE DEF InTime, InBounds
  <2> QED BY <1>16, <1>17, <1>18, Zenon
<1>20. Parses(o) /\ (\A x \in DOMAIN c : c[x]) <=> m = Within
  BY <1>12, <1>13, <1>15, <1>19
<1>21. /\ compile_evidence(o) # "none"
       /\ compile_evidence(o) = "passed" <=> Parses(o) /\ (\A x \in DOMAIN c : c[x])
  BY DEF compile_evidence, c
<1> QED BY <1>20, <1>21 DEF o

\* The driver calls a soak within the limits exactly when its evidence passes.
EvidenceOK == evidence # "none" => (step = "within" <=> evidence = "passed")

LEMMA EvidenceStep ==
    ASSUME DrillInv, EvidenceOK, [Next]_soakVars, Cardinality(Runs) >= 2
    PROVE  EvidenceOK'
<1>1. VerdictOK /\ DrillTypes
  BY DEF DrillInv
<1>2. CASE UNCHANGED soakVars
  BY <1>2 DEF EvidenceOK, soakVars, driverVars
<1>3. CASE NetworkReturns
  BY <1>3 DEF EvidenceOK, NetworkReturns, driverVars
<1>4. CASE EndReplicaDrill
  <2>1. drill = "replica" /\ evidence' = evidence
    BY <1>4 DEF EndReplicaDrill, ReplicaOnly
  <2>2. evidence = "none"
    BY <1>1, <2>1 DEF VerdictOK
  <2> QED BY <2>1, <2>2 DEF EvidenceOK
<1>5. CASE verdict = "none" /\ \/ SoakNext \/ ReplicaNext \/ UnplannedBreak
                               \/ WorkerNext /\ UNCHANGED driverVars
  <2>1. evidence = "none"
    BY <1>1, <1>5 DEF VerdictOK
  <2>2. evidence' = evidence
    <3>1. CASE SoakNext
      BY <3>1, Zenon DEF SoakNext, SeedVictim, KillVictim, VictimRecovered, CutNetwork,
         RestoreNetwork, ReconnectionSeen, AllCompleted, ReadMembers, ReadSize, ReadCardinality,
         WaitExpires, Judge, SendBatch, BatchSent, StartWorker, ReadLength, Send,
         EnqueueAnswered, EnqueueRaises, Read, Waiting, Fail, KeepVerdict
    <3>2. CASE ReplicaNext
      BY <3>2, Zenon DEF ReplicaNext, EnqueueFirst, AbandonedBeats, AbandonedClaims,
         StartReplicas, CompletionWaited, AcknowledgementWaited, CheckResults, SendBatch,
         BatchSent, Send, EnqueueAnswered, EnqueueRaises, ReplicaOnly, Fail, KeepVerdict
    <3>3. CASE UnplannedBreak
      BY <3>3 DEF UnplannedBreak, driverVars
    <3>4. CASE WorkerNext /\ UNCHANGED driverVars
      BY <3>4 DEF driverVars
    <3> QED BY <1>5, <3>1, <3>2, <3>3, <3>4
  <2> QED BY <2>1, <2>2 DEF EvidenceOK
<1>6. CASE CompileEvidence
  <2>1. PICK m \in Measurements :
          /\ evidence' = compile_evidence(build_observation(m))
          /\ step' = IF m = Within THEN "within" ELSE "beyond"
    BY <1>6 DEF CompileEvidence
  <2>2. drill = "soak" /\ ExactlyOnce /\ QueueDrained
    BY <1>1, <1>6 DEF CompileEvidence, VerdictOK
  <2>3. evidence' = "passed" <=> m = Within
    BY <2>1, <2>2, EvidenceIsRight
  <2>4. step' = "within" <=> m = Within
    BY <2>1
  <2> QED BY <2>3, <2>4 DEF EvidenceOK
<1> QED BY <1>2, <1>3, <1>4, <1>5, <1>6 DEF Next

(***************************************************************************)
(* Producer and verifier agree, for any number of replicas and of jobs     *)
(* from two on (the profiles of the soak send 25 and more): the retries    *)
(* absorb the failures of the providers whatever the interleaving of their *)
(* answers, and the evidence of a soak that passed is accepted if and only *)
(* if every measurement is within its limit.                               *)
(***************************************************************************)
THEOREM HealthySoakIsAcceptedCorrect ==
    ASSUME IsFiniteSet(Workers), Cardinality(Runs) >= 2
    PROVE  Spec => []HealthySoakIsAccepted
<1>1. Init => EvidenceOK
  BY DEF Init, EvidenceOK
<1>2. DrillInv /\ EvidenceOK /\ [Next]_soakVars => EvidenceOK'
  BY EvidenceStep
<1>3. DrillInv /\ EvidenceOK => HealthySoakIsAccepted
  BY DEF DrillInv, CallsOK, EvidenceOK, HealthySoakIsAccepted
<1> QED BY <1>1, <1>2, <1>3, DrillInvariant, PTL DEF Spec

-----------------------------------------------------------------------------
(* Why a drill fails                                                       *)

\* The driver has sent a run and knows it ...
Sent(r) ==
    \/ r = VictimRun /\ step \notin {"seed", "first"}
    \/ \E i \in 1 .. sent : Batch[i] = r

\* ... or has tried to, with or without effect.
Uncertain(r) == uncertain /\ r = Batch[sent + 1]

AllSent == {"complete", "members", "size", "count", "judge", "observe", "within", "beyond",
            "wait", "acked", "check", "checked"}
Unclaimed == {"first", "abandon", "abandoned"}

\* How far the driver is with its batch, and the replicas that do not run yet.
DriverOK ==
    /\ breaks \in Nat /\ sent \in Nat /\ sent <= Len(Batch)
    /\ uncertain => step \in {"send", "ended"} /\ sent < Len(Batch)
    /\ step \in AllSent => sent = Len(Batch)
    /\ drill = "replica" =>
        /\ pc[Victim] \in {"off", "dead"}
        /\ step \in Unclaimed \cup {"replicas"} => \A w \in Workers : pc[w] = "off"
        /\ step \in Unclaimed => processing[Victim] = <<>>

\* A worker that works has its job in its list, and nobody else has one there
\* but the victim that is gone.
HandsOK ==
    \A w \in Workers :
        /\ Len(processing[w]) <= 1
        /\ Busy(w) => job[w] \in ToSet(processing[w])
        /\ processing[w] # <<>> => Busy(w) \/ (w = Victim /\ ~Alive(w))

Acking(r) == \E w \in Workers : pc[w] = "ack" /\ job[w].run = r
Running(r) == \E w \in Workers : pc[w] = "call" /\ job[w].run = r

\* The life of every run: not sent, sent and not completed, completed once.
JobsOK ==
    /\ \A w \in Workers :
        pc[w] \in {"hold", "call", "complete", "ack"} => starts[job[w].run] > 0
    /\ \A r \in dedupe : completions[r] = IF Acking(r) THEN 1 ELSE 0
    /\ \A r \in Runs \ dedupe :
        \/ completions[r] = 1 /\ starts[r] > 0
        \/ completions[r] = 0 /\ starts[r] = 0 /\ ~Sent(r)
    /\ \A r \in Runs : Sent(r) \/ Uncertain(r) \/ (r \notin dedupe /\ starts[r] = 0)
    /\ drill = "replica" =>
        \A r \in Runs : starts[r] = completions[r] + IF Running(r) THEN 1 ELSE 0

LifeOK == ~spoiled /\ step # "ended" => HandsOK /\ JobsOK

\* In the replica drill the abandoned job is in its list, in the count of one
\* round, or in the metric, as long as the network is up.
RoundsOK ==
    drill = "replica" /\ breaks = 0 /\ ~spoiled /\ step # "ended" =>
        /\ Up /\ inflight = {}
        /\ \A w \in Workers : tally[w] \in {0, 1}
        /\ step \in Unclaimed \/ processing[Victim] # <<>>
             => recovered = 0 /\ \A w \in Workers : tally[w] = 0
        /\ step \notin Unclaimed /\ processing[Victim] = <<>>
             => \/ recovered = 1 /\ \A w \in Workers : tally[w] = 0
                \/ \E w \in Workers :
                    recovered = 0 /\ tally[w] = 1 /\ \A u \in Workers \ {w} : tally[u] = 0

\* What a worker at work holds, nobody else has.
LEMMA HeldRun ==
    ASSUME QueueInv, DrillTypes, HandsOK, NEW w \in Workers, Busy(w)
    PROVE  /\ job[w] \in Envelope /\ job[w].run \in Runs /\ job[w].run \in dedupe
           /\ job[w] \in ToSet(processing[w])
           /\ job[w].run \in RunsOf(processing[w]) /\ job[w].run \notin RunsOf(pending)
           /\ \A u \in Workers \ {w} : job[w].run \notin RunsOf(processing[u])
           /\ \A u \in Workers \ {w} : Busy(u) => job[u].run # job[w].run
<1>1. job[w] \in Envelope /\ job[w].run \in Runs
  BY DEF DrillTypes, Envelope
<1>2. job[w] \in ToSet(processing[w])
  BY DEF HandsOK
<1>3. \A u \in Workers : processing[u] \in Seq(Envelope)
  BY DEF QueueInv, QueueTypeOK
<1>4. \A u \in Workers : Busy(u) => job[u].run \in RunsOf(processing[u])
  BY <1>3, JobSets DEF HandsOK
<1>5. job[w].run \in dedupe
  BY <1>1, <1>4 DEF QueueInv, DedupeMatchesJobs
<1>6. job[w].run \notin RunsOf(pending)
  BY <1>4 DEF QueueInv, OneJobPerRun
<1>7. \A u \in Workers \ {w} : job[w].run \notin RunsOf(processing[u])
  BY <1>4 DEF QueueInv, OneJobPerRun
<1> QED BY <1>1, <1>2, <1>4, <1>5, <1>6, <1>7

Resting == {"boot", "booting", "idle"}

\* A worker goes on without touching a job,
Stays(w) ==
    /\ UNCHANGED <<pending, processing, dedupe, starts, completions>>
    /\ \/ job'[w] = job[w] /\ pc'[w] = pc[w]
       \/ pc[w] \in Resting /\ pc'[w] \in Resting
       \/ job'[w] = job[w] /\ drill = "soak" /\ pc[w] = "call" /\ pc'[w] = "complete"

\* recovers the jobs of a worker that is gone,
Frees(w) ==
    /\ UNCHANGED <<dedupe, starts, completions>>
    /\ job'[w] = job[w]
    /\ pc'[w] = pc[w] \/ (pc[w] \in Resting /\ pc'[w] \in Resting)
    /\ \E v \in Workers : Recover(w, v) /\ ~TakenOver(v)

\* takes a job,
Takes(w) ==
    /\ UNCHANGED <<dedupe, starts, completions>>
    /\ pc[w] = "idle" /\ pc'[w] = "claimed"
    /\ Claim(w) /\ job'[w] = Last(pending)

\* starts it,
Begins(w) ==
    /\ UNCHANGED <<pending, processing, dedupe, completions>>
    /\ job'[w] = job[w]
    /\ pc[w] = "claimed"
    /\ pc'[w] \in {"claimed", "hold", "call"} /\ (drill = "replica" => pc'[w] = "call")
    /\ starts' = [starts EXCEPT ![job[w].run] = @ + 1]

\* records its completion,
Ends(w) ==
    /\ UNCHANGED <<pending, processing, dedupe, starts>>
    /\ job'[w] = job[w]
    /\ pc[w] = IF drill = "replica" THEN "call" ELSE "complete"
    /\ pc'[w] = "ack"
    /\ completions' = [completions EXCEPT ![job[w].run] = @ + 1]

\* and gives it back.
Settles(w) ==
    /\ UNCHANGED <<starts, completions>>
    /\ pc[w] = "ack" /\ pc'[w] = "idle"
    /\ Acknowledge(w, job[w])

\* Unless the network spoils the drill, a worker does nothing else.
LEMMA WorkerKinds ==
    ASSUME QueueInv, DrillTypes, CallsOK', NEW w \in Workers, WorkerActs(w), ~spoiled'
    PROVE  Stays(w) \/ Frees(w) \/ Takes(w) \/ Begins(w) \/ Ends(w) \/ Settles(w)
<1> USE DEF Resting
<1>0. scan[w] \subseteq Workers
  BY DEF QueueInv, QueueTypeOK
<1>1. CASE LeaseRunsOut(w) \/ Beat(w) \/ Scan(w)
  BY <1>1 DEF LeaseRunsOut, Beat, Scan, LeaseExpires, Heartbeat, ScanWorkers, MaintenanceOnly,
     workerVars, trackerVars, Stays
<1>2. CASE BootBeat(w)
  BY <1>2 DEF BootBeat, Heartbeat, MaintenanceOnly, Goto, DrillTypes, Stays
<1>3. CASE RecoverStep(w)
  <2>1. PICK v \in Workers, n \in Nat : Recovers(w, v, n)
    BY <1>3, RecoverEffect
  <2>2. Recover(w, v) /\ ~TakenOver(v)
    BY <2>1 DEF Recovers
  <2>3. UNCHANGED <<dedupe, starts, completions>> /\ job' = job
    BY <1>3, <2>2 DEF RecoverStep, MaintenanceOnly, Recover
  <2>4. pc'[w] = pc[w] \/ (pc[w] = "booting" /\ pc'[w] = "idle")
    BY <2>1 DEF Recovers, DrillTypes
  <2> QED BY <2>2, <2>3, <2>4 DEF Frees
<1>4. CASE NothingToRecover(w)
  BY <1>4 DEF NothingToRecover, MaintenanceOnly, queueVars, DrillTypes, Stays
<1>5. CASE RecoverLost(w)
  <2>1. PICK v \in scan[w] : Recover(w, v) /\ spoiled' = (spoiled \/ TakenOver(v))
    BY <1>5 DEF RecoverLost
  <2>2. v \in Workers /\ ~TakenOver(v)
    BY <1>0, <2>1
  <2>3. UNCHANGED <<dedupe, starts, completions>> /\ job' = job /\ pc' = pc
    BY <1>5, <2>1 DEF RecoverLost, MaintenanceOnly, Recover
  <2> QED BY <2>1, <2>2, <2>3 DEF Frees
<1>6. CASE MaintenanceFails(w)
  BY <1>6 DEF MaintenanceFails, AbortScan, MaintenanceOnly, DrillTypes, Stays
<1>7. CASE DequeuePop(w)
  BY <1>7 DEF DequeuePop, Claim, MainOnly, Counters, Goto, DrillTypes, Takes
<1>8. CASE DequeueNothing(w)
  BY <1>8 DEF DequeueNothing, Counters, queueVars, Stays
<1>9. CASE QueueFails(w)
  <2>1. UNCHANGED <<starts, completions>> /\ pc'[w] = "idle"
    BY <1>9 DEF QueueFails, Counters, Goto, DrillTypes
  <2>2. CASE pc[w] = "idle" /\ UNCHANGED queueVars
    BY <2>1, <2>2 DEF queueVars, Stays
  <2>3. CASE pc[w] = "ack" /\ Acknowledge(w, job[w])
    BY <2>1, <2>3 DEF Settles
  <2>4. pc[w] \in {"idle", "claimed", "ack"} /\ ~Busy(w) => pc[w] = "idle"
    BY DEF Busy
  <2>5. \/ pc[w] \in {"idle", "claimed", "ack"} /\ UNCHANGED queueVars /\ ~Busy(w)
        \/ pc[w] = "ack" /\ Acknowledge(w, job[w])
    BY <1>9, Zenon DEF QueueFails
  <2> QED BY <2>2, <2>3, <2>4, <2>5
<1>10. CASE AcknowledgeJob(w)
  BY <1>10 DEF AcknowledgeJob, Counters, Goto, DrillTypes, Settles
<1>11. CASE RecordStart(w) \/ RecordStartAgain(w)
  BY <1>11 DEF RecordStart, RecordStartAgain, CountStart, PipelineOnly, Goto, queueVars,
     DrillTypes, Begins
<1>12. CASE CallProvider(w)
  <2>1. PICK p \in Providers, n \in Nat : Asks(w, p, n)
    BY <1>12, CallEffect
  <2>2. pc[w] = "call" /\ (pc'[w] = "call" \/ pc'[w] = "complete" \/ pc'[w] = "raise") /\ job' = job
    BY <2>1 DEF Asks, DrillTypes
  <2>3. pc'[w] # "raise"
    BY DEF CallsOK
  <2>4. drill = "soak" /\ UNCHANGED <<queueVars, starts, completions>>
    BY <1>12 DEF CallProvider, PipelineOnly, Counters
  <2> QED BY <2>2, <2>3, <2>4 DEF Stays, queueVars
<1>13. CASE RecordCompletion(w)
  BY <1>13 DEF RecordCompletion, PipelineOnly, Goto, queueVars, DrillTypes, Ends
<1>14. ~RecordCompletionAgain(w)
  BY DEF RecordCompletionAgain
<1>15. CASE ProcessEnds(w)
  BY <1>15 DEF ProcessEnds, PipelineOnly, Goto, queueVars, DrillTypes, Ends
<1> QED BY <1>1, <1>2, <1>3, <1>4, <1>5, <1>6, <1>7, <1>8, <1>9, <1>10, <1>11, <1>12, <1>13,
        <1>14, <1>15 DEF WorkerActs

\* The lists and the hands after a step of one worker.
LEMMA HandsWorker ==
    ASSUME QueueInv, QueueInv', DrillTypes, CallsOK', HandsOK, NEW w \in Workers, WorkerActs(w),
           ~spoiled'
    PROVE  HandsOK'
<1> USE DEF Resting
<1>1. \A u \in Workers \ {w} : pc'[u] = pc[u] /\ job'[u] = job[u]
  BY OthersKeep
<1>2. /\ \A u \in Workers : processing[u] \in Seq(Envelope)
      /\ processing \in [Workers -> Seq(Envelope)] /\ pending \in Seq(Envelope)
  BY DEF QueueInv, QueueTypeOK
<1>3. CASE Stays(w)
  BY <1>1, <1>3 DEF Stays, HandsOK, Busy, Alive
<1>4. CASE Begins(w) \/ Ends(w)
  BY <1>1, <1>4 DEF Begins, Ends, HandsOK, Busy, Alive
<1>5. CASE Frees(w)
  <2>1. PICK v \in Workers : Recover(w, v) /\ ~TakenOver(v)
    BY <1>5 DEF Frees
  <2>2. CASE v \in leased
    <3>1. processing' = processing
      BY <2>1, <2>2 DEF Recover
    <3> QED BY <1>1, <1>5, <3>1 DEF Frees, HandsOK, Busy, Alive
  <2>3. CASE v \notin leased
    <3>1. processing' = [processing EXCEPT ![v] = <<>>]
      BY <2>1, <2>3 DEF Recover
    <3>2. processing'[v] = <<>> /\ \A u \in Workers \ {v} : processing'[u] = processing[u]
      BY <1>2, <3>1
    <3>3. ~Busy(v)
      <4>1. ~Alive(v) \/ processing[v] = <<>>
        BY <2>1, <2>3 DEF TakenOver
      <4>2. CASE ~Alive(v)
        BY <4>2 DEF Alive, Busy
      <4>3. CASE processing[v] = <<>>
        BY <4>3 DEF HandsOK, ToSet
      <4> QED BY <4>1, <4>2, <4>3
    <3>4. \A u \in Workers : (Busy(u)' <=> Busy(u)) /\ (Alive(u)' <=> Alive(u)) /\ job'[u] = job[u]
      BY <1>1, <1>5 DEF Frees, Busy, Alive
    <3>5. ASSUME NEW u \in Workers
          PROVE  /\ Len(processing'[u]) <= 1
                 /\ Busy(u)' => job'[u] \in ToSet(processing'[u])
                 /\ processing'[u] # <<>> => Busy(u)' \/ (u = Victim /\ ~Alive(u)')
      <4>1. CASE u = v
        BY <3>2, <3>3, <3>4, <4>1
      <4>2. CASE u # v
        BY <3>2, <3>4, <4>2 DEF HandsOK
      <4> QED BY <4>1, <4>2
    <3> QED BY <3>5 DEF HandsOK
  <2> QED BY <2>2, <2>3
<1>6. CASE Takes(w)
  <2>1. /\ pending # <<>> /\ pc[w] = "idle" /\ pc'[w] = "claimed" /\ job'[w] = Last(pending)
        /\ processing' = [processing EXCEPT ![w] = Cons(Last(pending), processing[w])]
    BY <1>6 DEF Takes, Claim
  <2>2. processing[w] = <<>>
    BY <2>1 DEF HandsOK, Busy, Alive
  <2>3. /\ processing'[w] = Cons(Last(pending), <<>>)
        /\ \A u \in Workers \ {w} : processing'[u] = processing[u]
    BY <1>2, <2>1, <2>2
  <2>4. Last(pending) \in Envelope /\ <<>> \in Seq(Envelope)
    BY <1>2, <2>1, PopJob
  <2>5. Len(processing'[w]) = 1
    BY <2>3, <2>4 DEF Cons
  <2>6. job'[w] \in ToSet(processing'[w])
    <3>1. PICK e \in Envelope : e = Last(pending)
      BY <2>4
    <3>2. PICK list \in Seq(Envelope) : list = <<>>
      BY <2>4
    <3>3. ToSet(Cons(e, list)) = {e} \cup ToSet(list)
      BY JobSets
    <3>4. e \in ToSet(Cons(e, list))
      BY <3>3
    <3> QED BY <2>1, <2>3, <3>1, <3>2, <3>4
  <2> QED BY <1>1, <2>1, <2>3, <2>5, <2>6 DEF HandsOK, Busy, Alive
<1>7. CASE Settles(w)
  <2>1. pc[w] = "ack" /\ pc'[w] = "idle" /\ Acknowledge(w, job[w]) /\ Busy(w)
    BY <1>7 DEF Settles, Busy
  <2>2. job[w] \in ToSet(processing[w]) /\ Len(processing[w]) <= 1
    BY <2>1 DEF HandsOK
  <2>3. /\ processing' = [processing EXCEPT ![w] = RemoveFirst(processing[w], job[w])]
        /\ processing'[w] = RemoveFirst(processing[w], job[w])
        /\ \A u \in Workers \ {w} : processing'[u] = processing[u]
    BY <1>2, <2>1, <2>2 DEF Acknowledge
  <2>4. NoRepeat(processing[w])
    BY DEF QueueInv, OneJobPerRun
  <2>5. ToSet(processing'[w]) = ToSet(processing[w]) \ {job[w]}
    BY <1>2, <2>2, <2>3, <2>4, RemoveJob
  <2>6. processing'[w] = <<>>
    <3>1. Len(processing[w]) \in Nat /\ DOMAIN processing[w] = 1 .. Len(processing[w])
      BY <1>2
    <3>2. PICK k \in DOMAIN processing[w] : processing[w][k] = job[w]
      BY <2>2 DEF ToSet
    <3>3. DOMAIN processing[w] = {1} /\ k = 1
      BY <2>2, <3>1, <3>2
    <3>4. ToSet(processing[w]) = {job[w]}
      BY <3>2, <3>3 DEF ToSet
    <3>5. processing'[w] \in Seq(Envelope)
      BY DEF QueueInv, QueueTypeOK
    <3>6. ToSet(processing'[w]) = {}
      BY <2>5, <3>4
    <3>7. Len(processing'[w]) \in Nat /\ DOMAIN processing'[w] = 1 .. Len(processing'[w])
      BY <3>5
    <3>8. ~(1 \in DOMAIN processing'[w])
      BY <3>6 DEF ToSet
    <3> QED BY <3>5, <3>7, <3>8, EmptySeq
  <2> QED BY <1>1, <2>1, <2>3, <2>6 DEF HandsOK, Busy, Alive
<1> QED BY <1>3, <1>4, <1>5, <1>6, <1>7, WorkerKinds

\* The life of the runs after a step of one worker.
LEMMA JobsWorker ==
    ASSUME QueueInv, DrillTypes, CallsOK', HandsOK, JobsOK, NEW w \in Workers, WorkerActs(w),
           ~spoiled', UNCHANGED <<step, sent, uncertain>>
    PROVE  JobsOK'
<1> USE DEF Resting
<1>1. /\ drill' = drill /\ \A u \in Workers \ {w} : pc'[u] = pc[u] /\ job'[u] = job[u]
  BY OthersKeep
<1>2. \A r \in Runs : (Sent(r)' <=> Sent(r)) /\ (Uncertain(r)' <=> Uncertain(r))
  BY DEF Sent, Uncertain
<1>3. /\ dedupe \subseteq Runs /\ starts \in [Runs -> Nat] /\ completions \in [Runs -> Nat]
  BY DEF QueueInv, QueueTypeOK, DrillTypes
<1>4. CASE Stays(w) \/ Frees(w) \/ Takes(w)
  <2>1. UNCHANGED <<dedupe, starts, completions>>
    BY <1>4 DEF Stays, Frees, Takes
  <2>2. \A r \in Runs : Acking(r)' <=> Acking(r)
    BY <1>1, <1>4 DEF Acking, Stays, Frees, Takes
  <2>3. drill = "replica" => \A r \in Runs : Running(r)' <=> Running(r)
    BY <1>1, <1>4 DEF Running, Stays, Frees, Takes
  <2>4. \A u \in Workers : pc'[u] \in {"hold", "call", "complete", "ack"} =>
                             pc[u] \in {"hold", "call", "complete", "ack"} /\ job'[u] = job[u]
    BY <1>1, <1>4 DEF Stays, Frees, Takes
  <2>5. \A u \in Workers :
            pc'[u] \in {"hold", "call", "complete", "ack"} => starts'[job'[u].run] > 0
    BY <2>1, <2>4 DEF JobsOK
  <2>6. \A r \in dedupe' : completions'[r] = IF Acking(r)' THEN 1 ELSE 0
    BY <1>3, <2>1, <2>2 DEF JobsOK
  <2>7. drill' = "replica" =>
          \A r \in Runs : starts'[r] = completions'[r] + IF Running(r)' THEN 1 ELSE 0
    BY <1>1, <2>1, <2>3 DEF JobsOK
  <2>8. \A r \in Runs \ dedupe' :
          \/ completions'[r] = 1 /\ starts'[r] > 0
          \/ completions'[r] = 0 /\ starts'[r] = 0 /\ ~Sent(r)'
    BY <1>2, <2>1 DEF JobsOK
  <2>9. \A r \in Runs : Sent(r)' \/ Uncertain(r)' \/ (r \notin dedupe' /\ starts'[r] = 0)
    BY <1>2, <2>1 DEF JobsOK
  <2> QED BY <2>5, <2>6, <2>7, <2>8, <2>9 DEF JobsOK
<1>5. ASSUME Begins(w) \/ Ends(w) \/ Settles(w)
      PROVE  JobsOK'
  <2>1. PICK run \in Runs : run = job[w].run
    BY <1>5 DEF Begins, Ends, Settles, DrillTypes, Busy, Envelope
  <2>2. /\ Busy(w) /\ run \in dedupe /\ job[w] \in ToSet(processing[w])
        /\ \A u \in Workers \ {w} : Busy(u) => job[u].run # run
    <3>1. Busy(w)
      BY <1>5 DEF Begins, Ends, Settles, Busy
    <3> QED BY <2>1, <3>1, HeldRun
  <2>3. \A u \in Workers \ {w} : pc[u] \in {"hold", "call", "complete", "ack"} => job[u].run # run
    BY <2>2 DEF Busy
  <2>4. Sent(run) \/ Uncertain(run)
    BY <2>2 DEF JobsOK
  <2>5. completions[run] = IF Acking(run) THEN 1 ELSE 0
    BY <2>2 DEF JobsOK
  <2>6. CASE Begins(w)
    <3>1. /\ UNCHANGED <<dedupe, completions>> /\ job'[w] = job[w] /\ pc[w] = "claimed"
          /\ pc'[w] \in {"claimed", "hold", "call"} /\ (drill = "replica" => pc'[w] = "call")
          /\ starts' = [starts EXCEPT ![run] = starts[run] + 1]
      BY <2>1, <2>6 DEF Begins
    <3>2. /\ starts'[run] = starts[run] + 1 /\ starts[run] \in Nat
          /\ \A r \in Runs \ {run} : starts'[r] = starts[r]
      BY <1>3, <3>1
    <3>3. \A r \in Runs : Acking(r)' <=> Acking(r)
      BY <1>1, <3>1 DEF Acking
    <3>4. \A u \in Workers :
            pc'[u] \in {"hold", "call", "complete", "ack"} => starts'[job'[u].run] > 0
      <4>1. ASSUME NEW u \in Workers \ {w}, pc'[u] \in {"hold", "call", "complete", "ack"}
            PROVE  starts'[job'[u].run] > 0
        <5>1. job[u].run # run /\ job[u].run \in Runs /\ starts[job[u].run] > 0
          BY <1>1, <2>3, <4>1 DEF JobsOK, DrillTypes, Busy, Envelope
        <5> QED BY <1>1, <3>2, <5>1
      <4>2. starts'[job'[w].run] > 0
        BY <2>1, <3>1, <3>2
      <4> QED BY <4>1, <4>2
    <3>5. \A r \in dedupe' : completions'[r] = IF Acking(r)' THEN 1 ELSE 0
      BY <1>3, <3>1, <3>3 DEF JobsOK
    <3>6. \A r \in Runs \ dedupe' :
            \/ completions'[r] = 1 /\ starts'[r] > 0
            \/ completions'[r] = 0 /\ starts'[r] = 0 /\ ~Sent(r)'
      BY <1>2, <2>2, <3>1, <3>2 DEF JobsOK
    <3>7. \A r \in Runs : Sent(r)' \/ Uncertain(r)' \/ (r \notin dedupe' /\ starts'[r] = 0)
      BY <1>2, <2>4, <3>1, <3>2 DEF JobsOK
    <3>8. ASSUME drill' = "replica", NEW r \in Runs
          PROVE  starts'[r] = completions'[r] + IF Running(r)' THEN 1 ELSE 0
      <4>0. drill = "replica"
        BY <1>1, <3>8
      <4>1. starts[r] = completions[r] + IF Running(r) THEN 1 ELSE 0
        BY <4>0 DEF JobsOK
      <4>2. CASE r = run
        <5>1. ~Running(run)
          BY <2>3, <3>1 DEF Running
        <5>2. Running(run)'
          BY <2>1, <3>1, <4>0 DEF Running
        <5> QED BY <1>3, <3>1, <3>2, <4>1, <4>2, <5>1, <5>2
      <4>3. CASE r # run
        <5>1. Running(r)' <=> Running(r)
          BY <1>1, <2>1, <3>1, <4>3 DEF Running
        <5> QED BY <3>1, <3>2, <4>1, <4>3, <5>1
      <4> QED BY <4>2, <4>3
    <3> QED BY <3>4, <3>5, <3>6, <3>7, <3>8 DEF JobsOK
  <2>7. CASE Ends(w)
    <3>1. /\ UNCHANGED <<dedupe, starts>> /\ job'[w] = job[w]
          /\ pc[w] = IF drill = "replica" THEN "call" ELSE "complete"
          /\ pc'[w] = "ack"
          /\ completions' = [completions EXCEPT ![run] = completions[run] + 1]
      BY <2>1, <2>7 DEF Ends
    <3>2. ~Acking(run)
      BY <2>3, <3>1 DEF Acking
    <3>3. /\ completions'[run] = 1 /\ completions[run] = 0
          /\ \A r \in Runs \ {run} : completions'[r] = completions[r]
      BY <1>3, <2>5, <3>1, <3>2
    <3>4. Acking(run)' /\ \A r \in Runs \ {run} : Acking(r)' <=> Acking(r)
      BY <1>1, <2>1, <3>1 DEF Acking
    <3>5. \A u \in Workers :
            pc'[u] \in {"hold", "call", "complete", "ack"} => starts'[job'[u].run] > 0
      BY <1>1, <3>1 DEF JobsOK
    <3>6. \A r \in dedupe' : completions'[r] = IF Acking(r)' THEN 1 ELSE 0
      BY <1>3, <3>1, <3>3, <3>4 DEF JobsOK
    <3>7. \A r \in Runs \ dedupe' :
            \/ completions'[r] = 1 /\ starts'[r] > 0
            \/ completions'[r] = 0 /\ starts'[r] = 0 /\ ~Sent(r)'
      BY <1>2, <2>2, <3>1, <3>3 DEF JobsOK
    <3>8. \A r \in Runs : Sent(r)' \/ Uncertain(r)' \/ (r \notin dedupe' /\ starts'[r] = 0)
      BY <1>2, <3>1 DEF JobsOK
    <3>9. ASSUME drill' = "replica", NEW r \in Runs
          PROVE  starts'[r] = completions'[r] + IF Running(r)' THEN 1 ELSE 0
      <4>0. drill = "replica"
        BY <1>1, <3>9
      <4>1. starts[r] = completions[r] + IF Running(r) THEN 1 ELSE 0
        BY <4>0 DEF JobsOK
      <4>2. CASE r = run
        <5>1. Running(run)
          BY <2>1, <3>1, <4>0 DEF Running
        <5>2. ~Running(run)'
          BY <1>1, <2>3, <3>1 DEF Running
        <5> QED BY <3>1, <3>3, <4>1, <4>2, <5>1, <5>2
      <4>3. CASE r # run
        <5>1. Running(r)' <=> Running(r)
          BY <1>1, <2>1, <3>1, <4>3 DEF Running
        <5> QED BY <3>1, <3>3, <4>1, <4>3, <5>1
      <4> QED BY <4>2, <4>3
    <3> QED BY <3>5, <3>6, <3>7, <3>8, <3>9 DEF JobsOK
  <2>8. CASE Settles(w)
    <3>1. /\ UNCHANGED <<starts, completions>> /\ pc[w] = "ack" /\ pc'[w] = "idle"
          /\ dedupe' = dedupe \ {run}
      BY <2>1, <2>2, <2>8 DEF Settles, Acknowledge
    <3>2. completions[run] = 1 /\ starts[run] > 0
      BY <2>1, <2>5, <3>1 DEF JobsOK, Acking
    <3>3. \A r \in Runs \ {run} : Acking(r)' <=> Acking(r)
      BY <1>1, <2>1, <3>1 DEF Acking
    <3>4. \A r \in Runs : Running(r)' <=> Running(r)
      BY <1>1, <3>1 DEF Running
    <3>5. \A u \in Workers :
            pc'[u] \in {"hold", "call", "complete", "ack"} => starts'[job'[u].run] > 0
      BY <1>1, <3>1 DEF JobsOK
    <3>6. \A r \in dedupe' : completions'[r] = IF Acking(r)' THEN 1 ELSE 0
      BY <1>3, <3>1, <3>3 DEF JobsOK
    <3>7. \A r \in Runs \ dedupe' :
            \/ completions'[r] = 1 /\ starts'[r] > 0
            \/ completions'[r] = 0 /\ starts'[r] = 0 /\ ~Sent(r)'
      BY <1>2, <3>1, <3>2 DEF JobsOK
    <3>8. \A r \in Runs : Sent(r)' \/ Uncertain(r)' \/ (r \notin dedupe' /\ starts'[r] = 0)
      BY <1>2, <3>1 DEF JobsOK
    <3>9. drill' = "replica" =>
            \A r \in Runs : starts'[r] = completions'[r] + IF Running(r)' THEN 1 ELSE 0
      BY <1>1, <3>1, <3>4 DEF JobsOK
    <3> QED BY <3>5, <3>6, <3>7, <3>8, <3>9 DEF JobsOK
  <2> QED BY <1>5, <2>6, <2>7, <2>8
<1> QED BY <1>4, <1>5, WorkerKinds

Faulting == {"recovery", "cut", "reconnect", "reconnected"}

\* The driver waits, looks or judges.
Passes ==
    /\ UNCHANGED <<queueVars, drill, workerVars, starts, completions, recovered, spoiled, sent,
                   uncertain>>
    /\ \/ step' = step
       \/ step \in AllSent /\ step' \in AllSent
       \/ step = "send" /\ sent = Len(Batch) /\ step' \in AllSent
       \/ step \in Faulting /\ step' \in Faulting \cup {"send"}
    /\ \/ breaks' = breaks + 1
       \/ breaks' = breaks /\ (drill = "soak" \/ ~Up \/ UNCHANGED netVars)

LEMMA DriverKinds ==
    ASSUME Next, ~(verdict = "none" /\ WorkerNext /\ UNCHANGED driverVars)
    PROVE  \/ Passes
           \/ verdict = "none" /\ (SeedVictim \/ EnqueueFirst \/ SendBatch)
           \/ verdict = "none" /\ (AbandonedBeats \/ AbandonedClaims)
           \/ verdict = "none" /\ (StartReplicas \/ KillVictim \/ \E w \in Workers : StartWorker(w))
           \/ EndReplicaDrill
<1> USE DEF AllSent, Faulting
<1>1. CASE VictimRecovered \/ ReconnectionSeen \/ AllCompleted
  BY <1>1 DEF VictimRecovered, ReconnectionSeen, AllCompleted, Read, Waiting, To, DriverOnly,
     trackerVars, historyVars, netVars, Passes
<1>2. CASE CutNetwork \/ RestoreNetwork
  BY <1>2 DEF CutNetwork, RestoreNetwork, Waiting, To, DriverOnly, trackerVars, historyVars, Passes
<1>3. CASE ReadMembers \/ ReadSize \/ \E w \in Workers : ReadLength(w)
  BY <1>3 DEF ReadMembers, ReadSize, ReadLength, To, DriverOnly, trackerVars, historyVars, netVars,
     Passes
<1>4. CASE BatchSent("complete") \/ BatchSent("wait")
  BY <1>4 DEF BatchSent, To, DriverOnly, trackerVars, historyVars, netVars, Passes
<1>5. CASE \/ ReadCardinality \/ WaitExpires \/ Judge \/ CompletionWaited \/ AcknowledgementWaited
           \/ CheckResults \/ CompileEvidence
  <2>1. UNCHANGED <<queueVars, netVars, drill, workerVars, trackerVars, historyVars, sent, uncertain>>
    <3>1. CASE ReadCardinality \/ WaitExpires \/ Judge
      BY <3>1, Zenon DEF ReadCardinality, WaitExpires, Judge, DriverOnly
    <3>2. CASE CompletionWaited \/ AcknowledgementWaited \/ CheckResults \/ CompileEvidence
      BY <3>2, Zenon DEF CompletionWaited, AcknowledgementWaited, CheckResults, CompileEvidence,
         DriverOnly
    <3> QED BY <1>5, <3>1, <3>2
  <2>2. \/ step' = step
        \/ step = "count" /\ step' = "judge"
        \/ step = "count" /\ step' = "members"
        \/ step = "judge" /\ step' = "observe"
        \/ step = "wait" /\ step' = "acked"
        \/ step = "acked" /\ step' = "check"
        \/ step = "check" /\ step' = "checked"
        \/ step = "observe" /\ step' = "within"
        \/ step = "observe" /\ step' = "beyond"
    <3>1. CASE ReadCardinality
      BY <3>1, Zenon DEF ReadCardinality, To
    <3>2. CASE WaitExpires
      BY <3>2, Zenon DEF WaitExpires
    <3>3. CASE Judge
      BY <3>3, Zenon DEF Judge, To
    <3>4. CASE CompletionWaited
      BY <3>4, Zenon DEF CompletionWaited, To
    <3>5. CASE AcknowledgementWaited
      BY <3>5, Zenon DEF AcknowledgementWaited, To
    <3>6. CASE CheckResults
      BY <3>6, Zenon DEF CheckResults, To
    <3>7. CASE CompileEvidence
      BY <3>7, Zenon DEF CompileEvidence
    <3> QED BY <1>5, <3>1, <3>2, <3>3, <3>4, <3>5, <3>6, <3>7
  <2>3. step' = step \/ (step \in AllSent /\ step' \in AllSent)
    BY <2>2
  <2> QED BY <2>1, <2>3 DEF Passes, trackerVars, historyVars, netVars
<1>6. CASE UnplannedBreak
  BY <1>6 DEF UnplannedBreak, driverVars, DriverOnly, trackerVars, historyVars, Passes
<1>7. CASE NetworkReturns
  BY <1>7 DEF NetworkReturns, driverVars, DriverOnly, trackerVars, historyVars, Passes
<1> QED BY <1>1, <1>2, <1>3, <1>4, <1>5, <1>6, <1>7 DEF Next, SoakNext, ReplicaNext

\* Nobody starts or completes a job.
LEMMA JobsFrame ==
    ASSUME JobsOK, dedupe' = dedupe, starts' = starts, completions' = completions, drill' = drill,
           \A q \in Runs : /\ Sent(q)' <=> Sent(q)
                           /\ Uncertain(q) => Uncertain(q)',
           \A u \in Workers :
               /\ pc'[u] \in {"hold", "call", "complete", "ack"} => pc'[u] = pc[u] /\ job'[u] = job[u]
               /\ pc[u] \in {"call", "ack"} => pc'[u] = pc[u] /\ job'[u] = job[u],
           dedupe \subseteq Runs
    PROVE  JobsOK'
<1>1. \A r \in Runs : (Acking(r)' <=> Acking(r)) /\ (Running(r)' <=> Running(r))
  BY DEF Acking, Running
<1>2. \A u \in Workers :
          pc'[u] \in {"hold", "call", "complete", "ack"} => starts'[job'[u].run] > 0
  BY DEF JobsOK
<1>3. \A r \in dedupe' : completions'[r] = IF Acking(r)' THEN 1 ELSE 0
  BY <1>1 DEF JobsOK
<1>4. \A r \in Runs \ dedupe' :
          \/ completions'[r] = 1 /\ starts'[r] > 0
          \/ completions'[r] = 0 /\ starts'[r] = 0 /\ ~Sent(r)'
  BY DEF JobsOK
<1>5. \A r \in Runs : Sent(r)' \/ Uncertain(r)' \/ (r \notin dedupe' /\ starts'[r] = 0)
  BY DEF JobsOK
<1>6. drill' = "replica" =>
          \A r \in Runs : starts'[r] = completions'[r] + IF Running(r)' THEN 1 ELSE 0
  BY <1>1 DEF JobsOK
<1> QED BY <1>2, <1>3, <1>4, <1>5, <1>6 DEF JobsOK

\* A run that was never started enters the queue.
LEMMA JobsEnqueue ==
    ASSUME QueueInv, JobsOK, NEW r \in Runs, Enqueue(r), r \in dedupe \/ starts[r] = 0,
           UNCHANGED <<pc, job, starts, completions, drill>>,
           Sent(r)' \/ Uncertain(r)',
           \A q \in Runs \ {r} : (Sent(q)' <=> Sent(q)) /\ ~Uncertain(q)
    PROVE  JobsOK'
<1>1. \A q \in Runs : (Acking(q)' <=> Acking(q)) /\ (Running(q)' <=> Running(q))
  BY DEF Acking, Running
<1>2. dedupe' = dedupe \cup {r} /\ dedupe \subseteq Runs
  BY DEF Enqueue, QueueInv, QueueTypeOK
<1>3. r \notin dedupe => starts[r] = 0 /\ completions[r] = 0 /\ ~Acking(r)
  BY DEF JobsOK, Acking
<1>4. \A u \in Workers :
          pc'[u] \in {"hold", "call", "complete", "ack"} => starts'[job'[u].run] > 0
  BY DEF JobsOK
<1>5. \A q \in dedupe' : completions'[q] = IF Acking(q)' THEN 1 ELSE 0
  BY <1>1, <1>2, <1>3 DEF JobsOK
<1>6. \A q \in Runs \ dedupe' :
          \/ completions'[q] = 1 /\ starts'[q] > 0
          \/ completions'[q] = 0 /\ starts'[q] = 0 /\ ~Sent(q)'
  BY <1>2 DEF JobsOK
<1>7. \A q \in Runs : Sent(q)' \/ Uncertain(q)' \/ (q \notin dedupe' /\ starts'[q] = 0)
  BY <1>2 DEF JobsOK
<1>8. drill' = "replica" =>
          \A q \in Runs : starts'[q] = completions'[q] + IF Running(q)' THEN 1 ELSE 0
  BY <1>1 DEF JobsOK
<1> QED BY <1>4, <1>5, <1>6, <1>7, <1>8 DEF JobsOK

\* The victim's run is not in the batch, and the batch has no run twice.
LEMMA BatchIsNew ==
    ASSUME NEW n \in Nat, n < Len(Batch)
    PROVE  /\ n + 1 \in 1 .. Len(Batch) /\ Batch[n + 1] \in Runs \ {VictimRun}
           /\ \A i \in 1 .. n : Batch[i] # Batch[n + 1]
<1>1. Len(Batch) \in Nat /\ DOMAIN Batch = 1 .. Len(Batch)
  BY BatchAssumption
<1>2. n + 1 \in DOMAIN Batch /\ 1 .. n \subseteq DOMAIN Batch
  BY <1>1
<1>3. Batch[n + 1] \in Range(Batch)
  BY <1>2 DEF Range
<1>4. \A i \in 1 .. n : Batch[i] # Batch[n + 1]
  BY <1>2, BatchAssumption DEF IsInjective
<1> QED BY <1>1, <1>2, <1>3, <1>4, BatchAssumption

\* A worker cannot break or mend the network.
LEMMA WorkerNet ==
    ASSUME NEW w \in Workers, WorkerActs(w)
    PROVE  net' = net /\ breaks' = breaks /\ inflight' \subseteq inflight
<1> USE DEF netVars, AnswerLost, Refused
<1>1. CASE LeaseRunsOut(w) \/ Beat(w) \/ Scan(w) \/ BootBeat(w) \/ RecoverStep(w)
  BY <1>1 DEF LeaseRunsOut, Beat, Scan, BootBeat, RecoverStep
<1>2. CASE NothingToRecover(w) \/ RecoverLost(w) \/ MaintenanceFails(w)
  BY <1>2 DEF NothingToRecover, RecoverLost, MaintenanceFails
<1>3. CASE DequeuePop(w) \/ DequeueNothing(w) \/ QueueFails(w) \/ AcknowledgeJob(w)
  BY <1>3 DEF DequeuePop, DequeueNothing, QueueFails, AcknowledgeJob
<1>4. CASE \/ RecordStart(w) \/ RecordStartAgain(w) \/ CallProvider(w)
           \/ RecordCompletion(w) \/ RecordCompletionAgain(w) \/ ProcessEnds(w)
  BY <1>4 DEF RecordStart, RecordStartAgain, CallProvider, RecordCompletion,
     RecordCompletionAgain, ProcessEnds
<1> QED BY <1>1, <1>2, <1>3, <1>4 DEF WorkerActs

\* What the sending steps leave alone, and how far they get.
LEMMA SendEffect ==
    ASSUME SeedVictim \/ EnqueueFirst \/ SendBatch, verdict = "none"
    PROVE  /\ UNCHANGED <<drill, workerVars, processing, starts, completions, recovered, breaks>>
           /\ spoiled => spoiled'
           /\ UNCHANGED netVars \/ inflight # {} \/ ~Up
<1>1. UNCHANGED <<drill, workerVars, starts, completions, recovered>>
  BY DEF SeedVictim, EnqueueFirst, SendBatch, Send, SenderOnly, trackerVars
<1>2. processing' = processing
  BY DEF SeedVictim, EnqueueFirst, SendBatch, Send, EnqueueAnswered, EnqueueRaises, Enqueue, queueVars
<1>3. spoiled => spoiled'
  BY Zenon DEF SeedVictim, EnqueueFirst, SendBatch, Send, EnqueueAnswered, EnqueueRaises
<1>4. breaks' = breaks /\ (UNCHANGED netVars \/ inflight # {} \/ ~Up)
  BY DEF SeedVictim, EnqueueFirst, SendBatch, Send, EnqueueAnswered, EnqueueRaises, AnswerLost,
     Refused, netVars
<1> QED BY <1>1, <1>2, <1>3, <1>4

\* The first job of a drill.
SendsFirst ==
    \E next \in {"claim", "abandon"} :
        /\ step \in {"seed", "first"} /\ sent' = sent
        /\ EnqueueAnswered(VictimRun, next)

LEMMA FirstEffect ==
    ASSUME SeedVictim \/ EnqueueFirst
    PROVE  SendsFirst /\ (drill = "replica" => step = "first")
                      /\ (drill = "soak" => step = "seed")
  BY DEF SeedVictim, EnqueueFirst, SendsFirst

LEMMA DriverStep ==
    ASSUME DrillInv, DriverOK, Next
    PROVE  DriverOK'
<1> USE DEF AllSent, Unclaimed, Faulting
<1>1. QueueInv /\ DrillTypes /\ VictimOK /\ VerdictOK /\ Victim \in Workers
  BY DrillAssumption DEF DrillInv
<1>2. /\ breaks \in Nat /\ sent \in Nat /\ sent <= Len(Batch) /\ Len(Batch) \in Nat
      /\ uncertain => step \in {"send", "ended"} /\ sent < Len(Batch)
      /\ step \in AllSent => sent = Len(Batch)
  BY BatchAssumption DEF DriverOK
<1>3. CASE verdict = "none" /\ WorkerNext /\ UNCHANGED driverVars
  <2>1. PICK w \in Workers : WorkerActs(w)
    BY <1>3 DEF WorkerNext, WorkerActs
  <2>2. UNCHANGED <<step, sent, uncertain, breaks, drill>>
    BY <1>1, <1>3, <2>1, WorkerNet, OthersKeep DEF driverVars
  <2>3. \A u \in Workers : pc[u] \in {"off", "dead"} => pc'[u] = pc[u]
    BY <1>1, <2>1, WorkerAdvances, OthersKeep DEF Advances
  <2>4. ASSUME drill = "replica", step \in Unclaimed PROVE processing'[Victim] = <<>>
    <3>1. pc[w] = "off" /\ processing[Victim] = <<>>
      BY <2>1, <2>4 DEF DriverOK
    <3> QED BY <1>1, <2>1, <3>1, ListsOfOthers
  <2> QED BY <1>1, <1>2, <2>2, <2>3, <2>4 DEF DriverOK
<1>4. CASE Passes
  <2>1. /\ drill' = drill /\ pc' = pc /\ processing' = processing
        /\ sent' = sent /\ uncertain' = uncertain
        /\ breaks' \in {breaks, breaks + 1}
    BY <1>4 DEF Passes, queueVars, workerVars
  <2>2. uncertain => step' \in {"send", "ended"}
    BY <1>2, <1>4 DEF Passes
  <2>3. step' \in AllSent => sent = Len(Batch)
    BY <1>2, <1>4 DEF Passes
  <2>4. step' \in Unclaimed \cup {"replicas"} => step' = step
    BY <1>4 DEF Passes
  <2> QED BY <1>2, <2>1, <2>2, <2>3, <2>4 DEF DriverOK
<1>5. CASE verdict = "none" /\ (SeedVictim \/ EnqueueFirst)
  <2>1. /\ UNCHANGED <<drill, workerVars, processing, breaks>> /\ SendsFirst
        /\ drill = "replica" => step = "first"
        /\ drill = "soak" => step = "seed"
    BY <1>5, SendEffect, FirstEffect
  <2>2. sent' = sent /\ (uncertain' => uncertain) /\ step \in {"seed", "first"}
    BY <2>1 DEF SendsFirst, EnqueueAnswered
  <2>3. step' = step \/ step' \in {"claim", "abandon"}
    BY <2>1 DEF SendsFirst, EnqueueAnswered, To
  <2>4. ~uncertain'
    BY <1>2, <2>2
  <2> QED BY <1>2, <2>1, <2>2, <2>3, <2>4 DEF DriverOK, workerVars
<1>6. CASE verdict = "none" /\ SendBatch
  <2>1. /\ UNCHANGED <<drill, workerVars, processing, breaks>>
        /\ step = "send" /\ sent < Len(Batch) /\ step' = step
        /\ sent' = IF uncertain' \/ verdict' # "none" THEN sent ELSE sent + 1
    BY <1>6, SendEffect DEF SendBatch, Send, EnqueueAnswered, EnqueueRaises, To
  <2>2. sent' \in Nat /\ sent' <= Len(Batch) /\ (uncertain' => sent' < Len(Batch))
    BY <1>2, <2>1
  <2> QED BY <1>2, <2>1, <2>2 DEF DriverOK, workerVars
<1>7. CASE verdict = "none" /\ (AbandonedBeats \/ AbandonedClaims)
  <2>1. /\ UNCHANGED <<drill, workerVars, breaks, sent, uncertain>>
    BY <1>7 DEF AbandonedBeats, AbandonedClaims, DriverOnly, netVars
  <2>2. \/ step = "abandon" /\ step' = "abandoned" /\ processing' = processing
        \/ step = "abandoned" /\ step' = "replicas"
    BY <1>7 DEF AbandonedBeats, AbandonedClaims, Heartbeat, To
  <2> QED BY <1>2, <2>1, <2>2 DEF DriverOK, workerVars
<1>8. CASE verdict = "none" /\ StartReplicas
  <2>1. /\ UNCHANGED <<drill, breaks, sent, uncertain>> /\ step = "replicas" /\ step' = "send"
        /\ pc'[Victim] = "dead"
    BY <1>1, <1>8 DEF StartReplicas, netVars, To
  <2> QED BY <1>2, <2>1 DEF DriverOK
<1>9. CASE verdict = "none" /\ (KillVictim \/ \E w \in Workers : StartWorker(w))
  <2>1. /\ UNCHANGED <<drill, breaks, sent, uncertain>> /\ drill = "soak"
        /\ step \in {"claim", "workers"} /\ step' \in {"workers", "recovery"}
    BY <1>9 DEF KillVictim, StartWorker, Waiting, To, netVars
  <2> QED BY <1>2, <2>1 DEF DriverOK
<1>10. CASE EndReplicaDrill
  <2>1. /\ UNCHANGED <<drill, breaks, sent, uncertain>> /\ step' = "ended"
        /\ pc'[Victim] = "dead" /\ drill = "replica"
    BY <1>1, <1>10 DEF EndReplicaDrill, netVars, To
  <2> QED BY <1>2, <2>1 DEF DriverOK
<1> QED BY <1>3, <1>4, <1>5, <1>6, <1>7, <1>8, <1>9, <1>10, DriverKinds

\* What spoils a drill cannot be undone, and one that has ended does not resume.
LEMMA Lasts ==
    ASSUME DrillInv, Next
    PROVE  (spoiled => spoiled') /\ (step = "ended" => step' = "ended")
<1> USE DEF AllSent, Faulting
<1>1. CASE verdict = "none" /\ WorkerNext /\ UNCHANGED driverVars
  <2>1. PICK w \in Workers : WorkerActs(w)
    BY <1>1 DEF WorkerNext, WorkerActs
  <2> QED BY <1>1, <2>1, WorkerAdvances DEF DrillInv, Advances, driverVars
<1>2. CASE Passes
  BY <1>2 DEF Passes
<1>3. CASE verdict = "none" /\ (SeedVictim \/ EnqueueFirst \/ SendBatch)
  <2>1. spoiled => spoiled'
    BY <1>3, SendEffect
  <2>2. step # "ended"
    BY <1>3 DEF SeedVictim, EnqueueFirst, SendBatch
  <2> QED BY <2>1, <2>2
<1>4. CASE verdict = "none" /\ (AbandonedBeats \/ AbandonedClaims)
  BY <1>4 DEF AbandonedBeats, AbandonedClaims, DriverOnly, historyVars
<1>5. CASE verdict = "none" /\ (StartReplicas \/ KillVictim \/ \E w \in Workers : StartWorker(w))
  BY <1>5 DEF StartReplicas, KillVictim, StartWorker, Waiting, historyVars
<1>6. CASE EndReplicaDrill
  BY <1>6 DEF EndReplicaDrill, historyVars, To
<1> QED BY <1>1, <1>2, <1>3, <1>4, <1>5, <1>6, DriverKinds

\* The lists and the hands stay as they are.
LEMMA HandsFrame ==
    ASSUME HandsOK, processing' = processing, pc' = pc, job' = job
    PROVE  HandsOK'
  BY DEF HandsOK, Busy, Alive

\* The victim's run is sent for the first time.
LEMMA LifeFirst ==
    ASSUME QueueInv, DriverOK, JobsOK, SendsFirst,
           UNCHANGED <<pc, job, starts, completions, drill>>
    PROVE  JobsOK' /\ verdict' = verdict
<1>1. VictimRun \in Runs /\ sent \in Nat /\ sent <= Len(Batch) /\ Len(Batch) \in Nat
  BY DrillAssumption, BatchAssumption DEF DriverOK
<1>2. PICK next \in {"claim", "abandon"} : /\ step \in {"seed", "first"} /\ sent' = sent
                                           /\ EnqueueAnswered(VictimRun, next)
  BY DEF SendsFirst
<1>3. \A i \in 1 .. sent : Batch[i] # VictimRun
  <2> SUFFICES ASSUME NEW i \in 1 .. sent PROVE Batch[i] # VictimRun
    OBVIOUS
  <2>1. i \in DOMAIN Batch
    BY <1>1, BatchAssumption
  <2> QED BY <2>1, BatchAssumption DEF Range
<1>4. ~uncertain /\ ~Sent(VictimRun)
  BY <1>2, <1>3 DEF DriverOK, Sent
<1>5. VictimRun \notin dedupe /\ starts[VictimRun] = 0
  BY <1>1, <1>4 DEF JobsOK, Uncertain
<1>6. Enqueue(VictimRun) /\ step' = next /\ verdict' = verdict
  BY <1>2, <1>5 DEF EnqueueAnswered, To, KeepVerdict
<1>7. Sent(VictimRun)'
  BY <1>2, <1>6 DEF Sent
<1>8. \A q \in Runs \ {VictimRun} : (Sent(q)' <=> Sent(q)) /\ ~Uncertain(q)
  BY <1>2, <1>4 DEF Sent, Uncertain
<1> QED BY <1>1, <1>5, <1>6, <1>7, <1>8, JobsEnqueue

\* The next job of the batch is sent, or sent again after an error.
LEMMA LifeBatch ==
    ASSUME QueueInv, DrillTypes, DriverOK, JobsOK, SendBatch, verdict = "none", ~spoiled',
           UNCHANGED <<pc, job, starts, completions, drill>>
    PROVE  /\ JobsOK'
           /\ \/ verdict' = "none"
              \/ verdict' = "unreachable" /\ drill = "replica" /\ (inflight # {} \/ ~Up)
<1>1. /\ sent \in Nat /\ sent < Len(Batch) /\ step = "send"
      /\ Send(Batch[sent + 1], "send")
      /\ sent' = IF uncertain' \/ verdict' # "none" THEN sent ELSE sent + 1
  BY DEF SendBatch, DriverOK
<1>2. PICK r \in Runs : r = Batch[sent + 1]
  BY <1>1, BatchIsNew
<1>3. ~Sent(r)
  BY <1>1, <1>2, BatchIsNew DEF Sent
<1>4. ~uncertain => r \notin dedupe /\ starts[r] = 0
  BY <1>3 DEF JobsOK, Uncertain
<1>5. starts[r] \in Nat
  BY DEF DrillTypes
<1>6. \A q \in Runs \ {r} : ~Uncertain(q)
  BY <1>2 DEF Uncertain
<1>7. CASE EnqueueAnswered(r, "send")
  <2>1. Enqueue(r) /\ step' = "send" /\ ~uncertain' /\ verdict' = "none"
    BY <1>4, <1>7 DEF EnqueueAnswered, To, KeepVerdict
  <2>2. ~SentAgain(r)
    BY <1>7, Zenon DEF EnqueueAnswered
  <2>3. r \in dedupe \/ starts[r] = 0
    BY <1>4, <1>5, <2>2 DEF SentAgain
  <2>4. sent' = sent + 1
    BY <1>1, <2>1
  <2>5. Sent(r)'
    <3>1. sent + 1 \in 1 .. (sent + 1)
      BY <1>1
    <3> QED BY <1>2, <2>4, <3>1 DEF Sent
  <2>6. \A q \in Runs \ {r} : Sent(q)' <=> Sent(q)
    <3>1. \A i \in 1 .. (sent + 1) : i \in 1 .. sent \/ i = sent + 1
      BY <1>1
    <3>2. 1 .. sent \subseteq 1 .. (sent + 1)
      BY <1>1
    <3> QED BY <1>1, <1>2, <2>1, <2>4, <3>1, <3>2 DEF Sent
  <2> QED BY <1>6, <2>1, <2>3, <2>5, <2>6, JobsEnqueue
<1>8. CASE EnqueueRaises(r)
  <2>1. uncertain' /\ step' = step /\ sent' = sent
    BY <1>1, <1>8 DEF EnqueueRaises
  <2>7. inflight # {} \/ ~Up
    BY <1>8 DEF EnqueueRaises, AnswerLost, Refused
  <2>8. verdict' = "none" \/ (verdict' = "unreachable" /\ drill = "replica")
    BY <1>8 DEF EnqueueRaises, KeepVerdict, Fail
  <2>2. \A q \in Runs : Sent(q)' <=> Sent(q)
    BY <2>1 DEF Sent
  <2>3. Uncertain(r)'
    BY <1>2, <2>1 DEF Uncertain
  <2>4. CASE Enqueue(r) /\ ~SentAgain(r)
    <3>1. r \in dedupe \/ starts[r] = 0
      BY <1>4, <1>5, <2>4 DEF SentAgain
    <3> QED BY <1>6, <2>1, <2>2, <2>3, <2>4, <2>7, <2>8, <3>1, JobsEnqueue
  <2>5. CASE UNCHANGED queueVars
    <3>1. dedupe' = dedupe /\ dedupe \subseteq Runs
      BY <2>5 DEF queueVars, QueueInv, QueueTypeOK
    <3>2. \A q \in Runs : Uncertain(q) => Uncertain(q)'
      BY <2>1 DEF Uncertain
    <3> QED BY <2>1, <2>2, <2>7, <2>8, <3>1, <3>2, JobsFrame
  <2>6. (Enqueue(r) /\ ~SentAgain(r)) \/ UNCHANGED queueVars
    BY <1>8, Zenon DEF EnqueueRaises
  <2> QED BY <2>4, <2>5, <2>6, <2>7, <2>8
<1> QED BY <1>1, <1>2, <1>7, <1>8 DEF Send

LEMMA LifeStep ==
    ASSUME DrillInv, DriverOK, LifeOK, Next
    PROVE  LifeOK'
<1> USE DEF AllSent, Faulting, Unclaimed
<1>1. SUFFICES ASSUME ~spoiled', step' # "ended" PROVE HandsOK' /\ JobsOK'
  BY DEF LifeOK
<1>2. /\ QueueInv /\ DrillTypes /\ VictimOK /\ HandsOK /\ JobsOK
      /\ Victim \in Workers /\ dedupe \subseteq Runs
      /\ pending \in Seq(Envelope) /\ processing \in [Workers -> Seq(Envelope)]
  BY <1>1, Lasts, DrillAssumption DEF LifeOK, DrillInv, QueueInv, QueueTypeOK
<1>3. QueueInv' /\ CallsOK'
  BY QueueStep, CallsStep
<1>4. CASE verdict = "none" /\ WorkerNext /\ UNCHANGED driverVars
  <2>1. PICK w \in Workers : WorkerActs(w)
    BY <1>4 DEF WorkerNext, WorkerActs
  <2>2. UNCHANGED <<step, sent, uncertain>>
    BY <1>4 DEF driverVars
  <2> QED BY <1>1, <1>2, <1>3, <2>1, <2>2, HandsWorker, JobsWorker
<1>5. CASE Passes
  <2>1. /\ pc' = pc /\ job' = job /\ processing' = processing /\ dedupe' = dedupe
        /\ starts' = starts /\ completions' = completions /\ drill' = drill
        /\ sent' = sent /\ uncertain' = uncertain
    BY <1>5 DEF Passes, queueVars, workerVars
  <2>2. step' \in {"seed", "first"} <=> step \in {"seed", "first"}
    BY <1>5 DEF Passes
  <2>3. \A q \in Runs : (Sent(q)' <=> Sent(q)) /\ (Uncertain(q) => Uncertain(q)')
    BY <2>1, <2>2 DEF Sent, Uncertain
  <2> QED BY <1>2, <2>1, <2>3, HandsFrame, JobsFrame
<1>6. CASE verdict = "none" /\ (SeedVictim \/ EnqueueFirst \/ SendBatch)
  <2>1. UNCHANGED <<pc, job, processing, starts, completions, drill>>
    BY <1>6, SendEffect DEF workerVars
  <2>2. HandsOK'
    BY <1>2, <2>1, HandsFrame
  <2>3. CASE SeedVictim \/ EnqueueFirst
    BY <1>2, <2>1, <2>2, <2>3, FirstEffect, LifeFirst
  <2>4. CASE SendBatch
    BY <1>1, <1>2, <1>6, <2>1, <2>2, <2>4, LifeBatch
  <2> QED BY <1>6, <2>3, <2>4
<1>7. CASE verdict = "none" /\ (AbandonedBeats \/ AbandonedClaims)
  <2>1. /\ pc' = pc /\ job' = job /\ starts' = starts /\ completions' = completions
        /\ drill' = drill /\ drill = "replica" /\ sent' = sent /\ uncertain' = uncertain
        /\ step \in {"abandon", "abandoned"} /\ step' \in {"abandoned", "replicas"}
    BY <1>7 DEF AbandonedBeats, AbandonedClaims, DriverOnly, workerVars, trackerVars, To
  <2>2. dedupe' = dedupe
    BY <1>7 DEF AbandonedBeats, AbandonedClaims, Heartbeat, Claim
  <2>3. \A q \in Runs : (Sent(q)' <=> Sent(q)) /\ (Uncertain(q) => Uncertain(q)')
    BY <2>1 DEF Sent, Uncertain
  <2>4. JobsOK'
    BY <1>2, <2>1, <2>2, <2>3, JobsFrame
  <2>5. CASE AbandonedBeats
    <3>1. processing' = processing
      BY <2>5 DEF AbandonedBeats, Heartbeat
    <3> QED BY <1>2, <2>1, <2>4, <3>1, HandsFrame
  <2>6. CASE AbandonedClaims
    <3>1. /\ processing[Victim] = <<>> /\ pc[Victim] = "off"
          /\ pending # <<>>
          /\ processing' = [processing EXCEPT ![Victim] = Cons(Last(pending), processing[Victim])]
      BY <1>2, <2>1, <2>6 DEF AbandonedClaims, Claim, DriverOK
    <3>2. /\ processing'[Victim] = Cons(Last(pending), <<>>)
          /\ \A u \in Workers \ {Victim} : processing'[u] = processing[u]
      BY <1>2, <3>1
    <3>3. Len(processing'[Victim]) <= 1
      BY <3>2 DEF Cons
    <3>4. \A u \in Workers : (Busy(u)' <=> Busy(u)) /\ (Alive(u)' <=> Alive(u))
      BY <2>1 DEF Busy, Alive
    <3>5. ASSUME NEW u \in Workers
          PROVE  /\ Len(processing'[u]) <= 1
                 /\ Busy(u)' => job'[u] \in ToSet(processing'[u])
                 /\ processing'[u] # <<>> => Busy(u)' \/ (u = Victim /\ ~Alive(u)')
      <4>1. CASE u = Victim
        <5>1. Len(processing'[u]) <= 1
          BY <3>3, <4>1, Zenon
        <5>2. ~Busy(u)' /\ ~Alive(u)'
          BY <2>1, <3>1, <4>1 DEF Busy, Alive
        <5> QED BY <4>1, <5>1, <5>2, Zenon
      <4>2. CASE u # Victim
        BY <1>2, <2>1, <3>2, <3>4, <4>2 DEF HandsOK
      <4> QED BY <4>1, <4>2
    <3>6. HandsOK'
      BY <3>5 DEF HandsOK
    <3> QED BY <2>4, <3>6
  <2> QED BY <1>7, <2>5, <2>6
<1>8. CASE verdict = "none" /\ StartReplicas
  <2>1. /\ pc' = [w \in Workers |-> IF w = Victim THEN "dead" ELSE "boot"]
        /\ job' = job /\ processing' = processing /\ dedupe' = dedupe
        /\ starts' = starts /\ completions' = completions /\ drill' = drill /\ drill = "replica"
        /\ sent' = sent /\ uncertain' = uncertain /\ step = "replicas" /\ step' = "send"
    BY <1>8 DEF StartReplicas, queueVars, trackerVars, To
  <2>2. \A u \in Workers : pc[u] = "off"
    BY <2>1 DEF DriverOK
  <2>3. \A q \in Runs : (Sent(q)' <=> Sent(q)) /\ (Uncertain(q) => Uncertain(q)')
    BY <2>1 DEF Sent, Uncertain
  <2>4. JobsOK'
    BY <1>2, <2>1, <2>2, <2>3, JobsFrame
  <2>5. HandsOK'
    BY <1>2, <2>1, <2>2 DEF HandsOK, Busy, Alive
  <2> QED BY <2>4, <2>5
<1>9. CASE verdict = "none" /\ KillVictim
  <2>1. /\ pc' = [pc EXCEPT ![Victim] = "dead"] /\ job' = [job EXCEPT ![Victim] = NoJob]
        /\ processing' = processing /\ dedupe' = dedupe
        /\ starts' = starts /\ completions' = completions /\ drill' = drill
        /\ sent' = sent /\ uncertain' = uncertain /\ step = "claim" /\ step' = "workers"
        /\ pc[Victim] = "hold"
    BY <1>9 DEF KillVictim, Waiting, Goto, AbortScan, trackerVars, To
  <2>2. /\ pc'[Victim] = "dead"
        /\ \A u \in Workers \ {Victim} : pc'[u] = pc[u] /\ job'[u] = job[u]
    BY <1>2, <2>1 DEF DrillTypes
  <2>3. \A q \in Runs : (Sent(q)' <=> Sent(q)) /\ (Uncertain(q) => Uncertain(q)')
    BY <2>1 DEF Sent, Uncertain
  <2>4. JobsOK'
    BY <1>2, <2>1, <2>2, <2>3, JobsFrame
  <2>5. HandsOK'
    BY <1>2, <2>1, <2>2 DEF HandsOK, Busy, Alive
  <2> QED BY <2>4, <2>5
<1>10. CASE verdict = "none" /\ \E w \in Workers : StartWorker(w)
  <2>1. PICK w \in Workers : StartWorker(w)
    BY <1>10
  <2>2. /\ pc' = [pc EXCEPT ![w] = "boot"] /\ job' = job
        /\ processing' = processing /\ dedupe' = dedupe
        /\ starts' = starts /\ completions' = completions /\ drill' = drill /\ drill = "soak"
        /\ sent' = sent /\ uncertain' = uncertain
        /\ step = "workers" /\ step' \in {"workers", "recovery"} /\ pc[w] = "off"
    BY <2>1 DEF StartWorker, Waiting, Goto, queueVars, trackerVars, To
  <2>3. /\ pc'[w] = "boot" /\ \A u \in Workers \ {w} : pc'[u] = pc[u]
    BY <1>2, <2>2 DEF DrillTypes
  <2>4. \A q \in Runs : (Sent(q)' <=> Sent(q)) /\ (Uncertain(q) => Uncertain(q)')
    BY <2>2 DEF Sent, Uncertain
  <2>5. JobsOK'
    BY <1>2, <2>2, <2>3, <2>4, JobsFrame
  <2>6. processing[w] = <<>>
    BY <1>2, <2>2 DEF VictimOK
  <2>7. HandsOK'
    BY <1>2, <2>2, <2>3, <2>6 DEF HandsOK, Busy, Alive
  <2> QED BY <2>5, <2>7
<1>11. ~EndReplicaDrill
  BY <1>1 DEF EndReplicaDrill, To
<1> QED BY <1>4, <1>5, <1>6, <1>7, <1>8, <1>9, <1>10, <1>11, DriverKinds

\* A worker's step, seen from the abandoned job of the replica drill.
LEMMA RoundsWorker ==
    ASSUME QueueInv, DrillTypes, DriverOK, HandsOK, RoundsOK, drill = "replica", breaks = 0,
           step # "ended", NEW w \in Workers, WorkerActs(w), step' = step, ~spoiled, ~spoiled'
    PROVE  RoundsOK'
<1> USE DEF Unclaimed
<1>1. /\ drill' = drill /\ DOMAIN tally' = Workers
      /\ \A u \in Workers \ {w} : tally'[u] = tally[u]
  BY OthersKeep
<1>2. Victim \in Workers /\ processing \in [Workers -> Seq(Envelope)] /\ recovered \in Nat
  BY DrillAssumption DEF QueueInv, QueueTypeOK, DrillTypes
<1>3. /\ Up /\ inflight = {}
      /\ \A u \in Workers : tally[u] \in {0, 1}
      /\ step \in Unclaimed \/ processing[Victim] # <<>>
           => recovered = 0 /\ \A u \in Workers : tally[u] = 0
      /\ step \notin Unclaimed /\ processing[Victim] = <<>>
           => \/ recovered = 1 /\ \A u \in Workers : tally[u] = 0
              \/ \E x \in Workers :
                  recovered = 0 /\ tally[x] = 1 /\ \A u \in Workers \ {x} : tally[u] = 0
  BY DEF RoundsOK
<1>4. Up' /\ inflight' = {} /\ breaks' = 0
  BY <1>3, WorkerNet DEF Up
<1>5. CASE /\ processing'[Victim] = processing[Victim] /\ recovered' = recovered
           /\ tally'[w] = tally[w]
  <2>1. \A u \in Workers : tally'[u] = tally[u]
    BY <1>1, <1>5
  <2> QED BY <1>1, <1>3, <1>4, <1>5, <2>1 DEF RoundsOK
<1>6. CASE RecoverStep(w)
  <2>1. PICK v \in Workers, n \in Nat : Recovers(w, v, n)
    BY <1>6, RecoverEffect
  <2>2. tally[w] \in {0, 1} /\ Alive(w) /\ ~TakenOver(v) /\ Recover(w, v)
    BY <1>3, <2>1 DEF Recovers
  <2>3. \/ /\ tally'[w] = 0 /\ recovered' = recovered + n
        \/ /\ tally'[w] = n /\ recovered' = recovered
    BY <2>1 DEF Recovers, DrillTypes
  <2>4. CASE v \in leased \/ processing[v] = <<>>
    <3>1. n = tally[w]
      BY <2>1, <2>2, <2>4 DEF Recovers
    <3>2. processing'[Victim] = processing[Victim]
      BY <1>2, <2>2, <2>4 DEF Recover
    <3>3. CASE tally[w] = 0 \/ recovered' = recovered
      BY <1>2, <1>5, <2>3, <3>1, <3>2, <3>3
    <3>4. CASE tally[w] = 1 /\ tally'[w] = 0 /\ recovered' = recovered + 1
      <4>1. step \notin Unclaimed /\ processing[Victim] = <<>>
        BY <1>3, <3>4
      <4>2. recovered = 0 /\ \A u \in Workers \ {w} : tally[u] = 0
        BY <1>3, <3>4, <4>1
      <4>3. recovered' = 1 /\ \A u \in Workers : tally'[u] = 0
        BY <1>1, <3>4, <4>2
      <4> QED BY <1>1, <1>4, <3>2, <4>1, <4>3 DEF RoundsOK
    <3> QED BY <2>2, <2>3, <3>1, <3>3, <3>4
  <2>5. CASE v \notin leased /\ processing[v] # <<>>
    <3>1. v = Victim
      BY <2>2, <2>5 DEF TakenOver, HandsOK, Busy, Alive
    <3>2. step \notin Unclaimed
      BY <2>2 DEF DriverOK, Alive
    <3>3. recovered = 0 /\ \A u \in Workers : tally[u] = 0
      BY <1>3, <2>5, <3>1
    <3>4. Len(processing[v]) = 1
      <4>1. processing[v] \in Seq(Envelope)
        BY <1>2
      <4>2. Len(processing[v]) \in Nat /\ Len(processing[v]) # 0
        BY <2>5, <4>1, EmptySeq, LenProperties
      <4>3. Len(processing[v]) <= 1
        BY DEF HandsOK
      <4>4. \A k \in Nat : k # 0 /\ k <= 1 => k = 1
        OBVIOUS
      <4> HIDE DEF Unclaimed
      <4> QED BY <4>2, <4>3, <4>4, Zenon
    <3>5. n = 1
      BY <2>1, <2>5, <3>3, <3>4 DEF Recovers
    <3>6. processing'[Victim] = <<>>
      BY <1>2, <2>2, <2>5, <3>1 DEF Recover
    <3>7. CASE tally'[w] = 0 /\ recovered' = 1
      <4>1. \A u \in Workers : tally'[u] = 0
        BY <1>1, <3>3, <3>7
      <4> QED BY <1>1, <1>4, <3>2, <3>6, <3>7, <4>1 DEF RoundsOK
    <3>8. CASE tally'[w] = 1 /\ recovered' = 0
      <4>1. \A u \in Workers \ {w} : tally'[u] = 0
        BY <1>1, <3>3
      <4>2. \A u \in Workers : tally'[u] \in {0, 1}
        BY <3>8, <4>1
      <4> QED BY <1>1, <1>4, <3>2, <3>6, <3>8, <4>1, <4>2 DEF RoundsOK
    <3> QED BY <2>3, <3>3, <3>5, <3>7, <3>8
  <2> QED BY <2>4, <2>5
<1>7. CASE ~RecoverStep(w)
  <2>1. ~RecoverLost(w) /\ ~MaintenanceFails(w)
    BY <1>3 DEF RecoverLost, MaintenanceFails, AnswerLost, Refused, Raised
  <2>2. CASE LeaseRunsOut(w) \/ Beat(w) \/ Scan(w) \/ BootBeat(w) \/ NothingToRecover(w)
    BY <1>5, <2>2 DEF LeaseRunsOut, Beat, Scan, BootBeat, NothingToRecover, LeaseExpires, Heartbeat,
       ScanWorkers, queueVars, workerVars, trackerVars
  <2>3. CASE DequeuePop(w) \/ QueueFails(w) \/ AcknowledgeJob(w)
    <3>1. w # Victim
      BY <2>3 DEF DequeuePop, QueueFails, AcknowledgeJob, DriverOK
    <3>2. tally' = tally /\ recovered' = recovered
      BY <2>3 DEF DequeuePop, QueueFails, AcknowledgeJob, MainOnly
    <3>3. processing' = processing \/ \E x : processing' = [processing EXCEPT ![w] = x]
      BY <2>3 DEF DequeuePop, QueueFails, AcknowledgeJob, Claim, Acknowledge, queueVars
    <3>4. processing'[Victim] = processing[Victim]
      BY <1>2, <3>1, <3>3
    <3> QED BY <1>5, <3>2, <3>4
  <2>4. CASE \/ DequeueNothing(w) \/ RecordStart(w) \/ RecordStartAgain(w) \/ CallProvider(w)
             \/ RecordCompletion(w) \/ RecordCompletionAgain(w) \/ ProcessEnds(w)
    BY <1>5, <2>4 DEF DequeueNothing, RecordStart, RecordStartAgain, CallProvider,
       RecordCompletion, RecordCompletionAgain, ProcessEnds, PipelineOnly, MainOnly, queueVars
  <2> QED BY <1>7, <2>1, <2>2, <2>3, <2>4 DEF WorkerActs
<1> QED BY <1>6, <1>7

LEMMA RoundsStep ==
    ASSUME DrillInv, DriverOK, LifeOK, RoundsOK, Next
    PROVE  RoundsOK'
<1> USE DEF AllSent, Faulting, Unclaimed
<1>1. SUFFICES ASSUME drill' = "replica", breaks' = 0, ~spoiled', step' # "ended" PROVE RoundsOK'
  BY DEF RoundsOK
<1>2. /\ QueueInv /\ DrillTypes /\ breaks \in Nat /\ ~spoiled /\ step # "ended" /\ HandsOK
      /\ Victim \in Workers /\ processing \in [Workers -> Seq(Envelope)]
  BY <1>1, Lasts, DrillAssumption DEF LifeOK, DriverOK, DrillInv, QueueInv, QueueTypeOK
<1>3. ASSUME drill = "replica", breaks = 0
      PROVE  /\ Up /\ inflight = {}
             /\ \A u \in Workers : tally[u] \in {0, 1}
             /\ step \in Unclaimed \/ processing[Victim] # <<>>
                  => recovered = 0 /\ \A u \in Workers : tally[u] = 0
  BY <1>2, <1>3 DEF RoundsOK
<1>4. ASSUME UNCHANGED <<drill, breaks, net, inflight, tally, recovered, processing>>,
             step' \in Unclaimed <=> step \in Unclaimed
      PROVE  RoundsOK'
  BY <1>1, <1>2, <1>4 DEF RoundsOK, Up
<1>5. CASE verdict = "none" /\ WorkerNext /\ UNCHANGED driverVars
  <2>1. PICK w \in Workers : WorkerActs(w)
    BY <1>5 DEF WorkerNext, WorkerActs
  <2>2. drill = "replica" /\ breaks = 0 /\ step' = step
    BY <1>1, <1>2, <1>5, <2>1, WorkerNet, OthersKeep DEF driverVars
  <2> QED BY <1>1, <1>2, <2>1, <2>2, RoundsWorker
<1>6. CASE Passes
  <2>1. /\ drill' = drill /\ tally' = tally /\ recovered' = recovered /\ processing' = processing
    BY <1>6 DEF Passes, queueVars, workerVars
  <2>2. breaks = 0 /\ breaks' = breaks
    BY <1>1, <1>2, <1>6 DEF Passes
  <2>3. net' = net /\ inflight' = inflight
    BY <1>1, <1>2, <1>3, <1>6, <2>1, <2>2 DEF Passes, netVars
  <2>4. step' \in Unclaimed <=> step \in Unclaimed
    BY <1>6 DEF Passes
  <2> QED BY <1>4, <2>1, <2>2, <2>3, <2>4
<1>7. CASE verdict = "none" /\ (SeedVictim \/ EnqueueFirst \/ SendBatch)
  <2>1. /\ UNCHANGED <<drill, breaks, tally, recovered, processing>>
        /\ UNCHANGED netVars \/ inflight # {} \/ ~Up
    BY <1>7, SendEffect DEF workerVars
  <2>2. net' = net /\ inflight' = inflight
    BY <1>1, <1>3, <2>1 DEF netVars
  <2>3. step' \in Unclaimed <=> step \in Unclaimed
    <3>1. CASE SeedVictim
      BY <1>1, <2>1, <3>1 DEF SeedVictim
    <3>2. CASE EnqueueFirst
      BY <3>2 DEF EnqueueFirst, EnqueueAnswered, To
    <3>3. CASE SendBatch
      BY <3>3 DEF SendBatch, Send, EnqueueAnswered, EnqueueRaises, To
    <3> QED BY <1>7, <3>1, <3>2, <3>3
  <2> QED BY <1>4, <2>1, <2>2, <2>3
<1>8. CASE verdict = "none" /\ AbandonedBeats
  BY <1>4, <1>8 DEF AbandonedBeats, Heartbeat, DriverOnly, workerVars, trackerVars, netVars, To
<1>9. CASE verdict = "none" /\ AbandonedClaims
  <2>1. /\ UNCHANGED <<drill, breaks, net, inflight, tally, recovered>>
        /\ step = "abandoned" /\ step' = "replicas"
        /\ processing' = [processing EXCEPT ![Victim] = Cons(Last(pending), processing[Victim])]
    BY <1>9 DEF AbandonedClaims, Claim, DriverOnly, workerVars, trackerVars, netVars, To
  <2>2. processing'[Victim] # <<>>
    <3>1. processing'[Victim] = <<Last(pending)>> \o processing[Victim]
      BY <1>2, <2>1 DEF Cons
    <3>2. processing[Victim] = <<>>
      BY <1>1, <2>1 DEF DriverOK
    <3>3. Len(processing'[Victim]) = 1
      BY <3>1, <3>2
    <3>4. Len(<<>>) = 0
      OBVIOUS
    <3> QED BY <3>3, <3>4
  <2> QED BY <1>1, <1>3, <2>1, <2>2 DEF RoundsOK, Up
<1>10. CASE verdict = "none" /\ StartReplicas
  BY <1>4, <1>10 DEF StartReplicas, queueVars, netVars, trackerVars, To
<1>11. ~KillVictim /\ ~\E w \in Workers : StartWorker(w)
  BY <1>1 DEF KillVictim, StartWorker, Waiting
<1>12. ~EndReplicaDrill
  BY <1>1 DEF EndReplicaDrill, To
<1> QED BY <1>5, <1>6, <1>7, <1>8, <1>9, <1>10, <1>11, <1>12, DriverKinds

\* When nothing moves any more there is no job left.
LEMMA StuckIsDone ==
    ASSUME QueueInv, HandsOK, Stuck
    PROVE  dedupe = {}
<1>1. pending = <<>> /\ \A w \in Workers : processing[w] = <<>>
  BY DEF Stuck, HandsOK
<1>2. RunsOf(<<>>) = {}
  BY DEF RunsOf
<1>3. dedupe \subseteq Runs
  BY DEF QueueInv, QueueTypeOK
<1> QED BY <1>1, <1>2, <1>3 DEF QueueInv, DedupeMatchesJobs

\* A run that was sent and is not in the queue has been completed, once.
LEMMA SentIsDone ==
    ASSUME DriverOK, JobsOK, dedupe = {}, step \in AllSent
    PROVE  \A r \in Runs : completions[r] = 1
<1>1. sent = Len(Batch) /\ step \notin {"seed", "first"}
  BY DEF DriverOK, AllSent
<1>2. ASSUME NEW r \in Runs PROVE Sent(r)
  <2>1. CASE r = VictimRun
    BY <1>1, <2>1 DEF Sent
  <2>2. CASE r # VictimRun
    <3>1. r \in Range(Batch)
      BY <2>2, BatchAssumption
    <3>2. PICK i \in DOMAIN Batch : Batch[i] = r
      BY <3>1 DEF Range
    <3>3. DOMAIN Batch = 1 .. Len(Batch)
      BY BatchAssumption
    <3> QED BY <1>1, <3>2, <3>3 DEF Sent
  <2> QED BY <2>1, <2>2
<1> QED BY <1>2 DEF JobsOK

\* One completion each is what the coordinator calls exactly once.
LEMMA DoneIsOnce ==
    ASSUME QueueInv, \A r \in Runs : completions[r] = 1, dedupe = {}
    PROVE  ExactlyOnce /\ QueueDrained
<1>1. Completed = Runs /\ Lost = {}
  BY DEF Completed, Lost
<1>2. UNION {{r} \X (2 .. completions[r]) : r \in Completed} = {}
  <2>1. \A r \in Completed : {r} \X (2 .. completions[r]) = {}
    <3> SUFFICES ASSUME NEW r \in Completed PROVE {r} \X (2 .. completions[r]) = {}
      OBVIOUS
    <3>1. completions[r] = 1
      BY DEF Completed
    <3>2. 2 .. completions[r] = {}
      BY <3>1
    <3> QED BY <3>2
  <2> QED BY <2>1
<1>3. DuplicateCompletions = 0
  BY <1>2, FS_EmptySet DEF DuplicateCompletions
<1>4. registered \subseteq Workers
  BY DEF QueueInv, QueueTypeOK
<1> QED BY <1>1, <1>3, <1>4, NothingQueued DEF ExactlyOnce, QueueDrained

\* After the verdict nothing changes that it rests on.
LEMMA VerdictStays ==
    ASSUME Next, verdict # "none"
    PROVE  UNCHANGED <<verdict, spoiled, breaks, tally>>
<1>1. CASE NetworkReturns
  BY <1>1 DEF NetworkReturns, driverVars, DriverOnly, workerVars, historyVars
<1>2. CASE CompileEvidence
  BY <1>2, Zenon DEF CompileEvidence, DriverOnly, workerVars, historyVars, netVars
<1>3. CASE EndReplicaDrill
  BY <1>3, Zenon DEF EndReplicaDrill, historyVars, netVars
<1> QED BY <1>1, <1>2, <1>3 DEF Next

\* The steps that judge.
Judges ==
    \/ ReadCardinality \/ WaitExpires \/ Judge
    \/ CompletionWaited \/ AcknowledgementWaited \/ CheckResults

\* Most steps leave the verdict open.
LEMMA VerdictOpen ==
    ASSUME Next, verdict = "none", ~(SeedVictim \/ EnqueueFirst \/ SendBatch), ~Judges
    PROVE  verdict' = verdict
<1>1. CASE KillVictim \/ VictimRecovered \/ CutNetwork \/ RestoreNetwork \/ ReconnectionSeen
           \/ AllCompleted \/ \E w \in Workers : StartWorker(w)
  BY <1>1 DEF KillVictim, VictimRecovered, CutNetwork, RestoreNetwork, ReconnectionSeen,
     AllCompleted, StartWorker, Read, Waiting, KeepVerdict
<1>2. CASE \/ ReadMembers \/ ReadSize \/ BatchSent("complete") \/ BatchSent("wait")
           \/ \E w \in Workers : ReadLength(w)
  BY <1>2 DEF ReadMembers, ReadSize, BatchSent, ReadLength, KeepVerdict
<1>3. CASE AbandonedBeats \/ AbandonedClaims \/ StartReplicas \/ CompileEvidence \/ EndReplicaDrill
  BY <1>3, Zenon DEF AbandonedBeats, AbandonedClaims, StartReplicas, CompileEvidence, EndReplicaDrill
<1>4. CASE UnplannedBreak \/ NetworkReturns \/ (WorkerNext /\ UNCHANGED driverVars)
  BY <1>4 DEF UnplannedBreak, NetworkReturns, driverVars
<1> QED BY <1>1, <1>2, <1>3, <1>4 DEF Next, SoakNext, ReplicaNext, Judges

\* What a step that judges may find, unless the drill is spoiled.
LEMMA JudgeCause ==
    ASSUME DrillInv, DriverOK, LifeOK, RoundsOK, Judges, verdict = "none", ~spoiled
    PROVE  \/ verdict' = "none" \/ verdict' = "passed"
           \/ verdict' = "redis error" \/ verdict' = "idle replica"
           \/ verdict' = "recovered" /\ (breaks > 0 \/ \E w \in Workers : tally[w] > 0)
<1>1. step # "ended"
  BY Zenon DEF Judges, ReadCardinality, WaitExpires, Judge, CompletionWaited,
     AcknowledgementWaited, CheckResults
<1>2. QueueInv /\ DrillTypes /\ VerdictOK /\ HandsOK /\ JobsOK /\ Victim \in Workers
  BY <1>1, DrillAssumption DEF DrillInv, LifeOK
<1>3. Stuck => dedupe = {}
  BY <1>2, StuckIsDone
<1>4. CASE ReadCardinality
  BY <1>3, <1>4, Zenon DEF ReadCardinality, KeepVerdict
<1>5. CASE WaitExpires
  <2>1. step = "complete" /\ Stuck /\ Completed # Runs
    BY <1>5, Zenon DEF WaitExpires
  <2>2. \A r \in Runs : completions[r] = 1
    BY <1>2, <1>3, <2>1, SentIsDone DEF AllSent
  <2>3. Completed = Runs
    BY <2>2 DEF Completed
  <2> QED BY <2>1, <2>3, Zenon
<1>6. CASE Judge
  <2>1. step = "judge"
    BY <1>6, Zenon DEF Judge
  <2>2. dedupe = {}
    BY <1>2, <2>1 DEF VerdictOK
  <2>3. \A r \in Runs : completions[r] = 1
    BY <1>2, <2>1, <2>2, SentIsDone DEF AllSent
  <2>4. ExactlyOnce /\ QueueDrained
    BY <1>2, <2>2, <2>3, DoneIsOnce
  <2> QED BY <1>6, <2>4, Zenon DEF Judge
<1>7. CASE CompletionWaited
  <2>1. step = "wait"
    BY <1>7, Zenon DEF CompletionWaited
  <2>2. ~(Completed # Runs /\ Stuck)
    <3> SUFFICES ASSUME Completed # Runs, Stuck PROVE FALSE
      OBVIOUS
    <3>1. \A r \in Runs : completions[r] = 1
      BY <1>2, <1>3, <2>1, SentIsDone DEF AllSent
    <3> QED BY <3>1 DEF Completed
  <2> QED BY <1>7, <2>2, Zenon DEF CompletionWaited, KeepVerdict
<1>8. CASE AcknowledgementWaited
  BY <1>3, <1>8, Zenon DEF AcknowledgementWaited, KeepVerdict, Fail
<1>9. CASE CheckResults
  <2>1. step = "check" /\ drill = "replica"
    BY <1>9, Zenon DEF CheckResults
  <2>2. dedupe = {}
    BY <1>2, <2>1 DEF VerdictOK
  <2>3. \A r \in Runs : completions[r] = 1
    BY <1>2, <2>1, <2>2, SentIsDone DEF AllSent
  <2>4. pending = <<>> /\ processing[Victim] = <<>>
    BY <1>2, <2>2, NothingQueued
  <2>5. \A r \in Runs : ~Running(r)
    <3> SUFFICES ASSUME NEW w \in Workers, pc[w] = "call" PROVE FALSE
      BY DEF Running
    <3>1. Busy(w)
      BY DEF Busy
    <3> QED BY <1>2, <2>2, <3>1, HeldRun
  <2>6. OnceEach
    BY <1>2, <2>1, <2>3, <2>5 DEF OnceEach, JobsOK
  <2>7. recovered # 1 => breaks > 0 \/ \E w \in Workers : tally[w] > 0
    <3> SUFFICES ASSUME recovered # 1, ~(breaks > 0) PROVE \E w \in Workers : tally[w] > 0
      OBVIOUS
    <3>1. breaks = 0
      BY DEF DriverOK
    <3>2. PICK w \in Workers : tally[w] = 1
      BY <2>1, <2>4, <3>1 DEF RoundsOK, Unclaimed
    <3> QED BY <3>2
  <2> QED BY <1>9, <2>4, <2>6, <2>7, Zenon DEF CheckResults, Fail
<1> QED BY <1>4, <1>5, <1>6, <1>7, <1>8, <1>9, Zenon DEF Judges

LEMMA CauseStep ==
    ASSUME DrillInv, DriverOK, LifeOK, RoundsOK, FailureHasCause, Next
    PROVE  FailureHasCause'
<1>1. CASE verdict # "none"
  BY <1>1, VerdictStays, Zenon DEF FailureHasCause
<1>2. CASE verdict = "none" /\ (SeedVictim \/ EnqueueFirst \/ SendBatch)
  <2> SUFFICES ASSUME ~spoiled'
               PROVE  verdict' = "none" \/ (verdict' = "unreachable" /\ breaks' > 0)
    BY Zenon DEF FailureHasCause
  <2>1. ~spoiled
    BY Lasts
  <2>2. step # "ended"
    BY <1>2 DEF SeedVictim, EnqueueFirst, SendBatch
  <2>3. QueueInv /\ DrillTypes /\ JobsOK
    BY <2>1, <2>2 DEF DrillInv, LifeOK
  <2>4. UNCHANGED <<pc, job, starts, completions, drill>>
    BY <1>2, SendEffect DEF workerVars
  <2>5. CASE SeedVictim \/ EnqueueFirst
    BY <1>2, <2>3, <2>4, <2>5, FirstEffect, LifeFirst
  <2>6. CASE SendBatch
    <3>1. \/ verdict' = "none"
          \/ verdict' = "unreachable" /\ drill = "replica" /\ (inflight # {} \/ ~Up)
      BY <1>2, <2>3, <2>4, <2>6, LifeBatch
    <3>2. breaks' = breaks /\ breaks \in Nat
      BY <1>2, SendEffect DEF DriverOK
    <3>3. drill = "replica" /\ breaks = 0 => Up /\ inflight = {}
      BY <2>1, <2>2 DEF RoundsOK
    <3> QED BY <3>1, <3>2, <3>3
  <2> QED BY <1>2, <2>5, <2>6
<1>3. CASE verdict = "none" /\ Judges
  <2>1. UNCHANGED <<spoiled, breaks, tally>>
    <3>1. CASE ReadCardinality \/ WaitExpires \/ Judge
      BY <3>1, Zenon DEF ReadCardinality, WaitExpires, Judge, DriverOnly, workerVars, historyVars,
         netVars
    <3>2. CASE CompletionWaited \/ AcknowledgementWaited \/ CheckResults
      BY <3>2, Zenon DEF CompletionWaited, AcknowledgementWaited, CheckResults, DriverOnly,
         workerVars, historyVars, netVars
    <3> QED BY <1>3, <3>1, <3>2 DEF Judges
  <2>2. CASE spoiled
    BY <2>1, <2>2, Zenon DEF FailureHasCause
  <2>3. CASE ~spoiled
    <3>1. \/ verdict' = "none" \/ verdict' = "passed"
          \/ verdict' = "redis error" \/ verdict' = "idle replica"
          \/ verdict' = "recovered" /\ (breaks > 0 \/ \E w \in Workers : tally[w] > 0)
      BY <1>3, <2>3, JudgeCause, Zenon
    <3> QED BY <2>1, <3>1, Zenon DEF FailureHasCause
  <2> QED BY <2>2, <2>3
<1>4. CASE verdict = "none" /\ ~(SeedVictim \/ EnqueueFirst \/ SendBatch) /\ ~Judges
  <2>1. verdict' = "none"
    BY <1>4, VerdictOpen
  <2> QED BY <2>1, Zenon DEF FailureHasCause
<1> QED BY <1>1, <1>2, <1>3, <1>4

(***************************************************************************)
(* No false alarm, for any number of workers, of jobs and of breaks: a     *)
(* drill that fails was spoiled by a break of the network, or lacks one of *)
(* the things that only luck can give it.  Without a break enqueue_jobs    *)
(* never meets a duplicate, no wait expires, every job is started and      *)
(* completed once and the queue ends up empty (container_runtime.py,       *)
(* verify_replica_recovery.py).                                            *)
(***************************************************************************)
THEOREM FailureHasCauseCorrect ==
    ASSUME IsFiniteSet(Workers)
    PROVE  Spec => []FailureHasCause
<1> DEFINE Why == DriverOK /\ LifeOK /\ RoundsOK /\ FailureHasCause
<1>1. Init => Why
  <2> SUFFICES ASSUME Init PROVE Why
    OBVIOUS
  <2> USE DEF Init, DrillInit, QueueInit
  <2>1. DriverOK
    BY BatchAssumption, DrillAssumption DEF DriverOK, AllSent, Unclaimed
  <2>2. HandsOK
    BY DEF HandsOK, Busy, Alive
  <2>3. \A r \in Runs : ~Sent(r) /\ ~Acking(r) /\ ~Running(r)
    BY DEF Sent, Acking, Running
  <2>4. JobsOK
    BY <2>3 DEF JobsOK
  <2>5. RoundsOK
    BY DEF RoundsOK, Up, Unclaimed
  <2>6. FailureHasCause
    BY Zenon DEF FailureHasCause
  <2> QED BY <2>1, <2>2, <2>4, <2>5, <2>6 DEF LifeOK
<1>2. DrillInv /\ Why /\ [Next]_soakVars => Why'
  <2> SUFFICES ASSUME DrillInv, Why, [Next]_soakVars PROVE Why'
    OBVIOUS
  <2>1. CASE Next
    BY <2>1, DriverStep, LifeStep, RoundsStep, CauseStep
  <2>2. CASE UNCHANGED soakVars
    <3>1. UNCHANGED <<processing, dedupe, drill, pc, job, tally, net, inflight, breaks, starts,
                      completions, recovered, spoiled, step, sent, uncertain, verdict>>
      BY <2>2 DEF soakVars, drillVars, driverVars, queueVars, workerVars, netVars, trackerVars,
         historyVars
    <3>2. DriverOK'
      BY <3>1 DEF DriverOK
    <3>3. HandsOK => HandsOK'
      BY <3>1 DEF HandsOK, Busy, Alive
    <3>4. JobsOK => JobsOK'
      BY <3>1 DEF JobsOK, Acking, Running, Sent, Uncertain
    <3>5. RoundsOK'
      BY <3>1 DEF RoundsOK, Up
    <3>6. FailureHasCause'
      BY <3>1, Zenon DEF FailureHasCause
    <3> QED BY <3>1, <3>2, <3>3, <3>4, <3>5, <3>6 DEF LifeOK
  <2> QED BY <2>1, <2>2
<1>3. Why => FailureHasCause
  OBVIOUS
<1> HIDE DEF Why
<1> QED BY <1>1, <1>2, <1>3, DrillInvariant, PTL DEF Spec

=============================================================================
