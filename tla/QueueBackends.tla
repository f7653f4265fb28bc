----------------------------- MODULE QueueBackends -----------------------------
(***************************************************************************)
(* create_queue (queue.py): one setting chooses the backend when a process *)
(* starts, and every caller sees only the AnalysisQueue protocol.  Both    *)
(* backends are shown to keep the promise of JobQueue; only the one in     *)
(* Redis is durable.                                                       *)
(***************************************************************************)
EXTENDS RedisQueue, MemoryQueue

CONSTANTS
    Nobody,    \* the holder of a waiting job
    Process    \* the consumer of the queue in memory: its own process

ASSUME HoldersAssumption == Nobody \notin Workers /\ Process \notin Workers \cup {Nobody}

VARIABLE backend  \* settings.queue_backend

backendVars == <<pending, processing, registered, leased, dedupe, scan,
                 memQueue, runIds, hand, backend>>

BackendsInit ==
    /\ backend \in {"memory", "redis"}
    /\ QueueInit
    /\ MemoryInit

BackendsNext ==
    \/ backend = "redis" /\ QueueNext /\ UNCHANGED <<memVars, backend>>
    \/ backend = "memory" /\ MemoryNext /\ UNCHANGED <<queueVars, backend>>

BackendsSpec == BackendsInit /\ [][BackendsNext]_backendVars

-----------------------------------------------------------------------------
(* The refinement mapping: the jobs of a backend, with their holders        *)

\* The jobs of a set of envelopes that h holds.
HeldBy(h, envelopes) ==
    {[run |-> e.run, attempts |-> e.attempts, holder |-> h] : e \in envelopes}

RedisJobs ==
    HeldBy(Nobody, ToSet(pending))
        \cup UNION {HeldBy(w, ToSet(processing[w])) : w \in Workers}

MemoryJobs == HeldBy(Nobody, ToSet(memQueue)) \cup HeldBy(Process, hand)

Promise == INSTANCE JobQueue WITH
    Consumers <- Workers \cup {Process},
    jobs <- IF backend = "redis" THEN RedisJobs ELSE MemoryJobs,
    known <- IF backend = "redis" THEN dedupe ELSE runIds,
    durable <- backend = "redis"

-----------------------------------------------------------------------------
(* Properties                                                              *)

(***************************************************************************)
(* Either backend implements the abstract queue: the scripts that run from *)
(* different processes, receipts of expired leases and the recovery of a   *)
(* whole list included, every change is one enqueue, one claim, one        *)
(* settlement by the holder or the return of one worker's jobs, and a run  *)
(* is refused exactly while it has a job.  The queue in memory believes    *)
(* its caller in acknowledge and retry: an id that outlives its job would  *)
(* make enqueue() refuse the run until the process is restarted, a job     *)
(* without its id would let the run be queued twice.                       *)
(***************************************************************************)
KeepsPromise == Promise!PromiseSpec

=============================================================================
