------------------------------ MODULE MemoryQueue ------------------------------
(***************************************************************************)
(* InMemoryAnalysisQueue (queue.py): the queue of a single development     *)
(* process.  No method awaits between two of its assignments, so one       *)
(* method is one step of the event loop.  heartbeat, recover_orphaned,     *)
(* healthcheck and close do nothing.                                       *)
(*                                                                         *)
(* Unlike the Redis queue it does not know which jobs are out: acknowledge *)
(* and retry believe their caller.  "hand" is the caller's side, the jobs  *)
(* that process_next (worker.py) took and has not settled; it settles each *)
(* of them once.                                                           *)
(***************************************************************************)
EXTENDS Naturals, Sequences, SequencesExt, Identities

CONSTANT MemoryAttempts  \* settings.worker_max_attempts of this process

VARIABLES
    memQueue,  \* _queue: an asyncio.Queue, put at the end, got at the front
    runIds,    \* _run_ids
    hand       \* jobs dequeued and not settled

memVars == <<memQueue, runIds, hand>>

MemoryInit ==
    /\ memQueue = <<>>
    /\ runIds = {}
    /\ hand = {}

\* enqueue(): a run whose id is known is refused.
MemEnqueue(r) ==
    /\ r \notin runIds
    /\ runIds' = runIds \cup {r}
    /\ memQueue' = Append(memQueue, [run |-> r, attempts |-> 0])
    /\ UNCHANGED hand

\* dequeue(): an empty queue times out and answers None.
MemDequeue ==
    /\ memQueue # <<>>
    /\ memQueue' = Tail(memQueue)
    /\ hand' = hand \cup {Head(memQueue)}
    /\ UNCHANGED runIds

\* acknowledge()
MemAcknowledge(job) ==
    /\ job \in hand
    /\ hand' = hand \ {job}
    /\ runIds' = runIds \ {job.run}
    /\ UNCHANGED memQueue

\* Mutant: retry settles the job like an acknowledgement.
MemRetryForgetting(job) ==
    /\ job \in hand
    /\ hand' = hand \ {job}
    /\ memQueue' = Append(memQueue, [job EXCEPT !.attempts = @ + 1])
    /\ runIds' = runIds \ {job.run}

\* retry(): the id stays, the job goes to the end.
MemRetry(job) ==
    /\ job \in hand
    /\ hand' = hand \ {job}
    /\ memQueue' = Append(memQueue, [job EXCEPT !.attempts = @ + 1])
    /\ UNCHANGED runIds

\* The process ends, and the queue with it.
MemProcessEnds ==
    /\ memQueue' = <<>>
    /\ runIds' = {}
    /\ hand' = {}

MemoryNext ==
    \/ \E r \in Runs : MemEnqueue(r)
    \/ MemDequeue
    \/ \E job \in hand :
        \/ MemAcknowledge(job)
        \* worker.py retries a job only below max_attempts
        \/ job.attempts + 1 < MemoryAttempts /\ MemRetry(job)
    \/ MemProcessEnds

MemorySpec == MemoryInit /\ [][MemoryNext]_memVars

=============================================================================
