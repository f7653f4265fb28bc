------------------------------ MODULE RedisQueue ------------------------------
(***************************************************************************)
(* RedisAnalysisQueue (queue.py): the work queue shared by the API and the *)
(* worker replicas.  Its state is five kinds of Redis keys: the pending    *)
(* list, one processing list and one lease key per worker, the set of      *)
(* registered processing keys and the deduplication set of run ids.        *)
(*                                                                         *)
(* One action is one command the server executes atomically: a Lua script, *)
(* a MULTI/EXEC transaction, BRPOPLPUSH or SMEMBERS.  Everything that a    *)
(* method awaits between two commands may be interleaved with the commands *)
(* of other processes, so dequeue (heartbeat, then BRPOPLPUSH) and         *)
(* recover_orphaned (SMEMBERS, then one script per key) are several        *)
(* actions each.                                                           *)
(*                                                                         *)
(* The module says nothing about WHEN a client calls: any worker may       *)
(* acknowledge or retry any receipt at any time, also long after its lease *)
(* expired and the job went to somebody else.  What is shown of the queue  *)
(* therefore holds for every client; AnalysisSystem supplies the real one. *)
(***************************************************************************)
EXTENDS Naturals, Sequences, FiniteSets, SequencesExt, Identities

CONSTANT MaxAttempts  \* settings.worker_max_attempts

ASSUME MaxAttemptsAssumption == MaxAttempts \in Nat \ {0}

VARIABLES
    pending,     \* pending_key: a list, LPUSH at position 1, RPOP at the end
    processing,  \* processing_key of every worker
    registered,  \* workers_key: the workers whose processing_key is a member
    leased,      \* the workers whose lease_key exists (TTL not elapsed)
    dedupe,      \* dedupe_key: run ids that have a job
    scan         \* keys a recover_orphaned call of a worker still has to visit

queueVars == <<pending, processing, registered, leased, dedupe, scan>>

(***************************************************************************)
(* A list element is the JSON text of a QueueEnvelope; it doubles as the   *)
(* receipt of the job.  The request fields other than run_id never change  *)
(* for a run, so (run, attempts) identifies the text.                      *)
(***************************************************************************)
Envelope == [run : Runs, attempts : 0 .. MaxAttempts - 1]

\* Run ids of the jobs in a list.
RunsOf(list) == {list[i].run : i \in DOMAIN list}

QueueTypeOK ==
    /\ pending \in Seq(Envelope)
    /\ processing \in [Workers -> Seq(Envelope)]
    /\ registered \in SUBSET Workers
    /\ leased \in SUBSET Workers
    /\ dedupe \in SUBSET Runs
    /\ scan \in [Workers -> SUBSET Workers]

QueueInit ==
    /\ pending = <<>>
    /\ processing = [w \in Workers |-> <<>>]
    /\ registered = {}
    /\ leased = {}
    /\ dedupe = {}
    /\ scan = [w \in Workers |-> {}]

-----------------------------------------------------------------------------
(* Producers                                                               *)

\* _ENQUEUE_SCRIPT: SADD decides, so a run that has a job is not pushed again.
Enqueue(r) ==
    /\ IF r \in dedupe
       THEN UNCHANGED <<dedupe, pending>>
       ELSE /\ dedupe' = dedupe \cup {r}
            /\ pending' = Cons([run |-> r, attempts |-> 0], pending)
    /\ UNCHANGED <<processing, registered, leased, scan>>

-----------------------------------------------------------------------------
(* Consumers                                                               *)

\* Mutant: the lease is renewed, the registration is forgotten.
HeartbeatLeaseOnly(w) ==
    /\ leased' = leased \cup {w}
    /\ UNCHANGED <<pending, processing, registered, dedupe, scan>>

\* heartbeat(): SADD and SET EX in one transaction.
Heartbeat(w) ==
    /\ registered' = registered \cup {w}
    /\ leased' = leased \cup {w}
    /\ UNCHANGED <<pending, processing, dedupe, scan>>

\* The BRPOPLPUSH of dequeue(): the oldest pending job moves to w's list.
Claim(w) ==
    /\ pending # <<>>
    /\ pending' = Front(pending)
    /\ processing' = [processing EXCEPT ![w] = Cons(Last(pending), @)]
    /\ UNCHANGED <<registered, leased, dedupe, scan>>

\* Mutant: SREM although LREM removed nothing.
AcknowledgeAlways(w, job) ==
    /\ processing' = [processing EXCEPT ![w] = RemoveFirst(@, job)]
    /\ dedupe' = dedupe \ {job.run}
    /\ UNCHANGED <<pending, registered, leased, scan>>

\* _ACKNOWLEDGE_SCRIPT: a receipt that is no longer in w's list changes nothing.
Acknowledge(w, job) ==
    /\ IF job \in ToSet(processing[w])
       THEN /\ processing' = [processing EXCEPT ![w] = RemoveFirst(@, job)]
            /\ dedupe' = dedupe \ {job.run}
       ELSE UNCHANGED <<processing, dedupe>>
    /\ UNCHANGED <<pending, registered, leased, scan>>

\* Mutant: LPUSH although LREM removed nothing.
RetryAlways(w, job) ==
    /\ processing' = [processing EXCEPT ![w] = RemoveFirst(@, job)]
    /\ pending' = Cons([job EXCEPT !.attempts = @ + 1], pending)
    /\ UNCHANGED <<registered, leased, dedupe, scan>>

\* Mutant: a retry counts n attempts.
RetryCounting(w, job, n) ==
    /\ job \in ToSet(processing[w])
    /\ processing' = [processing EXCEPT ![w] = RemoveFirst(@, job)]
    /\ pending' = Cons([job EXCEPT !.attempts = @ + n], pending)
    /\ UNCHANGED <<registered, leased, dedupe, scan>>
RetryCountingTwice(w, job) == RetryCounting(w, job, 2)
RetryUncounted(w, job) == RetryCounting(w, job, 0)

\* _RETRY_SCRIPT with the envelope that retry() builds: attempts + 1, same run.
Retry(w, job) ==
    /\ IF job \in ToSet(processing[w])
       THEN /\ processing' = [processing EXCEPT ![w] = RemoveFirst(@, job)]
            /\ pending' = Cons([job EXCEPT !.attempts = @ + 1], pending)
       ELSE UNCHANGED <<processing, pending>>
    /\ UNCHANGED <<registered, leased, dedupe, scan>>

-----------------------------------------------------------------------------
(* Lease expiry and orphan recovery                                        *)

\* The TTL of a lease key runs out.
LeaseExpires(w) ==
    /\ w \in leased
    /\ leased' = leased \ {w}
    /\ UNCHANGED <<pending, processing, registered, dedupe, scan>>

\* The SMEMBERS of recover_orphaned(); the caller's own key is skipped.
ScanWorkers(v) ==
    /\ scan[v] = {}
    /\ scan' = [scan EXCEPT ![v] = registered \ {v}]
    /\ UNCHANGED <<pending, processing, registered, leased, dedupe>>

\* Mutant: the list is drained whether the lease exists or not.
RecoverUnconditionally(v, w) ==
    /\ w \in scan[v]
    /\ scan' = [scan EXCEPT ![v] = @ \ {w}]
    /\ pending' = processing[w] \o pending
    /\ processing' = [processing EXCEPT ![w] = <<>>]
    /\ registered' = registered \ {w}
    /\ UNCHANGED <<leased, dedupe>>

(***************************************************************************)
(* _RECOVER_SCRIPT on one key of the snapshot.  It RPOPs w's list until it *)
(* is empty and LPUSHes every item, which puts the list, order kept, in    *)
(* front of pending; then it removes the key from the workers set.         *)
(***************************************************************************)
Recover(v, w) ==
    /\ w \in scan[v]
    /\ scan' = [scan EXCEPT ![v] = @ \ {w}]
    /\ IF w \in leased
       THEN UNCHANGED <<pending, processing, registered>>
       ELSE /\ pending' = processing[w] \o pending
            /\ processing' = [processing EXCEPT ![w] = <<>>]
            /\ registered' = registered \ {w}
    /\ UNCHANGED <<leased, dedupe>>

\* recover_orphaned() ends early: a RedisError, or the process is gone.
AbortScan(v) ==
    /\ scan' = [scan EXCEPT ![v] = {}]
    /\ UNCHANGED <<pending, processing, registered, leased, dedupe>>

-----------------------------------------------------------------------------

QueueNext ==
    \/ \E r \in Runs : Enqueue(r)
    \/ \E w \in Workers :
        \/ Heartbeat(w)
        \/ Claim(w)
        \/ LeaseExpires(w)
        \/ ScanWorkers(w)
        \/ AbortScan(w)
        \/ \E job \in Envelope : Acknowledge(w, job)
        \* worker.py retries a job only below max_attempts
        \/ \E job \in Envelope : job.attempts + 1 < MaxAttempts /\ Retry(w, job)
        \/ \E v \in Workers : Recover(w, v)

QueueSpec == QueueInit /\ [][QueueNext]_queueVars

-----------------------------------------------------------------------------
(* Properties                                                              *)

\* No run has two elements in one list.
NoRepeat(list) ==
    \A i, j \in DOMAIN list : list[i].run = list[j].run => i = j

(***************************************************************************)
(* A run id is in the deduplication set exactly when it has a job in some  *)
(* list: dedupe_key and the lists, updated by four different scripts from  *)
(* different processes, never disagree.  An id without a job would make    *)
(* enqueue refuse the run for ever; a job without its id would let a       *)
(* redelivered webhook start a second analysis next to the first.          *)
(***************************************************************************)
DedupeMatchesJobs ==
    \A r \in Runs :
        r \in dedupe <=> \/ r \in RunsOf(pending)
                        \/ \E w \in Workers : r \in RunsOf(processing[w])

(***************************************************************************)
(* A run has at most one job over all lists: recovery, retry and           *)
(* acknowledgement of a receipt whose lease expired never duplicate it, so *)
(* two workers never hold the same run in their processing lists.          *)
(***************************************************************************)
OneJobPerRun ==
    /\ NoRepeat(pending)
    /\ \A w \in Workers :
        /\ NoRepeat(processing[w])
        /\ RunsOf(pending) \cap RunsOf(processing[w]) = {}
        /\ \A v \in Workers \ {w} :
            RunsOf(processing[v]) \cap RunsOf(processing[w]) = {}

(***************************************************************************)
(* Only the worker that holds a job, or a recovery after its lease expired,*)
(* takes it out of that worker's list: a lease that exists protects the    *)
(* list from every other worker (architecture.md: a job of a worker whose  *)
(* heartbeat is alive is not recovered).                                   *)
(***************************************************************************)
LeaseProtectsJobs ==
    [][\A w \in Workers : w \in leased /\ w \in leased' =>
        \/ RunsOf(processing[w]) \subseteq RunsOf(processing'[w])
        \/ \E job \in ToSet(processing[w]) : Acknowledge(w, job) \/ Retry(w, job)
      ]_queueVars

=============================================================================
