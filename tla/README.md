# Verification of PipeLens

PipeLens receives `workflow_run` webhooks from GitHub, records every failed CI
run, queues it, lets a worker collect logs, classify and diagnose the failure,
and publishes the diagnosis as a pull request comment or a commit check. A
dashboard lists the analyses. This directory holds TLA+ models of the parts
whose correctness depends on interleaving, failure and order, the TLC
configurations that check them, and machine-checked proofs (TLAPS) about the
queue and its two backends, the deployed system of API, workers and store,
follow-ups, sessions, the HTTP retry loop, the trust decision, the verification of
diffs, the dashboard's list, the worker drills and the restore drills. It also
models the drills under `ops/` that decide whether a release is ready: they run the real queue
while they break it, and a drill that passes wrongly is worse than none.

Paths below are relative to `src/pipelens/` unless they start with `docs/`,
`frontend/`, `ops/` or `README.md` of the repository.

## 1. Inventory

| Component | State | Operations | Hard part |
|---|---|---|---|
| Redis queue (`queue.py`) | pending list, processing list and lease per worker, set of registered workers, deduplication set | enqueue, dequeue (heartbeat + BRPOPLPUSH), acknowledge, retry, heartbeat, recover_orphaned | each script is atomic, the methods are not; receipts outlive leases |
| Analysis store (`store.py`) | `analyses` (status, attempt token, results, resolution), stage events, feedback, users, sessions, installations | create_if_absent, begin_analysis, update, finish_analysis, record_stage, record_followup_run, list_page, session and user tables | fencing; check-then-act inside READ COMMITTED |
| Worker (`worker.py`) | loop position, job, maintenance task | run, process_next, maintenance | two asyncio tasks per process, process death, lease expiry, Redis errors |
| Pipeline (`pipeline.py`) | attempt token, current stage | analyze, stages, publish | any stage may raise; superseded attempts keep running until the next check |
| GitHub client (`github.py`) | comments and checks on GitHub | upsert_check, upsert_pull_request_comment, reads | listing and writing are two requests; lost replies |
| HTTP retry (`http_retry.py`) | attempt, delay | request_with_retry | headers, jitter and bounds; what may be repeated |
| API (`main.py`) | requests in flight | webhook, startup reconciliation, OAuth, list | duplicated and reordered deliveries; row and job are in different systems |
| Follow-up resolution (`store.py`, `main.py`) | resolution columns | record_followup_run | three different orders: start, completion, delivery |
| Auth (`auth.py`) | sessions encrypted under a key ring | login, authenticate, logout, sync_installations | instances with different key rings during a rotation |
| Dashboard (`frontend/src/App.tsx`) | rows, cursor, filters, request sequence | load, append, poll, filter | overlapping requests |
| Memory queue (`queue.py`) | asyncio queue, set of run ids | the same interface | acknowledge and retry believe their caller; everything is lost with the process |
| Patching (`patching.py`) | none | apply and verify diffs | line arithmetic of hunks; an ambiguous or moved place |
| Trust and publication (`github.py`, `publication.py`) | none | who is trusted, what is published | decision with missing data, taken again by every attempt |
| Text analysis (`preprocessing.py`, `classifier.py`, `relevance.py`, `diagnosis.py`, `sanitizer.py`, `llm.py`) | none | pure functions and one LLM call | text heuristics |
| Replica drill (`ops/worker/verify_replica_recovery.py`) | jobs sent, an abandoned claim, replicas as tasks | produce, abandon, wait for recovery, check, clean up | reads keys that replicas are changing |
| Container soak (`ops/worker/run_container_soak.py`, `container_runtime.py`) | containers, counters in Redis, a provider that fails at first | victim killed, network cut and restored, coordinator paces and verifies | lost answers of commands that were carried out; keys read one by one |
| Soak evidence (`ops/worker/verify_soak_evidence.py`) | none | comparisons of a report with limits | two programs have to agree on counts |
| Restore drills (`ops/postgres/verify_restore.py`, `ops/grafana/verify_restore.py`) | Docker containers, volumes, networks named after a run id | check that names are free, build, restore, validate, clean up | any command fails, the drill is killed, a run id is used twice |
| Recovery evidence (`ops/recovery/verify_drill_evidence.py`) | none | comparisons of times and objectives | defects that hide each other; boundaries |
| Config, bootstrap, security, metrics, evaluation, migrations, other `ops/` scripts | none at run time | start-up validation, scripts | no concurrency of their own |

How they interact: the API writes the row first and enqueues afterwards; a
worker takes the job from Redis and talks to the store under an attempt token;
queue and store are never updated together, so webhook redelivery, startup
reconciliation (`queued_requests`) and orphan recovery repair what a crash
leaves behind. The token in the row (fencing) is what decides between two
attempts of a run, not the lease. `PROJECT.json` lists every hazard at its line.

What makes the components correct:

* queue: a run has one job, and the deduplication set says so; a live lease
  protects a job; budget of attempts; no job is lost;
* store and pipeline: a completed analysis is final; a running row has an
  owner; late attempts have no effect; every queued run is decided;
* publication: one diagnosis per run;
* follow-ups: a verdict is final and comes from the run that followed;
* retry: never too early, bounded, nothing written twice;
* sessions: a rotation loses none, an ended one stays ended, access is current;
* history: no gap, no duplicate, newest first;
* drills: one that passes is right, one that fails has a cause, what it reports
  happened, it takes nothing from another drill and leaves nothing behind;
* evidence: accepted at the limits and not beyond, no defect hides another;
* trust and content: nothing foreign is sent to the model or commented on, a row
  fails closed, a diff shown as verified applies to the head file as it says.

## 2. Modules

`Identities` declares `Runs` and `Workers`. A worker is one process incarnation
(its id is a fresh uuid), so a restarted replica is another worker.

**RedisQueue** - one action per command that Redis executes atomically.
`pending` and `processing` are the lists (LPUSH at position 1, RPOP at the end),
`registered` the workers set, `leased` the workers whose lease key exists,
`dedupe` the run ids, `scan` the snapshot a `recover_orphaned` call still has to
visit. `dequeue` is `Heartbeat` then `Claim`; `recover_orphaned` is
`ScanWorkers` then one `Recover` per key. `QueueNext` lets any client do
anything at any time (acknowledge a receipt long after its lease expired), so
what holds of it holds for every client. `RedisQueueProofs` has the proofs.

**JobQueue** - the abstract queue: what the `AnalysisQueue` protocol promises to
its callers. A set of jobs with their holders, the runs that enqueue refuses, and
one action per thing that may happen to a job; no lists, no leases, no worker
registry.

**MemoryQueue** - `InMemoryAnalysisQueue`, one action per method. `hand` is the
caller's side: jobs dequeued and not settled.

**QueueBackends** - `create_queue` chooses one of the two, and the refinement
mapping: the jobs of Redis are the entries of all lists, those of the memory queue
the waiting ones and `hand`; `KeepsPromise` says that either implements JobQueue,
and `QueueBackendsProofs` proves it.

**AnalysisStore** - `status`, `token` and `startedRows`. One action is one
transaction; `record_stage` is split at its SELECT, because the token may change
before its INSERT. The token (a uuid per attempt) is represented by the worker
that drew it: a worker runs one attempt at a time and compares only its own.

**DiagnosisComments** - list, then PATCH what was found or POST. Comment and
check follow one protocol and a run uses one of them.

**AnalysisSystem** - the processes over these three: webhook handlers, API
restart and reconciliation, the worker's main loop (`pc`) and maintenance task
(`maint`), the pipeline with its stages and error paths, crashes, stalls, Redis
errors, database errors and gateway errors. Stages are numbered: 1 is COLLECTING
(ends with a fenced update), the last PUBLISHING, the ones in between do nothing
the other components see. Every stage may raise. `Faults` selects the faults of
a run, `MaxStalls` and `MaxErrors` bound them. `begun` is the one history
variable: it counts the attempts that `begin_analysis` accepted.

**FollowupResolution** - completed run attempts happen in `history` (the
position is `completed_at`, so two never tie), deliveries pick any of them any
number of times; the handler runs the SELECT, the UPDATE and the INSERT as
separate steps. `orderly`
remembers whether deliveries have been one by one and in order of completion.

**HttpRetry** - one call. Time is in fractions of a second, jitters are whole
numbers of them; `HttpClientProofs` proves its properties for every policy.

**AuthSessions** - several API instances, each running one of the four
deployments of a key rotation (`docs/secrets-and-rotation.md`), requests that
read, decide and write in separate transactions. A ciphertext is the key it was
made with. `replace_user_installations` is split at its INSERT: two instances that
sync one user at the same time both delete, and the later insert raises
(`InsertRaises`).

**AnalysisHistory** - the table, `list_page`, the cursor, and the dashboard's
state with requests that are sent, served and delivered in any order.

**PatchVerification** - one suggested diff against its file. `Submit` starts a
verification, `ApplyHunk` is one turn of the loop of `apply_unified_diff`
(`LocateHunk` is `_locate_hunk`), `Verify` and `Reject` end it; `Object` stands
for the checks that look at text (size, headers, secrets, policy, syntax), which
may refuse any diff. Indices count the lines before a place, as in the code. A line
is its contents and its end ("\n", "\r\n", or none where a text stops): `Texts`
compares without the ends, as `_strip_newline` does, and `Join` is the `"".join` of
the raw lines whose outcome (`updated`) is parsed. The reference definition (`Fits`,
`SpliceAll`) replaces the hunks from the last to the first, which needs no cursor.
`RuleDiff` is what `render_unified_diff` (n = 2) writes for a file with pins, in one
hunk or several.

**DiagnosisContent** - the attempts of one run, one after the other: `Collect`
(what GitHub says of the run, with any part missing, through
`ResolveExternalPullRequest` and `TrustLevel`) or `CollectLogsOnly`, `Diagnose`,
one of the three `Attach` actions, the verification, `Save`, `Publish`, `Finish`,
and `Raise` at any of them. `row` survives an attempt, everything else starts
afresh. `origin` is where the run's commit really comes from; no action reads it
except through what GitHub answers.

**DrillWorkers** - the workers of both drills: the real queue client (RedisQueue)
in a loop like `worker.py`'s, with the network in between. A command is sent, is
carried out, and its answer arrives or is lost (`inflight`); a network that is cut
fails every command. The synthetic analysis of the soak calls two providers that
answer 429, 503 and then 200, and records its completion.

**SoakEvidence** - `compile_evidence` of `verify_soak_evidence.py` as predicates on
a report, and the arithmetic of a profile's duration.

**ContainerSoak** - the runner (victim killed with a job in its hands, network cut
while work is going on) and the coordinator, which enqueues batches, waits, and
reads the keys of Redis one after the other.

**ReplicaDrill** - the drill with replicas as tasks of one process, and the
composition: `drill` chooses which of the two is run over the same workers. The
properties of both are stated here.

**DockerDrills** - the restore drills and the soak's setup as scripts, one Docker
command per step. Two invocations share one run id, so they share the names
of their objects; `objects` says which drill made an object. A command
succeeds, fails without effect, or, for `docker run`, fails after the container was
created; a drill may be killed between two commands. What the restored PostgreSQL
or Grafana answers is chosen from `Findings`, and the integrity checks of the
scripts (`validate_access_policy` among them) decide on it. `blind`, `robbers` and
`hiccups` are history: drills whose look at the names was blind or came too early,
drills that removed another's object, drills whose cleanup failed.

**RecoveryEvidence** - `compile_evidence` of the recovery drill as operators on the
observation. A drill that just meets every objective goes wrong step by step
(`GoesWrong`), each time just beyond one limit, until the evidence is compiled. It
shares no state with the restore drills; `MCDockerDrills` runs one or the other.

Definitions named "Mutant" in their comment are deliberately wrong variants of
the definition after them. They are used by nothing; each is put in the place of
the right one to see that a property notices.

## 3. Runs

Bounds are small because the interesting cases need few actors: one run with
redelivery and two worker incarnations already gives every overlap of
two attempts.

| Run | Shows | Bounds |
|---|---|---|
| `queues` | QueueTypeOK, DedupeMatchesJobs, OneJobPerRun, LeaseProtectsJobs for any client; KeepsPromise: both backends implement JobQueue | 3 runs, 3 workers, 2 attempts: a recovery can race both a late receipt and another recovery |
| `system_faults` | RunningIsOwned and CompletedIsFinal whatever happens; ExclusiveAnalysis, OneDiagnosisPerRun, OrphansAreRegistered and InterruptedStagesAreClosed as long as no live worker outstays its lease | 1 run with redelivery, 2 incarnations, 2 attempts, 2 stages, deaths at any await, 1 stall |
| `system_errors` | RetryBudgetKept: begun attempts never exceed the budget plus one per death; QueueSpec: AnalysisSystem implements RedisQueue | 1 run, 2 incarnations, 3 attempts, 3 stages, deaths, 2 errors (each a Redis error or a gateway error) |
| `system_liveness` | EventuallyDecided, with deaths and with transactions that raise | 2 incarnations |
| `followup` | VerdictIsFinal, DecidedByLaterRun in every order of deliveries; LinkedToNextRun, against a reference definition, as long as deliveries arrive one by one in order of completion | 2 runs, 3 attempts each, 2 branches, 3 completions, 2 concurrent requests |
| `http_retry` | NeverEarly, BoundedWait, LostWriteIsNotRepeated | 3 tries, headers below, at and above the bound |
| `auth_sessions` | RotationKeepsSessions, EndedSessionsStayEnded, AccessIsCurrent | 2 instances, 2 requests, 2 sessions, whole rotation with rollback |
| `history` | NewestFirst always; NoGap as long as no request failed | 3 rows with 2 timestamps (ties), 3 requests, pages of 1, polls of 2, 1 upset (a status change or a failed request) |
| `diagnosis_content` | OnlyOwnRunsAreSent, CommentsStayHere, CompletedFailsClosed, PublishedDiffsAreVerified over all answers of GitHub; VerifiedIsSound and AppliedAsWritten for the hunk loop | 2 attempts (a trusted one can precede an untrusted one), files of 0, 2, 3 and 8 lines with repetitions, both newlines and missing ones, the longest with a rule diff of two hunks; diffs of one or two hunks of one or two lines (most pairs of marks) stated at 0 to 3, that may break off without a newline |
| `worker_drills` | PassIsTrue, FailureHasCause, HealthySoakIsAccepted, PlanIsPaced, for the replica drill and the container soak | victim and 2 replicas, the victim's job and one more, 1 unplanned break of the network besides the planned one; a report with every measurement at its limit, or exactly one of the ten beyond it; plans of 2 to 30 jobs |
| `restore_drills` | NothingLeftBehind, LaterDrillsKeepOff, EvidenceIsDeserved for PostgreSQL, Grafana and the soak; NoDefectIsMasked for the recovery evidence | 2 drills with one run id, overlapping in any way, any command failing, any drill killed; every combination of up to 3 defects in any order |

`CHECK_DEADLOCK FALSE` appears where the modelled activity really ends: a call
returns (`http_retry`), an analysis is decided (`diagnosis_content`), completions
and requests are bounded (`followup`, `history`), a drill is over (`worker_drills`,
`restore_drills`).

A disagreement between the documents and the code, as a run that TLC refutes:

| Run | Statement | What the code does |
|---|---|---|
| `unfenced_update` | CompletedIsFinal | the worker's verdict is an update without a token |

CompletedIsFinal passes in `system_faults` and is refuted in `unfenced_update`:
there one more fault is allowed, a transaction that raises.

Beyond that run, four statements of the documents are not kept by the code either;
no property asserts them, and the properties named say what holds instead:

* `README.md:374-375` says that startup reconciliation puts a QUEUED row without
  a job back. A Redis error after the claim (`worker.py:69`) makes a live worker
  forget its job while it renews its lease: recovery leaves the job alone, and a
  new enqueue is refused as a duplicate, until that worker ends. EventuallyDecided
  is checked without Redis errors, and a drill that fails for this reason is no
  false alarm (FailureHasCause).
* `docs/architecture.md:159` keeps a diff, of the rules or of the model, only if it
  passes the verification. A diff of the model that names no file is stored
  unverified when the log names no version (`pipeline.py:301`, action
  `AttachUnchecked`). PublishedDiffsAreVerified shows that no comment or check
  carries it; the dashboard, too, shows verified diffs only
  (`frontend/src/App.tsx:482`).
* `docs/worker-replica-drill.md:202` says that the soak cleans up on every path of
  success and failure. A container that `docker run` created but could not start is
  registered too late (`run_container_soak.py:454`) and stays, with the network and
  the volume it holds: NothingLeftBehind excepts it.
* The same line says that the soak removes only what it created. It looks for no
  existing names, and its `finally` removes the network and the volume of its run id
  even if `docker network create` failed because another soak with that id made them
  (`run_container_soak.py:637-638`): LaterDrillsKeepOff is about the restore drills,
  which do look, and leaves the soak out.

The conditions in the passing properties are where the code stops giving the
guarantee. What happens beyond them is known and can be seen by dropping the
condition and rerunning TLC:

* a stall: `record_stage` checks the token and inserts in two statements, so a
  superseded attempt can still add a row; a worker recovered between the
  heartbeat and the pop of its own `dequeue` takes a job as an unregistered
  worker, and if it dies nobody recovers that job (OrphansAreRegistered); two
  attempts overlap (ExclusiveAnalysis), and both may list before either writes
  (OneDiagnosisPerRun); the token is checked on entering PUBLISHING and not at
  the write, so the older attempt's text may replace the newer one's;
* a gateway error: a POST repeated after a 5xx that was carried out gives two
  diagnoses (OneDiagnosisPerRun);
* deliveries out of order: `record_followup_run` compares run ids and attempts,
  not completion times, so a run that finished later need not be the one that
  decides (LinkedToNextRun); a repeated delivery finds the failure it decided
  closed and decides the next older undecided one;
* a filter request that fails leaves the old rows and the old cursor under the
  new filter, and the next page skips rows (NoGap);
* a hunk without old lines (`@@ -N,0 +M,k @@`) names the line before the
  insertion, `_locate_hunk` takes it for the first old line, and the insertion
  lands one line early: AppliedAsWritten excepts it, VerifiedIsSound covers it;
* `apply_unified_diff` matches lines without their newlines and joins them with
  them. A diff whose last line has none and stays (context or added) runs it into
  the next line of the file, and an insertion behind a file that ends without a
  newline runs into its last line; only the parser of YAML, TOML or JSON may notice.
  VerifiedIsSound excepts these two cases (`BreaksOff`) and no others. Likewise
  the rule diff of a file whose last line is a pin without a newline has "-old" and
  "+new" in one line and is always refused (`RunsTogether`), so the fix is not shown;
* `update()` skips `None`: `model_name`, `prompt_version` and `baseline_sha` of an
  earlier attempt survive in a row whose later attempt used no model
  (CompletedFailsClosed is about diagnosis and diff);
* attempts that see different pull requests publish once as a comment and once
  as a check, and neither finds the other;
* `begin_analysis` is last-begin-wins: after a stall the loser acknowledges the
  job, and if the winner then dies its row stays RUNNING without a job;
  reconciliation reads QUEUED rows only;
* a worker that dies between `finish_analysis(FAILED)` and its own update to
  QUEUED leaves a FAILED row with tries left, and the recovered job is acknowledged
  without another attempt; recovery keeps the attempts of an envelope, so a run that
  kills its worker is tried again without limit (RetryBudgetKept: one more
  per death);
* two instances that sync the installations of one user at once: the later insert
  raises, and a harmless read is answered with an error (`InsertRaises`);
* a failure recorded after its successor was processed is resolved only by a run
  that comes even later;
* soak: a container that was created and could not be started is not in
  `created_containers` and stays, with the network and the volume it holds
  (NothingLeftBehind); `RedisTracker.retry` repeats a counting script whose answer
  was lost, so that one completion counts twice (FailureHasCause); the first poll of
  `wait_for("Redis")` raises if `redis-cli` cannot connect yet, instead of polling
  again;
* replica drill: `recovered` is raised at the end of a maintenance round, and a
  drill that reads it before fails without a fault; a job taken over from a live
  worker may still be running when the drill passes (PassIsTrue says so: a job done
  twice is still in somebody's hands);
* two restore drills with one run id at the same time, or a `docker inspect` that
  fails: one drill may remove what the other made (LaterDrillsKeepOff);
* recovery evidence: nothing compares `validated_at` of the restores with the
  cutover, so a drill that cut over to an unvalidated target passes.

## 4. Fairness

`FairSpec` assumes weak fairness of every step of live processes (an event loop
runs its ready tasks: webhook handlers, reconciliation, the worker's two tasks)
and of the expiry of a dead worker's lease (Redis expires keys). Deliveries,
restarts and faults are never owed. `Crash` leaves one worker alive: the
deployment keeps a replica running. A stage that always fails is no obstacle to
liveness, because the budget ends the retries.

## 5. Proofs

Every theorem is for all values of the constants that satisfy the named
assumptions of the modules (which TLC evaluates), and for as many actors as one
likes. Where a theorem has a hypothesis beyond those, it is stated below. Each
inductive invariant was checked by TLC on the run's instance first.

**RedisQueueProofs**: `QueueInvariant`, and from it `QueueTypeCorrect`,
`DedupeCorrect`, `OneJobCorrect` and `LeaseProtectsCorrect`, for any sets of runs
and workers and any `MaxAttempts` (assumption `MaxAttemptsAssumption`).
DedupeMatchesJobs and OneJobPerRun are inductive only together and with the types:
an acknowledgement may drop the id only because no other list has the run, and an
enqueue creates no second job only because a missing id means no job. The module
first states what `Cons`, `Front`, `RemoveFirst` and concatenation do to the runs of
a list and to its freedom from repetition, then has one lemma per action.

**QueueBackendsProofs**: `BackendsKeepPromise`, the refinement: under the mapping of
QueueBackends every step of the Redis queue and of the memory queue is a step of
JobQueue or leaves its state alone. The invariant is `QueueInv`, or for the memory
queue `MemInv` (no run waits twice or is both waiting and in a caller's hand, and the
set of ids is that of the jobs). Without it, a receipt could settle an envelope that
is not the caller's job, and a recovery would not give back a job unchanged.

**AnalysisSystemProofs** composes the proofs: `SystemInvariant` extends the queue's
invariant to the processes, and `SystemUsesQueue` shows that the system's steps are
steps of `QueueSpec`, so everything proved of the queue holds of the system. Then,
in layers, each on the invariants before it:

* `FenceInvariant` (a row has a token exactly while it says running, a token's owner
  is inside analyze for that run or dead, and between a failed attempt and the
  worker's own update the row says failed and only one worker is about to overwrite
  it) gives
  `RunningIsOwnedCorrect` and `CompletedIsFinalCorrect`. Hypothesis: no transaction
  raises (`"database" \notin Faults`). It is needed: `unfenced_update` refutes
  CompletedIsFinal without it. Stalls, Redis and gateway errors are all allowed.
* `LeaseInvariant` (as long as `stalls = 0`, a worker that is alive and past its
  first heartbeat is leased and registered, the job it works on is in its list, and
  a list with a job, of a live worker or a dead one, is registered) gives `ExclusiveAnalysisCorrect`
  and `OrphansCorrect`. The clause on stalls is that of the properties; there is no
  further hypothesis.
* `OwnerInvariant` (the attempt inside analyze has its token in the row, and open
  stage rows are the owner's) gives `InterruptedStagesCorrect`. For
  `OneDiagnosisCorrect` the invariant is that a listing is still true when its
  worker writes, because nobody else works on the run.
* `RetryBudgetCorrect` counts: the attempts begun for a run are those its envelope or
  its verdict accounts for, plus at most one per dead worker. Hypotheses: no
  transaction raises, `MaxStalls = 0` (the bound of `system_errors`), and a finite
  set of workers, so that the dead can be counted.

**FollowupProofs**: `FollowupInvariant` (a verdict, and a request that is about to
write one, name a completed attempt that is later than the row's and on its target)
gives `DecidedByLaterRunCorrect` and `VerdictIsFinalCorrect` for every order
of deliveries. `LinkedToNextRunCorrect` compares with the reference definition while
deliveries are orderly: its invariant says that every row is linked as the reference
definition says relative to the deliveries settled so far. It
assumes that a branch has at most one pull request and that no two branches
share a number (`OnePull`); otherwise the target of a run depends on which pull
request GitHub lists first.

**TrustProofs**, on sessions: `AuthInvariant` gives `AccessIsCurrentCorrect`,
`EndedSessionsCorrect` and `RotationCorrect`, for any number of instances, requests
and sessions. RotationKeepsSessions needs the parts on deployments and keys: instances
run the deployment that is rolled out or a neighbour of it, nothing is encrypted with
the new key while an instance does not have it, and once the old key is being removed
every session that can be used is under the new one. EndedSessionsStayEnded needs that
a stored hash was issued, since an issued one is never drawn again.

On the trust level of a run: `ContentInvariant`, and from it `OwnRunsCorrect`,
`CommentsCorrect`, `FailsClosedCorrect` and `PublishedDiffsCorrect`, for any files,
hunks and number of attempts. `TrustLevelSound` shows of `_trust_level` and
`_resolve_external_pull_request` that, over all combinations of missing data, only
a run of this repository is trusted and a pull request of another one is
unverified. The invariant ties what an attempt asks, keeps and posts to its trust
level, says that a saved row is the current attempt's (which is what closes the
case of an earlier trusted attempt), and that a step finds nothing a later step
makes.

On diffs: `PatchInvariant` gives `VerifiedIsSoundCorrect` and `AppliedAsWrittenCorrect`
for any file and any list of hunks (`PatchAssumption`: only the last line of a file or
of a body may lack its newline). The code walks forward with a cursor and the
reference definition (`SpliceAll`) replaces the hunks from the last to the first; the
invariant that joins them says that splicing the hunks applied so far into the lines
consumed so far, followed by any rest, gives the lines written followed by the same
rest. It also says that every place chosen so far exists and that the places do not
overlap, and that a diff whose headers are right is applied where they say (a hunk
without old lines whose header points beyond the file counts as at its end). What a fold
over the hunks yields needs an induction over data, made by taking a least
counterexample. That no two lines run together follows from where an open line can
stand: at the end of the file or of the last hunk only, so either it is the end of the
text or `BreaksOff` holds. `RuleDiffsCorrect` is about the diffs of the version rules,
for a file of any length with pins anywhere: the hunks `RuleDiff` writes fit where
they say, so they are never refused for their place, and the text they give is that of
the file with every pin replaced, nothing else changed and no lines run together.

**DockerDrillsProofs**: `DrillInvariant` gives `NothingLeftCorrect`, `KeepOffCorrect`
and `EvidenceCorrect` for any number of invocations with one run id and for all three
scripts. The scripts are concrete, so lemmas first say what each command of each of
them does and which checks precede which. The invariant then says, per drill, what
its position in the script implies: the objects it knows are those it made, or it was
blind; the container mounts its own volume; the checks passed so far are recorded. A
step of one drill leaves what is known of the others alone (`OtherDrill`).
`NoDefectIsMaskedCorrect`, about RecoveryEvidence, needs that the observation depends
on which defects occurred and not on their order, and then shows of each defect that
it fails a comparison which no other defect repairs.

**HttpClientProofs**, on the HTTP retry loop: `RetryInvariant`, and from it `RetryNeverEarly`,
`RetryBounded` and `RetryKeepsWrites`, for every policy that `RetryPolicy`
accepts (`PolicyAssumption`). The properties alone are not inductive: that a
sleeping call wakes up late enough and within the bound needs what is known of
the delay it sleeps, so the invariant adds, for a sleeping call, tries left, a
bounded delay that ends after the instant the server asked for, and that a lost
reply implies an idempotent method. `PowerAssumption` (powers of two are
naturals) is arithmetic the prover has no rule for; TLC evaluates it.

On the dashboard's list: `HistoryInvariant` gives `NewestFirstCorrect` and `NoGapCorrect` for any table, page size and number of requests under way. A cursor is
the place of a row, and rows keep their place, so what an answer says of its page
stays true while the answer is on its way; the request whose answer will be used has
the screen's filter and continues the list that its cursor ends. For NoGap, the rows
that matched all along match whenever the next page can be asked for, so the next page
has them. The module proves what sorting a set returns (`OrderExists`) and that
filtering an appended page drops nothing (`NothingDropped`): both are inductions over
data, made by taking a least counterexample (`LeastNumber`).

**WorkerDrillsProofs**: `DrillInvariant`, for any finite set of workers, any list of
jobs and any number of breaks of the network, over the queue's own invariant. Its
parts: no call has tried more often than its provider was asked, and every run that
got an answer got one that no other run got (so no synthetic analysis raises, and two
finished runs mean four requests); the runs really finished are those recorded, but for
the workers about to record one (a finite set, so that they can be counted); the victim
is killed with its job started, and whoever takes that job starts it again; unless a
break spoiled the soak there is one job to recover, and it is in the victim's list, in
one round's count or in the metric; no run id is left once the waits are over. From it:

* `PassIsTrueCorrect`: the deduplication set is empty when a drill judges, and by the
  queue's invariant then every list is, read or not;
* `HealthySoakIsAcceptedCorrect`: the observation is evaluated field by field against
  every comparison of the verifier, and each measurement beyond its limit against the
  one that refuses it. Hypothesis: two jobs or more (both profiles have at
  least 25); one job alone would leave a provider with three requests;
* `PlanIsPacedCorrect`, from a lemma (`PlanPaced`) for every number of jobs from two on
  and every burst size, by division with remainder;
* `FailureHasCauseCorrect`, which needs a second invariant, kept while no break has
  spoiled the drill. A worker that works has its job in its own list, a list has at most
  one job, and only the victim that is gone has one without working on it (`HandsOK`).
  Every run is either not sent and never started, or in the queue and not completed (but
  for the worker about to acknowledge it), or out of the queue and completed once
  (`JobsOK`). Where the driver is says how much of the batch is sent (`DriverOK`). In a
  replica drill without a break the abandoned job is in its list, in one round's count or
  in the metric (`RoundsOK`). So when nothing moves any more no list has a job, hence no
  run id is left, hence all that was sent is completed: no wait expires. Hypothesis: the
  batch has no run twice (`BatchAssumption`; `enqueue_jobs` numbers its runs
  consecutively). The attempt showed that the history variable `spoiled` had missed one
  case that needs two unplanned breaks, more than the run has: a job sent, finished, and
  sent again by a call whose own answer is lost too. `EnqueueRaises` records it now.

Only model-checked: EventuallyDecided, because liveness is out of this prover's reach.

## 6. Limits

* Text is not modelled: logs, prompts, comment bodies, JSON. A payload that does
  not validate ends its request without effect; a check of a diff's text may
  refuse any diff.
* DiagnosisContent follows one diff per diagnosis, and attempts do not overlap in
  it: overlapping attempts are AnalysisSystem's subject.
* In AnalysisSystem the choice between comment and check, and whether a run is
  published at all, is the same for all attempts of a run; the listing finds the object if there is
  one (all pages are read; for checks, GitHub lists the latest of each name).
* A network round trip of HttpRetry takes no time, which is the worst case for
  NeverEarly; BoundedWait is about sleeping only.
* Two completions at the same second do not occur in FollowupResolution.
* A dead worker does not come back under its id. An API instance that is replaced
  drops its requests.
* PatchVerification: of neighbouring pins difflib puts the removed lines before the
  added ones, and where the file already has the new line it may pair lines in another
  way; `RuleDiff` alternates them. The changed file is the same.
* FollowupResolution: every run names its head branch. One without is matched by its
  pull request only, or not at all.
* AuthSessions: `auth_required` is set, what decrypts is a token (the
  `UnicodeDecodeError` of `authenticate` does not occur), and the session of a login is
  created together with the INSERT of its installations, although in a transaction of
  its own: nobody knows its hash before.
* The drills' latencies, their comparison with service objectives, and the samples
  of `docker stats` are chosen: all at their limits, or one of them beyond. Checks
  of arguments may refuse any drill. Evidence files are taken as well formed: field
  sets, identifiers and digests are not modelled.
* In DrillWorkers the network breaks for everyone at once, and at most once beyond
  the plan. A lease runs out only while its worker is gone or cut off; outages of
  the soak are shorter than a lease, like the one it plans, those of the replica
  drill may be longer. The soak kills its victim before the victim's sleep of four
  leases ends: a runner that took longer would find the job finished. The replica
  drill's producer may give up (`redis_recovery_timeout_seconds`) at any call that
  raises.
* DockerDrills: the soak's three services, and its four workers, are started by one
  command each; `cleanup` of the restore drills inspects and removes in one step.
* RecoveryEvidence: times are whole milliseconds, so that rounding the rollback
  duration to three decimals changes nothing; a rollback less than half a
  millisecond beyond its objective would pass.
* Type invariants are checked where a proof or a composition builds on them
  (QueueTypeOK, SystemTypeOK; RetryTypeOK is part of the proved invariant).

Not modelled:

* text analysis (`classifier.py`, `preprocessing.py`, `relevance.py`,
  `diagnosis.py`, `sanitizer.py`) and `llm.py`: pure functions on text, and one
  request through the modelled retry;
* `config.py`, `bootstrap.py`, `security.py`, `metrics.py`: validation at start,
  wiring, an HMAC comparison, counters; what they guarantee to the models is in
  the ASSUMEs;
* `evaluation.py`, `patch_evaluation.py`: offline scoring; `migrations/`: a linear
  history that is applied before the start;
* the other evidence verifiers (`ops/secrets`, `ops/acceptance`,
  `ops/alertmanager`): stateless comparisons of the kind RecoveryEvidence has;
  the scripts under `ops/ci`, `ops/ghcr`, `ops/governance` and the browser test: one
  pass over configuration or over answers of GitHub.

## 7. Plan

Done, in this order: RedisQueue and its proofs; AnalysisStore,
DiagnosisComments, AnalysisSystem; FollowupResolution; HttpRetry and
its proofs; AuthSessions; AnalysisHistory; PatchVerification, DiagnosisContent
and its proofs; JobQueue, MemoryQueue and QueueBackends; DrillWorkers,
SoakEvidence, ContainerSoak, ReplicaDrill; DockerDrills, RecoveryEvidence.

Then the proofs of the queue's backends, of AnalysisSystem, FollowupResolution,
AuthSessions, DockerDrills and RecoveryEvidence; of AnalysisHistory and
PatchVerification; of the worker drills.

Next:

1. an abstract ledger of analyses (queued, running, decided) and AnalysisSystem
   as an implementation of it; the choice of comment or check per attempt;
2. the log window of `preprocessing.py`, paging of comments and checks, feedback.
