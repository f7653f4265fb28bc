--------------------------- MODULE FollowupResolution ---------------------------
(***************************************************************************)
(* How a failed run is linked with what came after it: record_followup_run *)
(* (store.py) and the part of github_webhook (main.py) around it.  GitHub  *)
(* delivers each completed run of a workflow any number of times and in    *)
(* any order, to any API replica.  The handler first lets the run resolve  *)
(* an earlier failure, then records the run itself if it failed.           *)
(*                                                                         *)
(* record_followup_run is one transaction with two statements: a SELECT    *)
(* that picks the candidate and an UPDATE that repeats part of its WHERE   *)
(* clause; create_if_absent is another transaction.  Other replicas act in *)
(* between.  One repository and one workflow are modelled, since both are  *)
(* compared for equality throughout, and every run names its head branch:  *)
(* one without (head_branch None, which is matched by its pull request     *)
(* only, or not at all) is left out.                                       *)
(***************************************************************************)
EXTENDS Naturals, Sequences

CONSTANTS
    NumRuns,       \* run ids are 1 .. NumRuns, in the order the runs started
    NumAttempts,   \* bound: GitHub run attempts (re-runs) of a run
    Branches,      \* head branches
    Pulls,         \* Pulls[b]: pull request numbers GitHub may name for branch b
    NoPull,        \* the payload's pull_requests list is empty
    MaxCompletions,\* bound: completed run attempts
    Handlers       \* webhook requests served at the same time

ASSUME FollowupAssumption ==
    /\ NumRuns \in Nat /\ NumAttempts \in Nat /\ MaxCompletions \in Nat
    /\ \A b \in Branches : NoPull \notin Pulls[b]

Runs == 1 .. NumRuns
Attempts == 1 .. NumAttempts

\* NULL in the resolution columns; a handler without a request.
Unresolved == [outcome |-> "none", run |-> 0, attempt |-> 0, at |-> 0]
Idle == [at |-> 0, step |-> "idle", candidate |-> 0]

VARIABLES
    history,     \* completed run attempts, in order; the position is completed_at
    rows,        \* the analyses table: a function on the run ids that have a row
    handler,     \* what a request is about to do
    delivered,   \* positions of history that some request has received
    orderly      \* so far everything happened the way the tests exercise it

followupVars == <<history, rows, handler, delivered, orderly>>

Completion == [run : Runs, attempt : Attempts, conclusion : {"success", "failure"},
               branch : Branches, pull : UNION {Pulls[b] : b \in Branches} \cup {NoPull}]

Resolution == [outcome : {"resolved", "still_failing"}, run : Runs, attempt : Attempts,
               at : 1 .. MaxCompletions]

\* A row of the analyses table, as far as it matters here.
Row == [attempt : Attempts, branch : Branches, at : 1 .. MaxCompletions,
        pull : UNION {Pulls[b] : b \in Branches} \cup {NoPull},
        resolution : Resolution \cup {Unresolved}]

\* A request that is being served.
Request == [at : 1 .. MaxCompletions, step : {"update", "create"}, candidate : Runs \cup {0}]

FollowupInit ==
    /\ history = <<>>
    /\ rows = <<>>
    /\ handler = [h \in Handlers |-> Idle]
    /\ delivered = {}
    /\ orderly = TRUE

-----------------------------------------------------------------------------
(* GitHub                                                                  *)

\* (run, attempt) as GitHub orders them.
Precedes(r1, a1, r2, a2) == r1 < r2 \/ (r1 = r2 /\ a1 < a2)

\* A run attempt ends: re-runs follow each other, different runs overlap.
Complete(e) ==
    /\ Len(history) < MaxCompletions
    /\ e.pull \in Pulls[e.branch] \cup {NoPull}
    /\ \A i \in DOMAIN history : history[i].run = e.run =>
        history[i].attempt < e.attempt /\ history[i].branch = e.branch
    /\ history' = Append(history, e)
    /\ orderly' = (orderly /\ \A i \in DOMAIN history : history[i].branch = e.branch =>
                                Precedes(history[i].run, history[i].attempt, e.run, e.attempt))
    /\ UNCHANGED <<rows, handler, delivered>>

-----------------------------------------------------------------------------
(* record_followup_run                                                     *)

\* target_match: by pull request number where there is one, else by branch.
TargetMatch(row, e) ==
    IF e.pull = NoPull
    THEN row.branch = e.branch
    ELSE row.pull = e.pull \/ (row.pull = NoPull /\ row.branch = e.branch)

\* Mutant: a re-run of the failed run finds it decided.
OpenOnce(r, e) == rows[r].resolution = Unresolved

\* unresolved_or_same_run_retry.
Open(r, e) ==
    LET res == rows[r].resolution IN
    \/ res = Unresolved
    \/ /\ r = e.run
       /\ res.outcome = "still_failing"
       /\ res.run = e.run
       /\ res.attempt < e.attempt

\* Mutant: prior_run is missing.
CandidatesInAnyOrder(e) ==
    {r \in DOMAIN rows : TargetMatch(rows[r], e) /\ Open(r, e)}

\* The rows that satisfy the WHERE clause of the SELECT.
Candidates(e) ==
    {r \in DOMAIN rows :
        /\ TargetMatch(rows[r], e)
        /\ Precedes(r, rows[r].attempt, e.run, e.attempt)
        /\ Open(r, e)}

\* ORDER BY run_completed_at DESC, run_id DESC, run_attempt DESC LIMIT 1.
LatestFirst(e) ==
    {r \in Candidates(e) : \A q \in Candidates(e) :
        rows[q].at < rows[r].at \/ (rows[q].at = rows[r].at /\ q <= r)}

\* What a request does after record_followup_run: only failures are recorded.
ThenCreate(i) ==
    IF history[i].conclusion = "failure"
    THEN [at |-> i, step |-> "create", candidate |-> 0]
    ELSE Idle

\* A delivery arrives and its SELECT runs.
Receive(h, i) ==
    /\ handler[h] = Idle
    /\ LET e == history[i] IN
        \/ \E r \in LatestFirst(e) :
            handler' = [handler EXCEPT ![h] = [at |-> i, step |-> "update", candidate |-> r]]
        \/ /\ LatestFirst(e) = {}
           /\ handler' = [handler EXCEPT ![h] = ThenCreate(i)]
    /\ delivered' = delivered \cup {i}
    /\ orderly' = (orderly /\ delivered = 1 .. i - 1 /\ \A g \in Handlers : handler[g] = Idle)
    /\ UNCHANGED <<history, rows>>

\* What the UPDATE writes.
ResolutionBy(e, i) ==
    [outcome |-> IF e.conclusion = "success" THEN "resolved" ELSE "still_failing",
     run |-> e.run, attempt |-> e.attempt, at |-> i]

\* Mutant: the UPDATE trusts the SELECT.
UpdateBlindly(h) ==
    /\ handler[h].step = "update"
    /\ LET i == handler[h].at
           r == handler[h].candidate
       IN /\ rows' = [rows EXCEPT ![r].resolution = ResolutionBy(history[i], i)]
          /\ handler' = [handler EXCEPT ![h] = ThenCreate(i)]
    /\ UNCHANGED <<history, delivered, orderly>>

\* The UPDATE: a candidate that was decided meanwhile is left alone.
Update(h) ==
    /\ handler[h].step = "update"
    /\ LET i == handler[h].at
           r == handler[h].candidate
       IN /\ rows' = IF Open(r, history[i])
                     THEN [rows EXCEPT ![r].resolution = ResolutionBy(history[i], i)]
                     ELSE rows
          /\ handler' = [handler EXCEPT ![h] = ThenCreate(i)]
    /\ UNCHANGED <<history, delivered, orderly>>

\* create_if_absent: one row per run id, whatever the attempt.
Create(h) ==
    /\ handler[h].step = "create"
    /\ LET i == handler[h].at
           e == history[i]
       IN rows' = [r \in DOMAIN rows \cup {e.run} |->
                    IF r \in DOMAIN rows
                    THEN rows[r]
                    ELSE [attempt |-> e.attempt, branch |-> e.branch, pull |-> e.pull,
                          at |-> i, resolution |-> Unresolved]]
    /\ handler' = [handler EXCEPT ![h] = Idle]
    /\ UNCHANGED <<history, delivered, orderly>>

\* The request dies between two statements; an open transaction rolls back.
Abandon(h) ==
    /\ handler[h] # Idle
    /\ handler' = [handler EXCEPT ![h] = Idle]
    /\ orderly' = FALSE
    /\ UNCHANGED <<history, rows, delivered>>

-----------------------------------------------------------------------------

FollowupNext ==
    \/ \E e \in Completion : Complete(e)
    \/ \E h \in Handlers :
        \/ \E i \in DOMAIN history : Receive(h, i)
        \/ Update(h)
        \/ Create(h)
        \/ Abandon(h)

FollowupSpec == FollowupInit /\ [][FollowupNext]_followupVars

-----------------------------------------------------------------------------
(* Properties                                                              *)

IsDecided(r) == r \in DOMAIN rows /\ rows[r].resolution # Unresolved

(***************************************************************************)
(* A verdict is not taken back: resolved stays, and still_failing changes  *)
(* only to the verdict of a later attempt of the failed run itself, also   *)
(* when two replicas picked the same candidate before either updated it.   *)
(***************************************************************************)
VerdictIsFinal ==
    [][\A r \in Runs : IsDecided(r) =>
        \/ rows'[r] = rows[r]
        \/ /\ rows[r].resolution.outcome = "still_failing"
           /\ rows'[r].resolution.run = r
           /\ rows[r].resolution.run = r
           /\ rows[r].resolution.attempt < rows'[r].resolution.attempt]_followupVars

(***************************************************************************)
(* The run that decides a failure was started after it, on the same target:*)
(* never the failed attempt itself, an earlier attempt delivered late, or  *)
(* a run of another branch.                                                *)
(***************************************************************************)
DecidedByLaterRun ==
    \A r \in Runs : IsDecided(r) =>
        LET res == rows[r].resolution IN
        /\ Precedes(r, rows[r].attempt, res.run, res.attempt)
        /\ TargetMatch(rows[r], history[res.at])

(***************************************************************************)
(* Reference definition: the events after a failure that concern it are    *)
(* the later ones on its branch.  The first of them decides, and while the *)
(* verdict is a failed re-run of the same run, the next re-run decides.    *)
(***************************************************************************)
After(i) == {j \in delivered : j > i /\ history[j].branch = history[i].branch}

DecidedBy(i, j) ==
    /\ j \in After(i)
    /\ \/ \A k \in After(i) : j <= k
       \/ history[j].run = history[i].run
    /\ \A k \in After(i) : k > j =>
        history[k].run # history[i].run \/ history[j].conclusion = "success"
    /\ \A k \in After(i) : k < j =>
        history[k].run = history[i].run /\ history[k].conclusion = "failure"

(***************************************************************************)
(* While the runs of a branch end in the order they started and each is    *)
(* delivered once, in that order, to a handler that finishes before the    *)
(* next, every failure is linked with the run the reference definition     *)
(* names, and with none only while there is none.                          *)
(***************************************************************************)
LinkedToNextRun ==
    orderly /\ (\A h \in Handlers : handler[h] = Idle) =>
        \A r \in DOMAIN rows :
            IF IsDecided(r)
            THEN /\ DecidedBy(rows[r].at, rows[r].resolution.at)
                 /\ rows[r].resolution = ResolutionBy(history[rows[r].resolution.at],
                                                      rows[r].resolution.at)
            ELSE After(rows[r].at) = {}

=============================================================================
