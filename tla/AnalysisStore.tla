----------------------------- MODULE AnalysisStore -----------------------------
(***************************************************************************)
(* The part of AnalysisStore (store.py) that the queue, the workers and    *)
(* the API share: the status and attempt_token columns of the analyses     *)
(* table and the STARTED rows of analysis_stage_events.  One action is one *)
(* database transaction, except record_stage: its SELECT and its INSERT    *)
(* are two statements under READ COMMITTED, and the token can change in    *)
(* between.                                                                *)
(*                                                                         *)
(* An attempt token is a fresh uuid drawn by pipeline.analyze.  A worker   *)
(* runs one attempt at a time and only compares its own current token with *)
(* the column, so the token is represented by the worker that drew it.     *)
(***************************************************************************)
EXTENDS Identities

CONSTANT NoToken  \* NULL in the attempt_token column

ASSUME NoTokenAssumption == NoToken \notin Workers

VARIABLES
    status,      \* analyses.status of every run; "absent": there is no row
    token,       \* analyses.attempt_token
    startedRows  \* attempts that own a stage row whose status is STARTED

storeVars == <<status, token, startedRows>>

Status == {"absent", "queued", "running", "completed", "failed"}

StoreTypeOK ==
    /\ status \in [Runs -> Status]
    /\ token \in [Runs -> Workers \cup {NoToken}]
    /\ startedRows \in [Runs -> SUBSET Workers]

StoreInit ==
    /\ status = [r \in Runs |-> "absent"]
    /\ token = [r \in Runs |-> NoToken]
    /\ startedRows = [r \in Runs |-> {}]

\* The token predicate of every fenced statement.
IsCurrent(r, w) == token[r] = w

\* create_if_absent: the primary key makes a second insert a no-op.
CreateIfAbsent(r) ==
    /\ status' = [status EXCEPT ![r] = IF @ = "absent" THEN "queued" ELSE @]
    /\ UNCHANGED <<token, startedRows>>

\* Mutant: begin_analysis without its status filter.
CanBeginAnyRow(r) == status[r] # "absent"

\* The WHERE clause of begin_analysis: a finished analysis is not begun again.
CanBegin(r) == status[r] \in {"queued", "running"}

\* Mutant: begin_analysis leaves the rows of earlier attempts open.
BeginWithoutClosing(r, w) ==
    /\ CanBegin(r)
    /\ status' = [status EXCEPT ![r] = "running"]
    /\ token' = [token EXCEPT ![r] = w]
    /\ UNCHANGED startedRows

\* begin_analysis takes the row over and closes the earlier attempts' stages.
BeginAnalysis(r, w) ==
    /\ CanBegin(r)
    /\ status' = [status EXCEPT ![r] = "running"]
    /\ token' = [token EXCEPT ![r] = w]
    /\ startedRows' = [startedRows EXCEPT ![r] = {}]

\* Mutant: the pipeline saves without its token.
UpdateIgnoringToken(r, w) ==
    /\ status' = [status EXCEPT ![r] = "running"]
    /\ UNCHANGED <<token, startedRows>>

\* update with a token: the status write of a pipeline that saves results.
UpdateFenced(r, w) ==
    /\ IsCurrent(r, w)
    /\ status' = [status EXCEPT ![r] = "running"]
    /\ UNCHANGED <<token, startedRows>>

\* update without a token: the worker's verdict after a failed attempt.
Update(r, s) ==
    /\ status' = [status EXCEPT ![r] = IF @ = "absent" THEN @ ELSE s]
    /\ UNCHANGED <<token, startedRows>>

\* finish_analysis: the token is matched and cleared in one statement.
FinishAnalysis(r, w, s) ==
    /\ IsCurrent(r, w)
    /\ status' = [status EXCEPT ![r] = s]
    /\ token' = [token EXCEPT ![r] = NoToken]
    /\ UNCHANGED startedRows

\* The INSERT of record_stage(STARTED); the SELECT before it is IsCurrent.
InsertStartedRow(r, w) ==
    /\ startedRows' = [startedRows EXCEPT ![r] = @ \cup {w}]
    /\ UNCHANGED <<status, token>>

=============================================================================
