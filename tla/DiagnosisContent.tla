--------------------------- MODULE DiagnosisContent ---------------------------
(***************************************************************************)
(* What a diagnosis is made of and where it goes (pipeline._analyze and    *)
(* the repository context of github.py): the trust level found from what   *)
(* GitHub says of the run, the data sent to the language model, the diffs  *)
(* that are offered, the row and the publication.  One run is analysed in  *)
(* up to MaxAttempts attempts, one after the other, and every attempt asks *)
(* GitHub again: an answer may leave out what the last one had.            *)
(***************************************************************************)
EXTENDS PatchVerification

CONSTANT MaxAttempts
ASSUME AttemptsAssumption == MaxAttempts \in Nat \ {0}

VARIABLES
    origin,   \* the repository the run's commit comes from: "this" or "fork"
    attempt,  \* the current attempt
    step,     \* where it is
    trust,    \* trust_level of its repository context
    pull,     \* the repository whose pull request was listed first, or "none"
    author,   \* who wrote the diagnosis at hand
    asked,    \* the model was called in this attempt
    kept,     \* the diff of the diagnosis at hand: none, verified or unchecked
    row,      \* trust_level, author and diff of the stored diagnosis
    posted    \* what this attempt published

attemptVars == <<attempt, step, trust, pull, author, asked, kept, posted>>
contentVars == <<origin, attemptVars, row, patchVars>>

TrustLevels == {"trusted", "untrusted_fork", "unverified"}
Diffs == {"none", "verified", "unchecked"}
Nothing == [kind |-> "none", pull |-> "none", diff |-> FALSE]

ContentInit ==
    /\ NoPatch
    /\ origin \in {"this", "fork"}
    /\ attempt = 1
    /\ step = "collect"
    /\ trust = "unverified"
    /\ pull = "none"
    /\ author = "rules"
    /\ asked = FALSE
    /\ kept = "none"
    /\ row = [trust |-> "unverified", author |-> "nobody", diff |-> "none"]
    /\ posted = Nothing

-----------------------------------------------------------------------------
(* What GitHub says of a run: true where it says something                 *)

Missing == "missing"

\* id and full_name of a repository, which may be null.
Views(repo) ==
    [null : {FALSE}, id : {Missing, repo}, name : {Missing, repo}]
    \cup [null : {TRUE}, id : {Missing}, name : {Missing}]

PullRequests(base) == [of : {base}, head : Views(origin), base : Views(base)]

WorkflowRuns ==
    [pulls : {<<>>} \cup {<<p>> : p \in PullRequests("this") \cup PullRequests("other")},
     head : {Missing, origin},
     event : {"pull_request", "push"}]

\* Pull requests of /pulls whose head and base are those of the run.
Found ==
    LET p == {q \in PullRequests("this") : q.head.name = origin /\ q.base.name = "this"}
    IN {<<>>} \cup {<<q>> : q \in p} \cup {<<q, q>> : q \in p}

Level(same) == IF same THEN "trusted" ELSE "untrusted_fork"
LevelOfHead(name) == IF name = Missing THEN "unverified" ELSE Level(name = "this")

\* Mutant: the base of the pull request is not compared.
TrustLevelAnyBase(run) ==
    IF run.pulls = <<>> THEN LevelOfHead(run.head)
    ELSE LET p == Head(run.pulls) IN
        IF p.head.name # Missing THEN Level(p.head.name = "this") ELSE "unverified"

\* _trust_level
TrustLevel(run) ==
    IF run.pulls = <<>> THEN LevelOfHead(run.head)
    ELSE LET p == Head(run.pulls) IN
        IF p.base.name # "this" THEN "unverified"
        ELSE IF Missing \notin {p.head.id, p.base.id} THEN Level(p.head.id = p.base.id)
        ELSE IF p.head.name # Missing THEN Level(p.head.name = "this")
        ELSE IF ~p.head.null THEN "unverified"
        ELSE LevelOfHead(run.head)

\* _resolve_external_pull_request: a fork's only matching pull request.
ResolveExternalPullRequest(run, found) ==
    IF /\ run.pulls = <<>>
       /\ run.event = "pull_request"
       /\ TrustLevel(run) = "untrusted_fork"
       /\ Len(found) = 1
    THEN [run EXCEPT !.pulls = found]
    ELSE run

-----------------------------------------------------------------------------
(* The attempt                                                             *)

\* repository_context answers, and the trust level is stored.
Collect ==
    /\ step = "collect"
    /\ \E found \in Found, listed \in WorkflowRuns :
        LET run == ResolveExternalPullRequest(listed, found) IN
        /\ trust' = TrustLevel(run)
        /\ pull' = IF run.pulls = <<>> THEN "none" ELSE Head(run.pulls).of
    /\ row' = [row EXCEPT !.trust = trust']
    /\ step' = "diagnose"
    /\ UNCHANGED <<origin, attempt, author, asked, kept, posted, patchVars>>

\* Mutant: a context that could not be read counts as trusted.
CollectTrustingLogs ==
    /\ step = "collect"
    /\ trust' = "trusted"
    /\ pull' = "none"
    /\ row' = [row EXCEPT !.trust = trust']
    /\ step' = "diagnose"
    /\ UNCHANGED <<origin, attempt, author, asked, kept, posted, patchVars>>

\* It raises, and _repository_context goes on with the logs alone.
CollectLogsOnly ==
    /\ step = "collect"
    /\ trust' = "unverified"
    /\ pull' = "none"
    /\ row' = [row EXCEPT !.trust = trust']
    /\ step' = "diagnose"
    /\ UNCHANGED <<origin, attempt, author, asked, kept, posted, patchVars>>

\* The model's diagnosis, or the rules': without a provider, for a run that is
\* not trusted, and when the call or the validation of its evidence fails.
Diagnose ==
    /\ step = "diagnose"
    /\ asked' \in {FALSE, trust = "trusted"}
    /\ author' \in IF asked' THEN {"rules", "model"} ELSE {"rules"}
    /\ step' = "attach"
    /\ UNCHANGED <<origin, attempt, trust, pull, kept, row, posted, patchVars>>

\* _attach_verified_patches of a diff by a rule or by the model.
Attach ==
    /\ step = "attach"
    /\ trust = "trusted"
    /\ \E f \in Files :
        \/ /\ HasPin(f)
           /\ Submit(f, RuleDiff(f), IF RunsTogether(f) THEN "objected" ELSE "checking")
        \/ /\ author = "model"
           /\ \E d \in ModelDiffs : Submit(f, d, "checking")
    /\ step' = "check"
    /\ UNCHANGED <<origin, attempt, trust, pull, author, asked, kept, row, posted>>

\* No diff is left: none was made, its file could not be read, or the run is
\* not trusted and strip_patches took it out.
AttachNothing ==
    /\ step = "attach"
    /\ step' = "save"
    /\ UNCHANGED <<origin, attempt, trust, pull, author, asked, kept, row, posted, patchVars>>

\* The model's diff names no file and the log no version: _attach_verified_patches
\* returns before any verification, and the diff stays in the diagnosis.
AttachUnchecked ==
    /\ step = "attach"
    /\ trust = "trusted"
    /\ author = "model"
    /\ kept' = "unchecked"
    /\ step' = "save"
    /\ UNCHANGED <<origin, attempt, trust, pull, author, asked, row, posted, patchVars>>

Check ==
    /\ step = "check"
    /\ ApplyHunk \/ Verify \/ Reject \/ Object
    /\ UNCHANGED <<origin, attemptVars, row>>

\* verify_patch_suggestions: a diff that is not verified leaves its suggestion.
Checked ==
    /\ step = "check"
    /\ verdict \in {"verified", "rejected", "objected"}
    /\ kept' = IF verdict = "verified" THEN "verified" ELSE "none"
    /\ step' = "save"
    /\ Clear
    /\ UNCHANGED <<origin, attempt, trust, pull, author, asked, row, posted>>

\* Mutant: an empty list of diffs is skipped like an absent argument.
SaveSkippingEmpty ==
    /\ step = "save"
    /\ row' = [trust |-> trust, author |-> author,
                diff |-> IF kept = "none" THEN row.diff ELSE kept]
    /\ step' = "publish"
    /\ UNCHANGED <<origin, attempt, trust, pull, author, asked, kept, posted, patchVars>>

\* The update that stores the diagnosis.
Save ==
    /\ step = "save"
    /\ row' = [trust |-> trust, author |-> author, diff |-> kept]
    /\ step' = "publish"
    /\ UNCHANGED <<origin, attempt, trust, pull, author, asked, kept, posted, patchVars>>

\* Mutant: every diff of the diagnosis is rendered.
PublishAnyDiff ==
    /\ step = "publish"
    /\ posted' = IF pull # "none" /\ trust # "unverified"
                 THEN [kind |-> "comment", pull |-> pull, diff |-> kept # "none"]
                 ELSE IF trust = "trusted"
                 THEN [kind |-> "check", pull |-> "none", diff |-> kept # "none"]
                 ELSE Nothing
    /\ step' = "finish"
    /\ UNCHANGED <<origin, attempt, trust, pull, author, asked, kept, row, patchVars>>

\* A comment where there is a pull request, a check for a trusted commit
\* without one, otherwise nothing.  Only verified diffs are rendered.
Publish ==
    /\ step = "publish"
    /\ posted' = IF pull # "none" /\ trust # "unverified"
                 THEN [kind |-> "comment", pull |-> pull, diff |-> kept = "verified"]
                 ELSE IF trust = "trusted"
                 THEN [kind |-> "check", pull |-> "none", diff |-> kept = "verified"]
                 ELSE Nothing
    /\ step' = "finish"
    /\ UNCHANGED <<origin, attempt, trust, pull, author, asked, kept, row, patchVars>>

\* publish_checks is off.
PublishNothing ==
    /\ step = "publish"
    /\ step' = "finish"
    /\ UNCHANGED <<origin, attempt, trust, pull, author, asked, kept, row, posted, patchVars>>

\* finish_analysis
Finish ==
    /\ step = "finish"
    /\ step' = "completed"
    /\ UNCHANGED <<origin, attempt, trust, pull, author, asked, kept, row, posted, patchVars>>

\* Something raises.  The row keeps what the attempt has stored, and the next
\* attempt starts afresh.
Raise ==
    /\ step \notin {"completed", "failed"}
    /\ \/ attempt < MaxAttempts /\ attempt' = attempt + 1 /\ step' = "collect"
       \/ attempt = MaxAttempts /\ step' = "failed" /\ UNCHANGED attempt
    /\ trust' = "unverified"
    /\ pull' = "none"
    /\ author' = "rules"
    /\ asked' = FALSE
    /\ kept' = "none"
    /\ posted' = Nothing
    /\ Clear
    /\ UNCHANGED <<origin, row>>

ContentNext ==
    \/ Collect \/ CollectLogsOnly \/ Diagnose \/ Attach \/ AttachNothing \/ AttachUnchecked
    \/ Check \/ Checked \/ Save \/ Publish \/ PublishNothing \/ Finish \/ Raise

ContentSpec == ContentInit /\ [][ContentNext]_contentVars

-----------------------------------------------------------------------------
(* Properties                                                              *)

(***************************************************************************)
(* Nothing of a run from outside this repository is sent to the model or   *)
(* read for diffs, whatever GitHub leaves out of its answers               *)
(* (decisions.md D-085: trust is given only where it is proved).           *)
(***************************************************************************)
OnlyOwnRunsAreSent == asked \/ verdict # "none" => origin = "this"

(***************************************************************************)
(* A comment goes to a pull request of this repository: a run may be       *)
(* listed with a pull request of another one, whose number means nothing   *)
(* here.                                                                   *)
(***************************************************************************)
CommentsStayHere == posted.kind = "comment" => posted.pull = "this"

(***************************************************************************)
(* A completed analysis whose trust level is not trusted offers the rules' *)
(* diagnosis without a diff, also when an earlier attempt was trusted and  *)
(* had stored the model's.                                                 *)
(***************************************************************************)
CompletedFailsClosed ==
    step = "completed" /\ row.trust # "trusted" => row.author = "rules" /\ row.diff = "none"

(***************************************************************************)
(* A diff that readers of a comment or a check are shown was verified, for *)
(* a run of this repository, and the row they are sent to holds the same   *)
(* verdict.  A diff of the model that names no file skips the verification *)
(* (AttachUnchecked) and is stored; it must not get any further.           *)
(***************************************************************************)
PublishedDiffsAreVerified ==
    posted.diff => origin = "this" /\ row.trust = "trusted" /\ row.diff = "verified"

=============================================================================
