------------------------------ MODULE AuthSessions ------------------------------
(***************************************************************************)
(* Dashboard sessions (auth.py, the auth tables of store.py, the session   *)
(* routes of main.py) on several API instances that share the database,    *)
(* while the Fernet key is rotated the way docs/secrets-and-rotation.md    *)
(* prescribes.  A store call is one transaction; a request of another      *)
(* instance may come between two of them.                                  *)
(*                                                                         *)
(* A ciphertext is represented by the key it was made with: a key ring     *)
(* decrypts it exactly when it holds that key.  One user is modelled: no   *)
(* statement touches rows of two users.  The OAuth exchange with GitHub    *)
(* either yields that user or ends the request.  auth_required is set, and *)
(* what decrypts is a token: access tokens are encrypted as they came, so  *)
(* the UnicodeDecodeError of authenticate does not occur.                  *)
(***************************************************************************)
EXTENDS Naturals, Sequences, SequencesExt

CONSTANTS
    Instances,      \* API processes
    Requests,       \* requests in flight at the same time
    Sessions,       \* session hashes; the random token makes each one fresh
    Installations,  \* GitHub App installations
    NoSession,      \* a request that carries no session
    Nowhere         \* where a request is that is not being served

ASSUME SentinelAssumption == NoSession \notin Sessions /\ Nowhere \notin Instances

(***************************************************************************)
(* token_encryption_key_ring of the four deployments of a rotation: primary*)
(* first, fallbacks after it.                                              *)
(***************************************************************************)
Rings == << <<"old">>, <<"old", "new">>, <<"new", "old">>, <<"new">> >>

VARIABLES
    release,     \* the deployment (index into Rings) every instance runs
    target,      \* the deployment the operator is rolling out
    guarded,     \* sessions the operator waits for before dropping the old key
    sessions,    \* auth_sessions: a function from session to the key of its token
    issued,      \* sessions that were created so far
    expired,     \* sessions whose expires_at has passed
    request,     \* the requests in flight
    access,      \* the user's installations according to GitHub
    table,       \* user_installations
    had          \* per request, installations the user had at some point of it

rolloutVars == <<release, target, guarded>>
sessionVars == <<sessions, issued, expired>>
accessVars == <<access, table>>
authVars == <<rolloutVars, sessionVars, accessVars, request, had>>

Idle == [kind |-> "none", step |-> "idle", at |-> Nowhere,
         session |-> NoSession, ids |-> {}, missed |-> {}]

\* A request that is being served.
Request == [kind : {"login", "list", "logout"}, at : Instances,
            step : {"read", "reencrypt", "drop", "fetch", "replace", "insert", "end"},
            session : Sessions \cup {NoSession},
            ids : SUBSET Installations,      \* what GitHub answered
            missed : SUBSET Installations]   \* rows committed since the DELETE

AuthInit ==
    /\ release = [i \in Instances |-> 1]
    /\ target = 1
    /\ guarded = {}
    /\ sessions = <<>>
    /\ issued = {}
    /\ expired = {}
    /\ request = [q \in Requests |-> Idle]
    /\ access \in SUBSET Installations
    /\ table = {}
    /\ had = [q \in Requests |-> {}]

Ring(q) == Rings[release[request[q].at]]
Without(f, s) == [t \in DOMAIN f \ {s} |-> f[t]]
Goto(q, step) == request' = [request EXCEPT ![q].step = step]
Done(Q) ==
    /\ request' = [q \in Requests |-> IF q \in Q THEN Idle ELSE request[q]]
    /\ had' = [q \in Requests |-> IF q \in Q THEN {} ELSE had[q]]

-----------------------------------------------------------------------------
(* Requests                                                                *)

\* A login callback with a valid state, or a request that carries a cookie.
Arrive(q, i, kind, s) ==
    /\ request[q] = Idle
    /\ kind = "login" <=> s = NoSession
    /\ request' = [request EXCEPT ![q] =
        [kind |-> kind, at |-> i, session |-> s, ids |-> {}, missed |-> {},
         step |-> IF kind = "login" THEN "fetch" ELSE "read"]]
    /\ had' = [had EXCEPT ![q] = access]
    /\ UNCHANGED <<rolloutVars, sessionVars, accessVars>>

\* What an authenticated request goes on with.
Accepted(q) == IF request[q].kind = "logout" THEN "end" ELSE "fetch"

\* Mutant: only the primary key decrypts.
VerdictPrimaryOnly(q, s) ==
    IF s \in expired \/ sessions[s] # Head(Ring(q)) THEN "drop" ELSE Accepted(q)

\* authenticate after it has read the row of s.
Verdict(q, s) ==
    IF s \in expired THEN "drop"
    ELSE IF sessions[s] = Head(Ring(q)) THEN Accepted(q)
    ELSE IF sessions[s] \in ToSet(Ring(q)) THEN "reencrypt"
    ELSE "drop"

\* The SELECT of authenticate and the decision; no row means 401.
Authenticate(q) ==
    /\ request[q].step = "read"
    /\ LET s == request[q].session IN
        \/ s \in DOMAIN sessions /\ Goto(q, Verdict(q, s)) /\ UNCHANGED had
        \/ s \notin DOMAIN sessions /\ Done({q})
    /\ UNCHANGED <<rolloutVars, sessionVars, accessVars>>

\* Mutant: the row is written back although it is gone.
ReencryptAlways(q) ==
    /\ request[q].step = "reencrypt"
    /\ LET s == request[q].session IN
        sessions' = [t \in DOMAIN sessions \cup {s} |->
                        IF t = s THEN Head(Ring(q)) ELSE sessions[t]]
    /\ Goto(q, Accepted(q))
    /\ UNCHANGED <<rolloutVars, issued, expired, accessVars, had>>

\* update_auth_session_token: an UPDATE, which finds no row after a logout.
Reencrypt(q) ==
    /\ request[q].step = "reencrypt"
    /\ LET s == request[q].session IN
        sessions' = [t \in DOMAIN sessions |-> IF t = s THEN Head(Ring(q)) ELSE sessions[t]]
    /\ Goto(q, Accepted(q))
    /\ UNCHANGED <<rolloutVars, issued, expired, accessVars, had>>

\* delete_auth_session of a session that cannot be used, or at logout.
Drop(q) ==
    /\ request[q].step \in {"drop", "end"}
    /\ sessions' = Without(sessions, request[q].session)
    /\ Done({q})
    /\ UNCHANGED <<rolloutVars, issued, expired, accessVars>>

\* Mutant: what the login stored is used.
FetchFromTable(q) ==
    /\ request[q].step = "fetch"
    /\ request' = [request EXCEPT
        ![q].step = "replace",
        ![q].ids = IF request[q].kind = "login" THEN access ELSE table]
    /\ UNCHANGED <<rolloutVars, sessionVars, accessVars, had>>

\* GitHub answers user_installations with what holds at that moment ...
Fetch(q) ==
    /\ request[q].step = "fetch"
    /\ request' = [request EXCEPT ![q].step = "replace", ![q].ids = access]
    /\ UNCHANGED <<rolloutVars, sessionVars, accessVars, had>>

\* ... or not at all, and the request ends with an error.
FetchRaises(q) ==
    /\ request[q].step = "fetch"
    /\ Done({q})
    /\ UNCHANGED <<rolloutVars, sessionVars, accessVars>>

(***************************************************************************)
(* replace_user_installations, its DELETE: it removes the rows that are    *)
(* committed now.  The two statements of an instance are one synchronous   *)
(* call; another instance may commit between them.                         *)
(***************************************************************************)
DeleteInstallations(q) ==
    /\ request[q].step = "replace"
    /\ \A p \in Requests : request[p].step = "insert" => request[p].at # request[q].at
    /\ Goto(q, "insert")
    /\ UNCHANGED <<rolloutVars, sessionVars, accessVars, had>>

\* create_auth_session, for a login.
CreateAuthSession(q) ==
    \E s \in Sessions \ issued :
        /\ issued' = issued \cup {s}
        /\ sessions' = [t \in DOMAIN sessions \cup {s} |->
                            IF t = s THEN Head(Ring(q)) ELSE sessions[t]]

\* The INSERT and the end of the request.  A login then creates its session, in
\* a transaction of its own but of a hash that no other request knows yet.
InsertInstallations(q) ==
    /\ request[q].step = "insert"
    /\ request[q].ids \cap request[q].missed = {}
    /\ table' = request[q].ids \cup (table \cap request[q].missed)
    /\ \/ request[q].kind = "login" /\ CreateAuthSession(q)
       \/ request[q].kind # "login" /\ UNCHANGED <<issued, sessions>>
    /\ request' = [p \in Requests |->
            IF p = q THEN Idle
            ELSE IF request[p].step = "insert"
            THEN [request[p] EXCEPT !.missed = @ \cup request[q].ids]
            ELSE request[p]]
    /\ had' = [had EXCEPT ![q] = {}]
    /\ UNCHANGED <<rolloutVars, expired, access>>

\* The INSERT meets a row of another instance: the primary key makes it raise,
\* the DELETE is rolled back and the request is answered with an error.
InsertRaises(q) ==
    /\ request[q].step = "insert"
    /\ request[q].ids \cap request[q].missed # {}
    /\ Done({q})
    /\ UNCHANGED <<rolloutVars, sessionVars, accessVars>>

-----------------------------------------------------------------------------
(* Rotation: steps 1 to 4 of the procedure, and its rollback               *)

\* An instance is replaced by one of the target deployment.
Deploy(i) ==
    /\ release[i] # target
    /\ release' = [release EXCEPT ![i] = target]
    /\ Done({q \in Requests : request[q].at = i})
    /\ guarded' = issued
    /\ UNCHANGED <<target, sessionVars, accessVars>>

\* The next deployment starts when the last one is complete; the old key goes
\* when the sessions of that time have expired.
Advance ==
    /\ \A i \in Instances : release[i] = target
    /\ target < Len(Rings)
    /\ target = 3 => guarded \subseteq expired
    /\ target' = target + 1
    /\ UNCHANGED <<release, guarded, sessionVars, accessVars, request, had>>

\* Both keys stay, the old one becomes primary again.
RollBack ==
    /\ target = 3
    /\ target' = 2
    /\ UNCHANGED <<release, guarded, sessionVars, accessVars, request, had>>

-----------------------------------------------------------------------------
(* Time and GitHub                                                         *)

Expire(s) ==
    /\ s \in issued \ expired
    /\ expired' = expired \cup {s}
    /\ UNCHANGED <<rolloutVars, sessions, issued, accessVars, request, had>>

ChangeAccess ==
    /\ access' \in SUBSET Installations
    /\ had' = [q \in Requests |-> IF request[q] = Idle THEN {} ELSE had[q] \cup access']
    /\ UNCHANGED <<rolloutVars, sessionVars, table, request>>

-----------------------------------------------------------------------------

AuthNext ==
    \/ \E q \in Requests :
        \/ \E i \in Instances, kind \in {"login", "list", "logout"},
              s \in issued \cup {NoSession} : Arrive(q, i, kind, s)
        \/ Authenticate(q) \/ Reencrypt(q) \/ Drop(q)
        \/ Fetch(q) \/ FetchRaises(q)
        \/ DeleteInstallations(q) \/ InsertInstallations(q) \/ InsertRaises(q)
    \/ \E i \in Instances : Deploy(i)
    \/ Advance
    \/ RollBack
    \/ \E s \in Sessions : Expire(s)
    \/ ChangeAccess

AuthSpec == AuthInit /\ [][AuthNext]_authVars

-----------------------------------------------------------------------------
(* Properties                                                              *)

(***************************************************************************)
(* A session ends by its expiry or by a logout, never because a rotation   *)
(* that follows the procedure met it under the wrong key: instances of two *)
(* deployments re-encrypt the same rows back and forth meanwhile, and the  *)
(* procedure may be rolled back halfway.                                   *)
(***************************************************************************)
RotationKeepsSessions ==
    [][\A s \in DOMAIN sessions : s \notin DOMAIN sessions' =>
        \/ s \in expired
        \/ \E q \in Requests :
            request[q].kind = "logout" /\ request[q].session = s /\ request[q].step = "end"
      ]_authVars

(***************************************************************************)
(* A session that was ended does not come back, also when another request  *)
(* was about to re-encrypt its token.                                      *)
(***************************************************************************)
EndedSessionsStayEnded ==
    [][\A s \in issued : s \notin DOMAIN sessions => s \notin DOMAIN sessions']_authVars

(***************************************************************************)
(* Analyses are listed for installations that GitHub granted the user at   *)
(* some moment of this very request: neither the stored installations nor  *)
(* those of a concurrent request decide.                                   *)
(***************************************************************************)
AccessIsCurrent ==
    \A q \in Requests : request[q].step \in {"replace", "insert"} => request[q].ids \subseteq had[q]

=============================================================================
