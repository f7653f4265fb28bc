------------------------------ MODULE TrustProofs ------------------------------
(***************************************************************************)
(* Who is trusted, and with what.  First sessions and installations, for   *)
(* any number of API instances, requests and sessions: what the store's    *)
(* transactions guarantee between requests, and that the documented        *)
(* rotation never meets a session it cannot read.  Then the trust level of *)
(* a run, which decides what is sent, stored and published, for every set  *)
(* of files and hunks and every number of attempts.  Last, the diffs: what *)
(* is shown as verified is a change of the head file.                      *)
(***************************************************************************)
EXTENDS AuthSessions, DiagnosisContent, SequenceTheorems, WellFoundedInduction, TLAPS

-----------------------------------------------------------------------------
(* The invariant                                                           *)

Keys == {"old", "new"}

\* Where a request stands, and what it may still do to its session.
RequestOK(q) ==
    \/ request[q] = Idle
    \/ /\ request[q] \in Request
       /\ access \subseteq had[q]
       /\ request[q].step \in {"replace", "insert"} => request[q].ids \subseteq had[q]
       /\ request[q].step = "drop" => request[q].session \in expired
       /\ request[q].step = "end" => request[q].kind = "logout"

RequestsOK ==
    /\ access \in SUBSET Installations
    /\ had \in [Requests -> SUBSET Installations]
    /\ request \in [Requests -> Request \cup {Idle}]
    /\ \A q \in Requests : RequestOK(q)

SessionsOK ==
    /\ issued \subseteq Sessions /\ expired \subseteq issued
    /\ DOMAIN sessions \subseteq issued
    /\ \A s \in DOMAIN sessions : sessions[s] \in Keys

\* The instances run the deployment that is rolled out or a neighbour of it.
RolloutOK ==
    /\ target \in 1 .. 4
    /\ release \in [Instances -> 1 .. 4]
    /\ \A i \in Instances : \/ release[i] = target
                            \/ release[i] + 1 = target
                            \/ release[i] = 3 /\ target = 2
    /\ \A i, j \in Instances : release[i] = 1 => release[j] <= 2

(***************************************************************************)
(* Which keys the stored tokens are encrypted with.  Nothing is encrypted  *)
(* with the new key while an instance does not have it; what was issued    *)
(* since every instance writes with the new key is encrypted with it; and  *)
(* once the old key is being removed, so is every session that can be used.*)
(***************************************************************************)
TokensOK ==
    /\ \A i \in Instances : release[i] = 1 => \A s \in DOMAIN sessions : sessions[s] = "old"
    /\ (\A i \in Instances : release[i] >= 3) =>
            \A s \in DOMAIN sessions \ guarded : sessions[s] = "new"
    /\ target = 4 => \A s \in DOMAIN sessions \ expired : sessions[s] = "new"

AuthInv == RequestsOK /\ SessionsOK /\ RolloutOK /\ TokensOK
\* The four key rings: who writes with which key, and who reads what.
LEMMA RingFacts ==
    /\ Len(Rings) = 4
    /\ \A n \in 1 .. 4 : /\ n <= 2 => Head(Rings[n]) = "old"
                         /\ n >= 3 => Head(Rings[n]) = "new"
                         /\ Head(Rings[n]) \in Keys
                         /\ n = 1 => "old" \in ToSet(Rings[n])
                         /\ n = 4 => "new" \in ToSet(Rings[n])
                         /\ n \in {2, 3} => Keys \subseteq ToSet(Rings[n])
<1>1. /\ Rings[1] = <<"old">> /\ Rings[2] = <<"old", "new">>
      /\ Rings[3] = <<"new", "old">> /\ Rings[4] = <<"new">> /\ Len(Rings) = 4
  BY DEF Rings
<1>2. /\ Head(Rings[1]) = "old" /\ Head(Rings[2]) = "old"
      /\ Head(Rings[3]) = "new" /\ Head(Rings[4]) = "new"
  BY <1>1
<1>3. /\ "old" \in ToSet(<<"old">>) /\ "new" \in ToSet(<<"new">>)
      /\ "old" \in ToSet(<<"old", "new">>) /\ "new" \in ToSet(<<"old", "new">>)
      /\ "old" \in ToSet(<<"new", "old">>) /\ "new" \in ToSet(<<"new", "old">>)
  BY DEF ToSet
<1>4. \A n \in 1 .. 4 : n \in {1, 2, 3, 4}
  OBVIOUS
<1> QED BY <1>1, <1>2, <1>3, <1>4 DEF Keys

\* An instance reads every token of a session that has not expired.
LEMMA ReadableToken ==
    ASSUME SessionsOK, RolloutOK, TokensOK, NEW i \in Instances,
           NEW s \in DOMAIN sessions, s \notin expired
    PROVE  sessions[s] \in ToSet(Rings[release[i]])
<1>1. release[i] \in 1 .. 4 /\ sessions[s] \in Keys
  BY DEF RolloutOK, SessionsOK
<1>2. CASE release[i] = 1
  BY <1>1, <1>2, RingFacts DEF TokensOK
<1>3. CASE release[i] \in {2, 3}
  BY <1>1, <1>3, RingFacts
<1>4. CASE release[i] = 4
  <2>1. target = 4
    BY <1>4 DEF RolloutOK
  <2> QED BY <1>1, <1>4, <2>1, RingFacts DEF TokensOK
<1> QED BY <1>1, <1>2, <1>3, <1>4

-----------------------------------------------------------------------------
(* Requests                                                                *)

\* A request that is not served in this step keeps what is known of it.
LEMMA RequestKept ==
    ASSUME NEW q \in Requests, RequestOK(q), expired \subseteq expired',
           request'[q] = Idle \/ (/\ request'[q] = request[q]
                                  /\ access' \subseteq access /\ had[q] \subseteq had'[q])
    PROVE  RequestOK(q)'
  BY DEF RequestOK

\* Ending requests keeps the rest.
LEMMA DoneOK ==
    ASSUME RequestsOK, access' = access, expired \subseteq expired', NEW Q, Done(Q)
    PROVE  RequestsOK'
<1>1. ASSUME NEW q \in Requests
      PROVE  request'[q] = Idle \/ (request'[q] = request[q] /\ had'[q] = had[q])
  <2>1. CASE q \in Q
    BY <2>1 DEF Done
  <2>2. CASE q \notin Q
    BY <2>2 DEF Done
  <2> QED BY <2>1, <2>2
<1>2. \A q \in Requests : RequestOK(q)'
  BY <1>1, RequestKept DEF RequestsOK
<1>3. /\ had' \in [Requests -> SUBSET Installations]
      /\ request' \in [Requests -> Request \cup {Idle}]
  BY DEF Done, RequestsOK
<1> QED BY <1>2, <1>3 DEF RequestsOK

\* A request that goes on to a step it is entitled to.
LEMMA GotoOK ==
    ASSUME RequestsOK, access' = access, had' = had, expired' = expired,
           NEW q \in Requests, request[q] # Idle, NEW to, Goto(q, to),
           to \in {"reencrypt", "drop", "fetch", "insert", "end"},
           to = "insert" => request[q].step = "replace",
           to = "drop" => request[q].session \in expired,
           to = "end" => request[q].kind = "logout"
    PROVE  RequestsOK'
<1>1. /\ request' = [request EXCEPT ![q] = [request[q] EXCEPT !.step = to]]
      /\ request[q] \in Request
  BY DEF Goto, RequestsOK, RequestOK
<1>2. /\ request'[q] = [request[q] EXCEPT !.step = to]
      /\ \A p \in Requests \ {q} : request'[p] = request[p]
  BY <1>1 DEF RequestsOK
<1>3. /\ request'[q] \in Request /\ request'[q].step = to
      /\ request'[q].ids = request[q].ids /\ request'[q].session = request[q].session
      /\ request'[q].kind = request[q].kind
  BY <1>1, <1>2 DEF Request
<1>4. RequestOK(q)
  BY DEF RequestsOK
<1>5. RequestOK(q)'
  BY <1>3, <1>4 DEF RequestOK
<1>6. \A p \in Requests \ {q} : RequestOK(p)'
  BY <1>2, RequestKept DEF RequestsOK
<1>7. request' \in [Requests -> Request \cup {Idle}]
  BY <1>1, <1>2, <1>3 DEF RequestsOK
<1> QED BY <1>5, <1>6, <1>7 DEF RequestsOK

LEMMA ArriveOK ==
    ASSUME RequestsOK, SessionsOK, NEW q \in Requests, NEW i \in Instances,
           NEW kind \in {"login", "list", "logout"}, NEW s \in issued \cup {NoSession},
           Arrive(q, i, kind, s)
    PROVE  RequestsOK'
<1> DEFINE new == [kind |-> kind, at |-> i, session |-> s, ids |-> {}, missed |-> {},
                   step |-> IF kind = "login" THEN "fetch" ELSE "read"]
<1>1. /\ request' = [request EXCEPT ![q] = new] /\ had' = [had EXCEPT ![q] = access]
      /\ access' = access /\ expired' = expired
  BY DEF Arrive, accessVars, sessionVars
<1>2. new \in Request /\ new.step \in {"fetch", "read"}
  BY DEF Request, SessionsOK
<1> HIDE DEF new
<1>3. /\ request'[q] = new /\ had'[q] = access
      /\ \A p \in Requests \ {q} : request'[p] = request[p] /\ had'[p] = had[p]
  BY <1>1 DEF RequestsOK
<1>4. RequestOK(q)'
  BY <1>1, <1>2, <1>3 DEF RequestOK
<1>5. \A p \in Requests \ {q} : RequestOK(p)'
  BY <1>1, <1>3, RequestKept DEF RequestsOK
<1>6. /\ request' \in [Requests -> Request \cup {Idle}]
      /\ had' \in [Requests -> SUBSET Installations]
  BY <1>1, <1>2 DEF RequestsOK
<1> QED BY <1>1, <1>4, <1>5, <1>6 DEF RequestsOK

LEMMA AuthenticateOK ==
    ASSUME AuthInv, NEW q \in Requests, Authenticate(q)
    PROVE  RequestsOK'
<1> DEFINE s == request[q].session
<1>1. /\ request[q].step = "read" /\ request[q] # Idle /\ request[q] \in Request
      /\ access' = access /\ expired' = expired
  BY DEF Authenticate, Idle, AuthInv, RequestsOK, RequestOK, accessVars, sessionVars
<1>2. CASE s \notin DOMAIN sessions /\ Done({q})
  BY <1>1, <1>2, DoneOK DEF AuthInv
<1>3. CASE s \in DOMAIN sessions /\ Goto(q, Verdict(q, s)) /\ had' = had
  <2>1. request[q].at \in Instances /\ request[q].kind \in {"login", "list", "logout"}
    BY <1>1 DEF Request
  <2>2. s \notin expired => sessions[s] \in ToSet(Ring(q))
    BY <1>3, <2>1, ReadableToken DEF AuthInv, Ring
  <2>3. /\ Verdict(q, s) \in {"reencrypt", "drop", "fetch", "end"}
        /\ Verdict(q, s) = "drop" => s \in expired
        /\ Verdict(q, s) = "end" => request[q].kind = "logout"
    BY <2>2 DEF Verdict, Accepted
  <2> QED BY <1>1, <1>3, <2>3, GotoOK DEF AuthInv
<1> QED BY <1>2, <1>3 DEF Authenticate

LEMMA FetchOK ==
    ASSUME RequestsOK, NEW q \in Requests, Fetch(q)
    PROVE  RequestsOK'
<1>1. /\ request[q].step = "fetch" /\ request[q] # Idle /\ request[q] \in Request
      /\ access' = access /\ expired' = expired /\ had' = had
      /\ request' = [request EXCEPT ![q].step = "replace", ![q].ids = access]
  BY DEF Fetch, Idle, RequestsOK, RequestOK, accessVars, sessionVars
<1>2. /\ request'[q] = [request[q] EXCEPT !.step = "replace", !.ids = access]
      /\ \A p \in Requests \ {q} : request'[p] = request[p]
      /\ DOMAIN request' = Requests /\ request' = [p \in Requests |-> request'[p]]
  BY <1>1 DEF RequestsOK
<1>3. request'[q] \in Request /\ request'[q].step = "replace" /\ request'[q].ids = access
  BY <1>1, <1>2 DEF Request, RequestsOK
<1>4. RequestOK(q)'
  BY <1>1, <1>3 DEF RequestOK, RequestsOK
<1>5. \A p \in Requests \ {q} : RequestOK(p)'
  BY <1>1, <1>2, RequestKept DEF RequestsOK
<1>6. request' \in [Requests -> Request \cup {Idle}]
  BY <1>1, <1>2, <1>3 DEF RequestsOK
<1> QED BY <1>1, <1>4, <1>5, <1>6 DEF RequestsOK

LEMMA InsertOK ==
    ASSUME RequestsOK, NEW q \in Requests, InsertInstallations(q)
    PROVE  RequestsOK'
<1>1. /\ access' = access /\ expired' = expired /\ had' = [had EXCEPT ![q] = {}]
      /\ request[q].ids \subseteq Installations
  BY DEF InsertInstallations, RequestsOK, Request, Idle
<1>2. ASSUME NEW p \in Requests
      PROVE  RequestOK(p)' /\ request'[p] \in Request \cup {Idle}
  <2>1. RequestOK(p) /\ request[p] \in Request \cup {Idle}
    BY DEF RequestsOK
  <2>2. CASE p = q
    <3>1. request'[p] = Idle
      BY <2>2 DEF InsertInstallations
    <3> QED BY <3>1 DEF RequestOK
  <2>3. CASE p # q /\ request[p].step # "insert"
    <3>1. request'[p] = request[p] /\ had'[p] = had[p]
      BY <1>1, <2>3 DEF InsertInstallations, RequestsOK
    <3> QED BY <1>1, <2>1, <3>1, RequestKept
  <2>4. CASE p # q /\ request[p].step = "insert"
    <3>1. /\ request'[p] = [request[p] EXCEPT !.missed = @ \cup request[q].ids]
          /\ had'[p] = had[p] /\ request[p] # Idle /\ request[p] \in Request
      BY <1>1, <2>1, <2>4 DEF InsertInstallations, RequestsOK, Idle
    <3>2. /\ request'[p] \in Request /\ request'[p].step = "insert"
          /\ request'[p].ids = request[p].ids
      BY <1>1, <2>4, <3>1 DEF Request
    <3> QED BY <1>1, <2>1, <2>4, <3>1, <3>2 DEF RequestOK
  <2> QED BY <2>2, <2>3, <2>4
<1>3. request' \in [Requests -> Request \cup {Idle}]
  BY <1>2 DEF InsertInstallations
<1>4. had' \in [Requests -> SUBSET Installations]
  BY <1>1 DEF RequestsOK
<1> QED BY <1>1, <1>2, <1>3, <1>4 DEF RequestsOK

LEMMA ChangeAccessOK ==
    ASSUME RequestsOK, ChangeAccess
    PROVE  RequestsOK'
<1>1. /\ access' \in SUBSET Installations
      /\ had' = [q \in Requests |-> IF request[q] = Idle THEN {} ELSE had[q] \cup access']
      /\ request' = request /\ expired' = expired
  BY DEF ChangeAccess, sessionVars
<1>2. had' \in [Requests -> SUBSET Installations]
  BY <1>1 DEF RequestsOK
<1>3. \A q \in Requests : RequestOK(q)'
  BY <1>1 DEF RequestsOK, RequestOK
<1> QED BY <1>1, <1>2, <1>3 DEF RequestsOK

LEMMA RequestsNext ==
    ASSUME AuthInv, AuthNext
    PROVE  RequestsOK'
<1> USE DEF AuthInv
<1>1. ASSUME NEW q \in Requests, NEW i \in Instances, NEW kind \in {"login", "list", "logout"},
             NEW s \in issued \cup {NoSession}, Arrive(q, i, kind, s)
      PROVE  RequestsOK'
  BY <1>1, ArriveOK
<1>2. ASSUME NEW q \in Requests, Reencrypt(q)
      PROVE  RequestsOK'
  <2>1. /\ request[q].step = "reencrypt" /\ request[q] # Idle
        /\ access' = access /\ had' = had /\ expired' = expired /\ Goto(q, Accepted(q))
    BY <1>2 DEF Reencrypt, Idle, accessVars
  <2>2. /\ Accepted(q) \in {"fetch", "end"}
        /\ Accepted(q) = "end" => request[q].kind = "logout"
    BY DEF Accepted
  <2> QED BY <2>1, <2>2, GotoOK
<1>3. ASSUME NEW q \in Requests, DeleteInstallations(q)
      PROVE  RequestsOK'
  <2>1. /\ request[q].step = "replace" /\ request[q] # Idle
        /\ access' = access /\ had' = had /\ expired' = expired /\ Goto(q, "insert")
    BY <1>3 DEF DeleteInstallations, Idle, accessVars, sessionVars
  <2> QED BY <2>1, GotoOK
<1>4. ASSUME NEW q \in Requests, Drop(q) \/ FetchRaises(q) \/ InsertRaises(q)
      PROVE  RequestsOK'
  BY <1>4, DoneOK DEF Drop, FetchRaises, InsertRaises, accessVars, sessionVars
<1>5. ASSUME NEW i \in Instances, Deploy(i)
      PROVE  RequestsOK'
  BY <1>5, DoneOK DEF Deploy, accessVars, sessionVars
<1>6. CASE /\ UNCHANGED <<accessVars, request, had>>
           /\ expired \subseteq expired'
  BY <1>6, RequestKept DEF RequestsOK, accessVars
<1>7. Advance \/ RollBack \/ (\E s \in Sessions : Expire(s)) =>
        UNCHANGED <<accessVars, request, had>> /\ expired \subseteq expired'
  BY DEF Advance, RollBack, Expire, sessionVars
<1> QED BY <1>1, <1>2, <1>3, <1>4, <1>5, <1>6, <1>7, AuthenticateOK, FetchOK, InsertOK,
           ChangeAccessOK DEF AuthNext

-----------------------------------------------------------------------------
(* Sessions and the rotation                                               *)

\* The key instance i writes with, seen from the whole fleet.
LEMMA WriterKey ==
    ASSUME RolloutOK, NEW i \in Instances
    PROVE  /\ Head(Rings[release[i]]) \in Keys
           /\ (\E j \in Instances : release[j] = 1) => Head(Rings[release[i]]) = "old"
           /\ (\A j \in Instances : release[j] >= 3) => Head(Rings[release[i]]) = "new"
           /\ target = 4 => Head(Rings[release[i]]) = "new"
<1>1. release[i] \in 1 .. 4
  BY DEF RolloutOK
<1>2. target = 4 => release[i] >= 3
  BY <1>1 DEF RolloutOK
<1>3. (\E j \in Instances : release[j] = 1) => release[i] <= 2
  BY DEF RolloutOK
<1> QED BY <1>1, <1>2, <1>3, RingFacts

\* A store call keeps the tokens it does not write, and writes with the key of i.
LEMMA TokensWritten ==
    ASSUME SessionsOK, RolloutOK, TokensOK, NEW i \in Instances,
           release' = release, target' = target, guarded' = guarded, expired' = expired,
           issued \subseteq issued', issued' \subseteq Sessions,
           DOMAIN sessions' \subseteq issued',
           \A s \in DOMAIN sessions' : \/ s \in DOMAIN sessions /\ sessions'[s] = sessions[s]
                                       \/ sessions'[s] = Head(Rings[release[i]])
    PROVE  SessionsOK' /\ RolloutOK' /\ TokensOK'
<1> DEFINE key == Head(Rings[release[i]])
<1>1. /\ key \in Keys
      /\ (\E j \in Instances : release[j] = 1) => key = "old"
      /\ (\A j \in Instances : release[j] >= 3) => key = "new"
      /\ target = 4 => key = "new"
  BY WriterKey
<1> HIDE DEF key
<1>2. \A s \in DOMAIN sessions' : \/ s \in DOMAIN sessions /\ sessions'[s] = sessions[s]
                                  \/ sessions'[s] = key
  BY DEF key
<1>3. SessionsOK'
  BY <1>1, <1>2 DEF SessionsOK
<1>4. RolloutOK'
  BY DEF RolloutOK
<1>5. TokensOK'
  <2>1. ASSUME NEW j \in Instances, release[j] = 1, NEW s \in DOMAIN sessions'
        PROVE  sessions'[s] = "old"
    BY <1>1, <1>2, <2>1 DEF TokensOK
  <2>2. ASSUME \A j \in Instances : release[j] >= 3, NEW s \in DOMAIN sessions' \ guarded
        PROVE  sessions'[s] = "new"
    BY <1>1, <1>2, <2>2 DEF TokensOK
  <2>3. ASSUME target = 4, NEW s \in DOMAIN sessions' \ expired
        PROVE  sessions'[s] = "new"
    BY <1>1, <1>2, <2>3 DEF TokensOK
  <2> QED BY <2>1, <2>2, <2>3 DEF TokensOK
<1> QED BY <1>3, <1>4, <1>5

\* The store calls of a request.
LEMMA StoreCallOK ==
    ASSUME AuthInv, NEW q \in Requests,
           Reencrypt(q) \/ Drop(q) \/ InsertInstallations(q)
    PROVE  SessionsOK' /\ RolloutOK' /\ TokensOK'
<1> USE DEF AuthInv
<1>1. request[q] # Idle /\ request[q] \in Request
  BY DEF Reencrypt, Drop, InsertInstallations, Idle, RequestsOK
<1>2. PICK i \in Instances : i = request[q].at
  BY <1>1 DEF Request
<1>3. /\ release' = release /\ target' = target /\ guarded' = guarded /\ expired' = expired
  BY DEF Reencrypt, Drop, InsertInstallations, rolloutVars
<1>4. DOMAIN sessions \subseteq issued /\ issued \subseteq Sessions
  BY DEF SessionsOK
<1>5. CASE Reencrypt(q)
  <2>1. /\ issued' = issued /\ DOMAIN sessions' = DOMAIN sessions
        /\ \A s \in DOMAIN sessions : \/ sessions'[s] = sessions[s]
                                      \/ sessions'[s] = Head(Rings[release[i]])
    BY <1>2, <1>5 DEF Reencrypt, Ring
  <2> QED BY <1>3, <1>4, <2>1, TokensWritten
<1>6. CASE Drop(q)
  <2>1. /\ issued' = issued /\ DOMAIN sessions' \subseteq DOMAIN sessions
        /\ \A s \in DOMAIN sessions' : sessions'[s] = sessions[s]
    BY <1>6 DEF Drop, Without
  <2> QED BY <1>3, <1>4, <2>1, TokensWritten
<1>7. CASE InsertInstallations(q) /\ issued' = issued /\ sessions' = sessions
  BY <1>3, <1>4, <1>7, TokensWritten
<1>8. CASE CreateAuthSession(q)
  <2>1. PICK s \in Sessions \ issued :
            /\ issued' = issued \cup {s}
            /\ sessions' = [t \in DOMAIN sessions \cup {s} |->
                                IF t = s THEN Head(Rings[release[i]]) ELSE sessions[t]]
    BY <1>2, <1>8 DEF CreateAuthSession, Ring
  <2>2. /\ DOMAIN sessions' = DOMAIN sessions \cup {s}
        /\ \A t \in DOMAIN sessions' : \/ t \in DOMAIN sessions /\ sessions'[t] = sessions[t]
                                       \/ sessions'[t] = Head(Rings[release[i]])
    BY <2>1
  <2> QED BY <1>3, <1>4, <2>1, <2>2, TokensWritten
<1> QED BY <1>5, <1>6, <1>7, <1>8 DEF InsertInstallations

\* An instance is replaced.
LEMMA DeployOK ==
    ASSUME SessionsOK, RolloutOK, TokensOK, NEW i \in Instances, Deploy(i)
    PROVE  SessionsOK' /\ RolloutOK' /\ TokensOK'
<1>1. /\ release[i] # target /\ release' = [release EXCEPT ![i] = target]
      /\ guarded' = issued /\ target' = target
      /\ sessions' = sessions /\ issued' = issued /\ expired' = expired
  BY DEF Deploy, sessionVars
<1>2. /\ release'[i] = target /\ \A j \in Instances \ {i} : release'[j] = release[j]
      /\ release' \in [Instances -> 1 .. 4]
  BY <1>1 DEF RolloutOK
<1>3. target >= 2 /\ release[i] \in 1 .. 4
  BY <1>1 DEF RolloutOK
<1>4. ASSUME NEW j \in Instances, NEW k \in Instances, release'[j] = 1
      PROVE  release'[k] <= 2
  <2>1. j # i /\ release[j] = 1
    BY <1>2, <1>3, <1>4
  <2>2. target = 2 /\ release[k] <= 2
    BY <1>3, <2>1 DEF RolloutOK
  <2> QED BY <1>2, <2>2
<1>5. RolloutOK'
  BY <1>1, <1>2, <1>4 DEF RolloutOK
<1>6. SessionsOK'
  BY <1>1 DEF SessionsOK
<1>7. TokensOK'
  <2>1. ASSUME NEW j \in Instances, release'[j] = 1, NEW s \in DOMAIN sessions
        PROVE  sessions[s] = "old"
    <3>1. release[j] = 1
      BY <1>2, <1>3, <2>1
    <3> QED BY <2>1, <3>1 DEF TokensOK
  <2>2. DOMAIN sessions \ guarded' = {}
    BY <1>1 DEF SessionsOK
  <2> QED BY <1>1, <2>1, <2>2 DEF TokensOK
<1> QED BY <1>5, <1>6, <1>7

\* The next deployment, and the rollback.
LEMMA RolloutStepOK ==
    ASSUME SessionsOK, RolloutOK, TokensOK, Advance \/ RollBack
    PROVE  SessionsOK' /\ RolloutOK' /\ TokensOK'
<1>1. /\ release' = release /\ guarded' = guarded
      /\ sessions' = sessions /\ issued' = issued /\ expired' = expired
  BY DEF Advance, RollBack, sessionVars
<1>2. SessionsOK'
  BY <1>1 DEF SessionsOK
<1>3. CASE Advance
  <2>1. /\ \A i \in Instances : release[i] = target
        /\ target < 4 /\ target' = target + 1 /\ target \in 1 .. 4
        /\ target = 3 => guarded \subseteq expired
    BY <1>3, RingFacts DEF Advance, RolloutOK
  <2>2. RolloutOK'
    BY <1>1, <2>1 DEF RolloutOK
  <2>3. ASSUME target' = 4, NEW s \in DOMAIN sessions \ expired
        PROVE  sessions[s] = "new"
    <3>1. target = 3 /\ s \notin guarded /\ \A i \in Instances : release[i] >= 3
      BY <2>1, <2>3
    <3> QED BY <3>1 DEF TokensOK
  <2>4. TokensOK'
    BY <1>1, <2>3 DEF TokensOK
  <2> QED BY <1>2, <2>2, <2>4
<1>4. CASE RollBack
  <2>1. target = 3 /\ target' = 2
    BY <1>4 DEF RollBack
  <2>2. RolloutOK'
    BY <1>1, <2>1 DEF RolloutOK
  <2>3. TokensOK'
    BY <1>1, <2>1 DEF TokensOK
  <2> QED BY <1>2, <2>2, <2>3
<1> QED BY <1>3, <1>4

LEMMA AuthInitInv == AuthInit => AuthInv
<1> SUFFICES ASSUME AuthInit PROVE AuthInv
  OBVIOUS
<1>1. DOMAIN sessions = {}
  BY DEF AuthInit
<1>2. RequestsOK
  BY DEF AuthInit, RequestsOK, RequestOK
<1>3. SessionsOK /\ TokensOK
  BY <1>1 DEF AuthInit, SessionsOK, TokensOK
<1>4. RolloutOK
  BY DEF AuthInit, RolloutOK
<1> QED BY <1>2, <1>3, <1>4 DEF AuthInv

LEMMA AuthNextInv == AuthInv /\ [AuthNext]_authVars => AuthInv'
<1> SUFFICES ASSUME AuthInv, [AuthNext]_authVars PROVE AuthInv'
  OBVIOUS
<1>1. CASE AuthNext
  <2>1. RequestsOK'
    BY <1>1, RequestsNext
  <2>2. CASE UNCHANGED <<rolloutVars, sessionVars>>
    <3>1. /\ release' = release /\ target' = target /\ guarded' = guarded
          /\ sessions' = sessions /\ issued' = issued /\ expired' = expired
      BY <2>2 DEF rolloutVars, sessionVars
    <3>2. SessionsOK' /\ RolloutOK' /\ TokensOK'
      BY <3>1 DEF AuthInv, SessionsOK, RolloutOK, TokensOK
    <3> QED BY <2>1, <3>2 DEF AuthInv
  <2>3. ASSUME NEW s \in Sessions, Expire(s)
        PROVE  SessionsOK' /\ RolloutOK' /\ TokensOK'
    <3>1. /\ s \in issued /\ expired' = expired \cup {s}
          /\ sessions' = sessions /\ issued' = issued
          /\ release' = release /\ target' = target /\ guarded' = guarded
      BY <2>3 DEF Expire, rolloutVars
    <3> QED BY <3>1 DEF AuthInv, SessionsOK, RolloutOK, TokensOK
  <2>4. ASSUME NEW q \in Requests,
               \/ Authenticate(q) \/ Fetch(q) \/ FetchRaises(q)
               \/ DeleteInstallations(q) \/ InsertRaises(q)
               \/ \E i \in Instances, kind \in {"login", "list", "logout"},
                     s \in issued \cup {NoSession} : Arrive(q, i, kind, s)
        PROVE  UNCHANGED <<rolloutVars, sessionVars>>
    BY <2>4 DEF Authenticate, Fetch, FetchRaises, DeleteInstallations, InsertRaises, Arrive
  <2>5. ChangeAccess => UNCHANGED <<rolloutVars, sessionVars>>
    BY DEF ChangeAccess
  <2>6. SessionsOK' /\ RolloutOK' /\ TokensOK'
    BY <1>1, <2>2, <2>3, <2>4, <2>5, StoreCallOK, DeployOK, RolloutStepOK DEF AuthNext, AuthInv
  <2> QED BY <2>1, <2>6 DEF AuthInv
<1>2. CASE UNCHANGED authVars
  BY <1>2 DEF authVars, rolloutVars, sessionVars, accessVars, AuthInv, RequestsOK, RequestOK,
              SessionsOK, RolloutOK, TokensOK
<1> QED BY <1>1, <1>2

-----------------------------------------------------------------------------
(* Theorems                                                                *)

\* Requests, sessions, deployments and token keys fit together in every state.
THEOREM AuthInvariant == AuthSpec => []AuthInv
  BY AuthInitInv, AuthNextInv, PTL DEF AuthSpec

(***************************************************************************)
(* list_analyses and the login callback use installations that GitHub      *)
(* granted during this very request, whatever the other instances commit   *)
(* to user_installations meanwhile.                                        *)
(***************************************************************************)
THEOREM AccessIsCurrentCorrect == AuthSpec => []AccessIsCurrent
<1>1. AuthInv => AccessIsCurrent
  BY DEF AuthInv, RequestsOK, RequestOK, AccessIsCurrent, Idle
<1> QED BY <1>1, AuthInvariant, PTL

(***************************************************************************)
(* update_auth_session_token is an UPDATE and a session hash is never      *)
(* issued twice, so a session that was deleted does not come back.         *)
(***************************************************************************)
THEOREM EndedSessionsCorrect == AuthSpec => EndedSessionsStayEnded
<1> DEFINE Ended == \A s \in issued : s \notin DOMAIN sessions => s \notin DOMAIN sessions'
<1>1. ASSUME AuthNext
      PROVE  Ended
  <2>1. ASSUME NEW q \in Requests, Reencrypt(q) \/ Drop(q)
        PROVE  DOMAIN sessions' \subseteq DOMAIN sessions
    BY <2>1 DEF Reencrypt, Drop, Without
  <2>2. ASSUME NEW q \in Requests, InsertInstallations(q)
        PROVE  Ended
    <3>1. CASE sessions' = sessions
      BY <3>1
    <3>2. CASE CreateAuthSession(q)
      BY <3>2 DEF CreateAuthSession
    <3> QED BY <2>2, <3>1, <3>2 DEF InsertInstallations
  <2>3. CASE sessions' = sessions
    BY <2>3
  <2> QED BY <1>1, <2>1, <2>2, <2>3
          DEF AuthNext, Arrive, Authenticate, Fetch, FetchRaises, DeleteInstallations,
              InsertRaises, Deploy, Advance, RollBack, Expire, ChangeAccess, sessionVars
<1>2. [AuthNext]_authVars => [Ended]_authVars
  BY <1>1
<1> QED BY <1>2, PTL DEF AuthSpec, EndedSessionsStayEnded

(***************************************************************************)
(* A rotation that follows the procedure, rolled back halfway or not, ends *)
(* no session: authenticate deletes a row only when the session expired,   *)
(* because every instance reads every token of a session that has not.     *)
(***************************************************************************)
THEOREM RotationCorrect == AuthSpec => RotationKeepsSessions
<1> DEFINE Kept(s) ==
              \/ s \in expired
              \/ \E q \in Requests :
                  request[q].kind = "logout" /\ request[q].session = s /\ request[q].step = "end"
<1>1. ASSUME AuthInv, AuthNext, NEW s \in DOMAIN sessions, s \notin DOMAIN sessions'
      PROVE  Kept(s)
  <2>1. ASSUME NEW q \in Requests, Drop(q)
        PROVE  Kept(s)
    <3>1. request[q].session = s
      BY <1>1, <2>1 DEF Drop, Without
    <3>2. request[q].step \in {"drop", "end"} /\ RequestOK(q) /\ request[q] # Idle
      BY <1>1, <2>1 DEF Drop, AuthInv, RequestsOK, Idle
    <3> QED BY <3>1, <3>2 DEF RequestOK
  <2>2. ASSUME NEW q \in Requests, Reencrypt(q)
        PROVE  DOMAIN sessions' = DOMAIN sessions
    BY <2>2 DEF Reencrypt
  <2>3. ASSUME NEW q \in Requests, InsertInstallations(q)
        PROVE  DOMAIN sessions \subseteq DOMAIN sessions'
    BY <2>3 DEF InsertInstallations, CreateAuthSession
  <2>4. CASE sessions' = sessions
    BY <1>1, <2>4
  <2> QED BY <1>1, <2>1, <2>2, <2>3, <2>4
          DEF AuthNext, Arrive, Authenticate, Fetch, FetchRaises, DeleteInstallations,
              InsertRaises, Deploy, Advance, RollBack, Expire, ChangeAccess, sessionVars
<1>2. AuthInv /\ [AuthNext]_authVars
        => [\A s \in DOMAIN sessions : s \notin DOMAIN sessions' => Kept(s)]_authVars
  BY <1>1
<1> QED BY <1>2, AuthInvariant, PTL DEF AuthSpec, RotationKeepsSessions

-----------------------------------------------------------------------------
(* Content: trust decides what is sent, stored and published               *)

\* Types the argument needs.
Types ==
    /\ origin \in {"this", "fork"}
    /\ trust \in TrustLevels
    /\ pull \in {"none", "this", "other"}
    /\ author \in {"rules", "model"}
    /\ kept \in Diffs

\* Only a run of this repository is trusted.
TrustIsProved == trust = "trusted" => origin = "this"

\* A pull request of another repository is not trusted at all.
ForeignPullIsUnverified == pull = "other" => trust = "unverified"

\* What an attempt does beyond the rules, it does for a trusted run.
ModelNeedsTrust == asked \/ verdict # "none" \/ author = "model" \/ kept # "none" => trust = "trusted"

\* From its last update on the row holds what the attempt has found.
RowIsCurrent ==
    step \in {"publish", "finish", "completed"} => row = [trust |-> trust, author |-> author, diff |-> kept]

\* What was posted, was posted where the attempt found its pull request.
PostedIsCurrent == posted.kind = "comment" => posted.pull = pull /\ pull # "none" /\ trust # "unverified"

\* A diff that was posted is the one the attempt kept, and it was verified.
PostedDiffIsVerified == posted.diff => kept = "verified"

\* An attempt has nothing yet that a later step of it makes.
NothingAhead ==
    /\ step \in {"collect", "diagnose"} => ~asked /\ verdict = "none" /\ author = "rules"
    /\ step \in {"collect", "diagnose", "attach", "check"} => kept = "none"
    /\ step \notin {"finish", "completed"} => posted = Nothing

ContentInv ==
    /\ Types
    /\ TrustIsProved
    /\ ForeignPullIsUnverified
    /\ ModelNeedsTrust
    /\ RowIsCurrent
    /\ PostedIsCurrent
    /\ PostedDiffIsVerified
    /\ NothingAhead

(***************************************************************************)
(* Whatever is missing in what GitHub says, _trust_level trusts a run only *)
(* if it comes from this repository, and does not look at pull requests of *)
(* others (github.py: _trust_level, _resolve_external_pull_request).       *)
(***************************************************************************)
LEMMA TrustLevelSound ==
    ASSUME origin \in {"this", "fork"},
           NEW found \in Found, NEW listed \in WorkflowRuns
    PROVE  LET run == ResolveExternalPullRequest(listed, found)
               p == IF run.pulls = <<>> THEN "none" ELSE Head(run.pulls).of
           IN /\ TrustLevel(run) \in TrustLevels
              /\ TrustLevel(run) = "trusted" => origin = "this"
              /\ p \in {"none", "this", "other"}
              /\ p = "other" => TrustLevel(run) = "unverified"
<1> DEFINE run == ResolveExternalPullRequest(listed, found)
           Pulls == PullRequests("this") \cup PullRequests("other")
<1>1. run.pulls = <<>> \/ \E q \in Pulls : run.pulls = <<q>>
  <2>1. found = <<>> \/ (\E q \in Pulls : found = <<q>>) \/ Len(found) = 2
    BY DEF Found
  <2>2. listed.pulls = <<>> \/ \E q \in Pulls : listed.pulls = <<q>>
    BY DEF WorkflowRuns
  <2>3. [listed EXCEPT !.pulls = found].pulls = found
    BY DEF WorkflowRuns
  <2> QED BY <2>1, <2>2, <2>3 DEF ResolveExternalPullRequest
<1>2. run.head \in {Missing, origin}
  <2>1. listed.head \in {Missing, origin}
    BY DEF WorkflowRuns
  <2>2. [listed EXCEPT !.pulls = found].head = listed.head
    BY DEF WorkflowRuns
  <2> QED BY <2>1, <2>2 DEF ResolveExternalPullRequest
<1>3. LevelOfHead(run.head) \in TrustLevels /\ (LevelOfHead(run.head) = "trusted" => origin = "this")
  BY <1>2 DEF LevelOfHead, Level, TrustLevels, Missing
<1>4. CASE run.pulls = <<>>
  BY <1>3, <1>4 DEF TrustLevel
<1>5. CASE \E q \in Pulls : run.pulls = <<q>>
  <2>1. PICK q \in Pulls : run.pulls = <<q>>
    BY <1>5
  <2>2. run.pulls # <<>> /\ Head(run.pulls) = q
    BY <2>1
  <2>3. /\ q.of \in {"this", "other"}
        /\ q.head.id \in {Missing, origin} /\ q.head.name \in {Missing, origin}
        /\ q.base.id \in {Missing, q.of} /\ q.base.name \in {Missing, q.of}
    BY DEF PullRequests, Views
  <2> QED BY <1>3, <2>2, <2>3 DEF TrustLevel, LevelOfHead, Level, TrustLevels, Missing
<1> QED BY <1>1, <1>4, <1>5

(***************************************************************************)
(* The inductive invariant of the attempts.  The properties alone are not  *)
(* inductive: what is sent, kept and posted has to be tied to the trust    *)
(* level of the attempt, and the row to the attempt that wrote it.         *)
(***************************************************************************)
THEOREM ContentInvariant == ContentSpec => []ContentInv
<1>1. ContentInit => ContentInv
  BY DEF ContentInit, NoPatch, ContentInv, Types, TrustIsProved, ForeignPullIsUnverified,
         ModelNeedsTrust, RowIsCurrent, PostedIsCurrent, PostedDiffIsVerified, NothingAhead,
         TrustLevels, Diffs, Nothing
<1>2. ContentInv /\ [ContentNext]_contentVars => ContentInv'
  <2> SUFFICES ASSUME ContentInv, [ContentNext]_contentVars
               PROVE  ContentInv'
    OBVIOUS
  <2> USE DEF ContentInv, Types, TrustIsProved, ForeignPullIsUnverified, ModelNeedsTrust,
             RowIsCurrent, PostedIsCurrent, PostedDiffIsVerified, NothingAhead
  <2>1. CASE Collect
    <3>1. PICK found \in Found, listed \in WorkflowRuns :
            LET run == ResolveExternalPullRequest(listed, found) IN
            /\ trust' = TrustLevel(run)
            /\ pull' = IF run.pulls = <<>> THEN "none" ELSE Head(run.pulls).of
      BY <2>1 DEF Collect
    <3>2. /\ trust' \in TrustLevels
          /\ trust' = "trusted" => origin = "this"
          /\ pull' \in {"none", "this", "other"}
          /\ pull' = "other" => trust' = "unverified"
      BY <3>1, TrustLevelSound
    <3> QED BY <2>1, <3>2 DEF Collect, patchVars, Nothing
  <2>2. CASE CollectLogsOnly
    BY <2>2 DEF CollectLogsOnly, patchVars, Nothing, TrustLevels
  <2>3. CASE Diagnose
    BY <2>3 DEF Diagnose, patchVars, Nothing
  <2>4. CASE Attach
    BY <2>4 DEF Attach, Nothing
  <2>5. CASE AttachNothing
    BY <2>5 DEF AttachNothing, patchVars, Nothing
  <2>6. CASE AttachUnchecked
    BY <2>6 DEF AttachUnchecked, patchVars, Nothing, Diffs
  <2>7. CASE Check
    BY <2>7 DEF Check, ApplyHunk, Verify, Reject, Object, attemptVars, Nothing
  <2>8. CASE Checked
    BY <2>8 DEF Checked, Clear, Nothing, Diffs
  <2>9. CASE Save
    BY <2>9 DEF Save, patchVars, Nothing
  <2>10. CASE Publish
    BY <2>10 DEF Publish, patchVars, Nothing
  <2>11. CASE PublishNothing
    BY <2>11 DEF PublishNothing, patchVars, Nothing
  <2>12. CASE Finish
    BY <2>12 DEF Finish, patchVars, Nothing
  <2>13. CASE Raise
    BY <2>13 DEF Raise, Clear, Nothing, TrustLevels, Diffs
  <2>14. CASE UNCHANGED contentVars
    BY <2>14 DEF contentVars, attemptVars, patchVars
  <2> QED BY <2>1, <2>2, <2>3, <2>4, <2>5, <2>6, <2>7, <2>8, <2>9, <2>10, <2>11, <2>12,
             <2>13, <2>14 DEF ContentNext
<1> QED BY <1>1, <1>2, PTL DEF ContentSpec

(***************************************************************************)
(* Nothing of a foreign run reaches the model or the patch verification    *)
(* (pipeline._analyze, DIAGNOSING), for any number of attempts.            *)
(***************************************************************************)
THEOREM OwnRunsCorrect == ContentSpec => []OnlyOwnRunsAreSent
<1>1. ContentInv => OnlyOwnRunsAreSent
  BY DEF ContentInv, ModelNeedsTrust, TrustIsProved, OnlyOwnRunsAreSent
<1> QED BY <1>1, ContentInvariant, PTL

(***************************************************************************)
(* Comments go to pull requests of this repository only                    *)
(* (pipeline._analyze, PUBLISHING).                                        *)
(***************************************************************************)
THEOREM CommentsCorrect == ContentSpec => []CommentsStayHere
<1>1. ContentInv => CommentsStayHere
  BY DEF ContentInv, Types, PostedIsCurrent, ForeignPullIsUnverified, CommentsStayHere
<1> QED BY <1>1, ContentInvariant, PTL

(***************************************************************************)
(* A completed row that is not trusted has the rules' diagnosis and no     *)
(* diff, whatever earlier attempts stored (the update before PUBLISHING).  *)
(***************************************************************************)
THEOREM FailsClosedCorrect == ContentSpec => []CompletedFailsClosed
<1>1. ContentInv => CompletedFailsClosed
  BY DEF ContentInv, Types, ModelNeedsTrust, RowIsCurrent, CompletedFailsClosed
<1> QED BY <1>1, ContentInvariant, PTL

(***************************************************************************)
(* A published diff was verified, for a run of this repository, and the    *)
(* row says the same (publication.py renders patch_verified diffs only).   *)
(***************************************************************************)
THEOREM PublishedDiffsCorrect == ContentSpec => []PublishedDiffsAreVerified
<1>1. ContentInv => PublishedDiffsAreVerified
  <2> SUFFICES ASSUME ContentInv, posted.diff
               PROVE  origin = "this" /\ row.trust = "trusted" /\ row.diff = "verified"
    BY DEF PublishedDiffsAreVerified
  <2>1. kept = "verified" /\ trust = "trusted" /\ origin = "this"
    BY DEF ContentInv, PostedDiffIsVerified, ModelNeedsTrust, TrustIsProved
  <2>2. step \in {"finish", "completed"}
    BY DEF ContentInv, NothingAhead, Nothing
  <2> QED BY <2>1, <2>2 DEF ContentInv, RowIsCurrent
<1> QED BY <1>1, ContentInvariant, PTL

-----------------------------------------------------------------------------
(* Induction, for sets of indices                                          *)

LEMMA Counting ==
    ASSUME NEW n \in Nat, NEW T, 0 \in T, \A i \in 0 .. n - 1 : i \in T => i + 1 \in T
    PROVE  0 .. n \subseteq T
<1> DEFINE R == {p \in Nat \X Nat : p[1] < p[2]}
           Bad == {i \in 0 .. n : i \notin T}
<1> SUFFICES ASSUME Bad # {} PROVE FALSE
  OBVIOUS
<1>1. OpToRel(<, Nat) = R
  BY DEF OpToRel
<1>2. IsWellFoundedOn(R, Nat)
  BY <1>1, NatLessThanWellFounded
<1>3. PICK i \in Bad : \A j \in Bad : ~(<<j, i>> \in R)
  <2>1. Bad \subseteq Nat
    OBVIOUS
  <2> HIDE DEF R, Bad
  <2> QED BY <1>2, <2>1, WFMin
<1>4. i \in 1 .. n /\ i - 1 \in 0 .. n - 1
  BY <1>3
<1>5. i - 1 \notin Bad
  <2>1. <<i - 1, i>> \in R
    BY <1>4
  <2> HIDE DEF R, Bad
  <2> QED BY <1>3, <2>1
<1> QED BY <1>3, <1>4, <1>5

\* A recursive definition over the indices of a sequence has a solution.
Solvable(n, S, a, G) ==
    \E f \in [0 .. n -> S] : f[0] = a /\ \A i \in 1 .. n : f[i] = G[i][f[i - 1]]

LEMMA Recursion ==
    ASSUME NEW n \in Nat, NEW S, NEW a \in S, NEW G \in [1 .. n -> [S -> S]]
    PROVE  Solvable(n, S, a, G)
<1> DEFINE Solution(m, f) == f[0] = a /\ \A i \in 1 .. m : f[i] = G[i][f[i - 1]]
           T == {m \in 0 .. n : \E f \in [0 .. m -> S] : Solution(m, f)}
<1>1. 0 \in T
  <2> DEFINE f == [i \in 0 .. 0 |-> a]
  <2>1. f \in [0 .. 0 -> S] /\ Solution(0, f)
    OBVIOUS
  <2> HIDE DEF f, Solution
  <2> QED BY <2>1
<1>2. ASSUME NEW m \in 0 .. n - 1, m \in T
      PROVE  m + 1 \in T
  <2>1. PICK f \in [0 .. m -> S] : Solution(m, f)
    BY <1>2
  <2> DEFINE g == [i \in 0 .. m + 1 |-> IF i = m + 1 THEN G[m + 1][f[m]] ELSE f[i]]
  <2>2. m + 1 \in 1 .. n /\ f[m] \in S
    OBVIOUS
  <2>3. g \in [0 .. m + 1 -> S]
    BY <2>2
  <2>4. g[0] = a
    BY <2>1
  <2>5. ASSUME NEW i \in 1 .. m + 1
        PROVE  g[i] = G[i][g[i - 1]]
    <3>1. CASE i = m + 1
      BY <3>1
    <3>2. CASE i # m + 1
      <4>1. i \in 1 .. m /\ i - 1 \in 0 .. m
        BY <3>2
      <4> QED BY <2>1, <3>2, <4>1
    <3> QED BY <3>1, <3>2
  <2>6. Solution(m + 1, g)
    BY <2>4, <2>5
  <2> HIDE DEF g, Solution
  <2> QED BY <2>2, <2>3, <2>6
<1>3. n \in T
  <2> HIDE DEF T
  <2>1. 0 .. n \subseteq T
    BY <1>1, <1>2, Counting
  <2> QED BY <2>1
<1> QED BY <1>3 DEF Solvable

-----------------------------------------------------------------------------
(* Hunks and places                                                        *)

AnyHunk == [start : Nat, body : Seq(MarkedLines)]

\* f is the function that LinesWithout defines.
RawOf(f, mark, body) ==
    f = [i \in 0 .. Len(body) |->
            IF i = 0 THEN <<>>
            ELSE IF body[i].mark = mark THEN f[i - 1]
            ELSE Append(f[i - 1], body[i].raw)]

LEMMA WithoutType ==
    ASSUME NEW mark, NEW body \in Seq(MarkedLines)
    PROVE  /\ LinesWithout(mark, body) \in Seq(RawLines)
           /\ \E f : RawOf(f, mark, body) /\ LinesWithout(mark, body) = f[Len(body)]
<1> DEFINE n == Len(body)
           Solves(f) == RawOf(f, mark, body)
           G == [i \in 1 .. n |-> [s \in Seq(RawLines) |->
                    IF body[i].mark = mark THEN s ELSE Append(s, body[i].raw)]]
<1>1. n \in Nat /\ DOMAIN body = 1 .. n
  BY LenProperties
<1>2. \A i \in 1 .. n : body[i].raw \in RawLines
  <2> TAKE i \in 1 .. n
  <2>1. body[i] \in MarkedLines
    BY <1>1, ElementOfSeq
  <2> QED BY <2>1 DEF MarkedLines
<1>3. G \in [1 .. n -> [Seq(RawLines) -> Seq(RawLines)]]
  <2>1. ASSUME NEW i \in 1 .. n, NEW s \in Seq(RawLines)
        PROVE  (IF body[i].mark = mark THEN s ELSE Append(s, body[i].raw)) \in Seq(RawLines)
    BY <1>2, AppendProperties
  <2> QED BY <2>1
<1>4. <<>> \in Seq(RawLines)
  OBVIOUS
<1>5. \E f : Solves(f)
  <2> HIDE DEF G
  <2>1. PICK f \in [0 .. n -> Seq(RawLines)] : f[0] = <<>> /\ \A i \in 1 .. n : f[i] = G[i][f[i - 1]]
    <3> DEFINE S == Seq(RawLines)
               a == <<>>
    <3>1. a \in S
      OBVIOUS
    <3>2. G \in [1 .. n -> [S -> S]]
      BY <1>3
    <3>3. n \in Nat
      BY <1>1
    <3> HIDE DEF n, S, a, Solves
    <3>4. Solvable(n, S, a, G)
      BY <3>1, <3>2, <3>3, Recursion
    <3> QED BY <3>4 DEF S, a, Solvable
  <2>2. ASSUME NEW i \in 0 .. n
        PROVE  f[i] = IF i = 0 THEN <<>>
                      ELSE IF body[i].mark = mark THEN f[i - 1]
                      ELSE Append(f[i - 1], body[i].raw)
    <3>1. CASE i = 0
      BY <2>1, <3>1
    <3>2. CASE i # 0
      <4>1. i \in 1 .. n /\ f[i - 1] \in Seq(RawLines)
        BY <1>1, <3>2
      <4> QED BY <2>1, <3>2, <4>1 DEF G
    <3> QED BY <3>1, <3>2
  <2>3. Solves(f)
    BY <2>2 DEF RawOf
  <2> HIDE DEF Solves
  <2> QED BY <2>3
<1>6. PICK g : Solves(g) /\ LinesWithout(mark, body) = g[n]
  <2>1. LinesWithout(mark, body) = (CHOOSE f : Solves(f))[n]
    BY DEF LinesWithout, RawOf
  <2> QED BY <1>5, <2>1
<1>7. 0 .. n \subseteq {i \in 0 .. n : g[i] \in Seq(RawLines)}
  <2> DEFINE T == {i \in 0 .. n : g[i] \in Seq(RawLines)}
  <2>1. 0 \in T
    BY <1>1, <1>6 DEF RawOf
  <2>2. ASSUME NEW i \in 0 .. n - 1, i \in T
        PROVE  i + 1 \in T
    <3>1. i + 1 \in 0 .. n /\ i + 1 \in 1 .. n /\ i + 1 # 0 /\ (i + 1) - 1 = i
      BY <1>1
    <3>2. g[i + 1] = IF body[i + 1].mark = mark THEN g[i] ELSE Append(g[i], body[i + 1].raw)
      BY <1>1, <1>6, <3>1 DEF RawOf
    <3>3. g[i + 1] \in Seq(RawLines)
      BY <1>2, <2>2, <3>1, <3>2, AppendProperties
    <3> QED BY <3>1, <3>3
  <2> HIDE DEF T, Solves
  <2>3. 0 .. n \subseteq T
    BY <1>1, <2>1, <2>2, Counting
  <2> QED BY <2>3 DEF T
<1>8. LinesWithout(mark, body) \in Seq(RawLines)
  <2> HIDE DEF Solves
  <2> QED BY <1>1, <1>6, <1>7
<1> QED BY <1>6, <1>8

LEMMA HunkLines ==
    ASSUME NEW h \in AnyHunk
    PROVE  Old(h) \in Seq(RawLines) /\ New(h) \in Seq(RawLines) /\ h.start \in Nat
  BY WithoutType DEF Old, New, AnyHunk

\* A place in lines, or their end.
Upto(lines, k) == IF k < Len(lines) THEN k ELSE Len(lines)

\* What the loop copies up to a place s continues what it has consumed.
LEMMA CopiedLines ==
    ASSUME NEW l \in Seq(RawLines), NEW c \in Nat, NEW s \in Nat, c <= s
    PROVE  /\ Slice(l, c, s) \in Seq(RawLines)
           /\ SubSeq(l, 1, Upto(l, c)) \o Slice(l, c, s) = SubSeq(l, 1, Upto(l, s))
<1>1. Len(l) \in Nat
  BY LenProperties
<1>2. CASE c < Len(l)
  <2>1. /\ Upto(l, c) = c /\ Upto(l, s) \in c .. Len(l) /\ c \in 0 .. Len(l)
        /\ Slice(l, c, s) = SubSeq(l, c + 1, Upto(l, s))
    BY <1>1, <1>2 DEF Upto, Slice
  <2>2. SubSeq(l, 1, c) \o SubSeq(l, c + 1, Upto(l, s)) = SubSeq(l, 1, Upto(l, s))
    <3>1. 1 \in 1 .. Len(l) + 1 /\ c \in 1 - 1 .. Len(l)
      BY <1>1, <2>1
    <3> QED BY <2>1, <3>1, ConcatAdjacentSubSeq
  <2>3. \A i \in c + 1 .. Upto(l, s) : l[i] \in RawLines
    BY <1>1, <2>1, ElementOfSeq
  <2>4. SubSeq(l, c + 1, Upto(l, s)) \in Seq(RawLines)
    BY <1>1, <2>1, <2>3, SubSeqProperties
  <2> QED BY <2>1, <2>2, <2>4
<1>3. CASE c >= Len(l)
  <2>1. Upto(l, c) = Len(l) /\ Upto(l, s) = Len(l) /\ Slice(l, c, s) = SubSeq(l, c + 1, Len(l))
    BY <1>1, <1>3 DEF Upto, Slice
  <2>2. SubSeq(l, c + 1, Len(l)) = <<>>
    BY <1>1, <1>3, SubSeqEmpty
  <2>3. SubSeq(l, 1, Len(l)) = l /\ l \o <<>> = l /\ <<>> \in Seq(RawLines)
    BY SubSeqFull, ConcatEmptySeq
  <2> QED BY <2>1, <2>2, <2>3
<1>4. c < Len(l) \/ c >= Len(l)
  BY <1>1
<1> QED BY <1>2, <1>3, <1>4

LEMMA SameLength ==
    ASSUME NEW a \in Seq(RawLines), NEW b \in Seq(RawLines), Texts(a) = Texts(b)
    PROVE  Len(a) = Len(b)
<1>1. DOMAIN Texts(a) = DOMAIN a /\ DOMAIN Texts(b) = DOMAIN b
  BY DEF Texts
<1>2. 1 .. Len(a) = 1 .. Len(b) /\ Len(a) \in Nat /\ Len(b) \in Nat
  BY <1>1, LenProperties
<1> QED BY <1>2

\* A window that matches ends within the file; one without lines may lie
\* beyond the end, which comes to the same as the end.
LEMMA MatchInside ==
    ASSUME NEW l \in Seq(RawLines), NEW h \in AnyHunk, NEW s \in Nat, MatchesAt(l, h, s)
    PROVE  /\ MatchesAt(l, h, Upto(l, s))
           /\ Upto(l, s) \in 0 .. Len(l)
           /\ Upto(l, s) + Len(Old(h)) = Upto(l, s + Len(Old(h)))
           /\ Old(h) # <<>> => Upto(l, s) = s /\ s + Len(Old(h)) <= Len(l)
<1> DEFINE k == Len(Old(h))
           e == Upto(l, s + k)
<1>1. Len(l) \in Nat /\ k \in Nat /\ (k = 0 <=> Old(h) = <<>>)
  BY HunkLines, LenProperties, EmptySeq
<1>2. Upto(l, s) \in 0 .. Len(l) /\ e \in 0 .. Len(l)
  BY <1>1 DEF Upto
<1>3. CASE k = 0
  <2>1. Upto(l, s) + k = Upto(l, s + k)
    BY <1>1, <1>3 DEF Upto
  <2>2. Slice(l, Upto(l, s), Upto(l, s) + k) = SubSeq(l, Upto(l, s) + 1, Upto(l, s))
    <3> DEFINE p == Upto(l, s)
    <3> HIDE DEF p
    <3>1. p \in 0 .. Len(l) /\ p + k = p
      BY <1>1, <1>2, <1>3 DEF p
    <3>2. (IF p + k < Len(l) THEN p + k ELSE Len(l)) = p
      BY <1>1, <3>1
    <3>3. Slice(l, p, p + k) = SubSeq(l, p + 1, p)
      BY <3>2 DEF Slice
    <3> QED BY <3>3 DEF p
  <2>3. SubSeq(l, Upto(l, s) + 1, Upto(l, s)) = <<>>
    BY <1>2, SubSeqEmpty
  <2> QED BY <1>1, <1>2, <1>3, <2>1, <2>2, <2>3 DEF MatchesAt
<1>4. CASE k # 0
  <2>1. Texts(SubSeq(l, s + 1, e)) = Texts(Old(h))
    BY <1>1 DEF MatchesAt, Slice, Upto
  <2>2. \A i \in s + 1 .. e : l[i] \in RawLines
    BY <1>1, <1>2, ElementOfSeq
  <2>3. /\ SubSeq(l, s + 1, e) \in Seq(RawLines)
        /\ Len(SubSeq(l, s + 1, e)) = IF s + 1 <= e THEN e - (s + 1) + 1 ELSE 0
    BY <1>2, <2>2, SubSeqProperties
  <2>4. e = s + k
    <3>1. Len(SubSeq(l, s + 1, e)) = k
      BY <2>1, <2>3, HunkLines, SameLength
    <3> HIDE DEF e, k
    <3> QED BY <1>1, <1>2, <1>4, <2>3, <3>1
  <2>5. s + k <= Len(l) /\ Upto(l, s) = s
    BY <1>1, <1>2, <1>4, <2>4 DEF Upto
  <2> QED BY <1>2, <2>4, <2>5
<1> QED BY <1>3, <1>4

LEMMA PrefixType ==
    ASSUME NEW l \in Seq(RawLines), NEW k \in 0 .. Len(l)
    PROVE  SubSeq(l, 1, k) \in Seq(RawLines) /\ Len(SubSeq(l, 1, k)) = k
<1>1. Len(l) \in Nat
  BY LenProperties
<1>2. \A i \in 1 .. k : l[i] \in RawLines
  BY <1>1, ElementOfSeq
<1> QED BY <1>1, <1>2, SubSeqProperties

\* Replacing the end of a consumed part, in front of any rest.
LEMMA SpliceEnd ==
    ASSUME NEW l \in Seq(RawLines), NEW h \in AnyHunk, NEW p \in 0 .. Len(l), NEW t \in Seq(RawLines),
           p + Len(Old(h)) <= Len(l)
    PROVE  Splice(SubSeq(l, 1, p + Len(Old(h))) \o t, h, p) = SubSeq(l, 1, p) \o (New(h) \o t)
<1> DEFINE k == Len(Old(h))
           q == p + k
           front == SubSeq(l, 1, q)
           x == front \o t
<1>1. Len(l) \in Nat /\ Len(t) \in Nat /\ k \in Nat /\ New(h) \in Seq(RawLines)
  BY HunkLines, LenProperties
<1>2. q \in 0 .. Len(l) /\ p \in 0 .. q
  BY <1>1
<1>3. front \in Seq(RawLines) /\ Len(front) = q /\ SubSeq(l, 1, p) \in Seq(RawLines)
  BY <1>2, PrefixType
<1> HIDE DEF k, q, front
<1>4. x \in Seq(RawLines) /\ Len(x) = q + Len(t)
  BY <1>3, ConcatProperties
<1>5. SubSeq(x, 1, p) = SubSeq(l, 1, p)
  <2>1. CASE p = 0
    BY <1>1, <2>1, SubSeqEmpty
  <2>2. CASE p # 0
    <3>1. p \in 1 .. Len(front) /\ 1 \in 1 .. Len(front)
      BY <1>1, <1>2, <1>3, <2>2
    <3>2. SubSeq(x, 1, p) = SubSeq(front, 1, p)
      BY <1>3, <3>1, SubSeqOfConcat1
    <3>3. q \in 1 .. Len(l) /\ 1 \in 1 .. Len(l) /\ p \in 1 .. q - 1 + 1 /\ 1 \in 1 .. q - 1 + 1
      BY <1>1, <1>2, <2>2
    <3>4. SubSeq(front, 1, p) = SubSeq(l, 1 + 1 - 1, 1 + p - 1)
      BY <3>3, SubSeqOfSubSeq DEF front
    <3>5. 1 + 1 - 1 = 1 /\ 1 + p - 1 = p
      BY <1>2
    <3> QED BY <3>2, <3>4, <3>5
  <2> QED BY <2>1, <2>2
<1>6. SubSeq(x, q + 1, Len(x)) = t
  <2>1. CASE Len(t) = 0
    <3>1. SubSeq(x, q + 1, Len(x)) = <<>>
      BY <1>1, <1>2, <1>4, <2>1, SubSeqEmpty
    <3> QED BY <2>1, <3>1, EmptySeq
  <2>2. CASE Len(t) # 0
    <3>1. /\ q + 1 \in Len(front) + 1 .. Len(front) + Len(t)
          /\ Len(x) \in Len(front) + 1 .. Len(front) + Len(t)
      BY <1>1, <1>2, <1>3, <1>4, <2>2
    <3> DEFINE m == q + 1
               n == Len(x)
    <3>2. m - Len(front) = 1 /\ n - Len(front) = Len(t)
      BY <1>1, <1>2, <1>3, <1>4
    <3>3. m \in Len(front) + 1 .. Len(front) + Len(t) /\ n \in Len(front) + 1 .. Len(front) + Len(t)
      BY <3>1
    <3> HIDE DEF m, n
    <3>4. SubSeq(x, m, n) = SubSeq(t, m - Len(front), n - Len(front))
      BY <1>3, <3>3, SubSeqOfConcat2
    <3>5. SubSeq(x, m, n) = t
      BY <3>2, <3>4, SubSeqFull
    <3> HIDE DEF x
    <3> QED BY <3>5 DEF m, n
  <2> QED BY <2>1, <2>2
<1> HIDE DEF x
<1>7. Slice(x, 0, p) = SubSeq(x, 1, p)
  <2>1. (IF p < Len(x) THEN p ELSE Len(x)) = p /\ 0 + 1 = 1
    BY <1>1, <1>2, <1>4
  <2> QED BY <2>1 DEF Slice
<1>8. Slice(x, p + k, Len(x)) = SubSeq(x, q + 1, Len(x))
  BY <1>1, <1>2, <1>4 DEF Slice, q
<1>9. Splice(x, h, p) = (SubSeq(l, 1, p) \o New(h)) \o t
  BY <1>5, <1>6, <1>7, <1>8 DEF Splice, k
<1>10. (SubSeq(l, 1, p) \o New(h)) \o t = SubSeq(l, 1, p) \o (New(h) \o t)
  <2>1. \A a, b \in Seq(RawLines) : (a \o b) \o t = a \o (b \o t)
    BY ConcatAssociative
  <2> QED BY <1>1, <1>3, <2>1
<1> QED BY <1>9, <1>10 DEF x, front, q, k

\* f are the files between the splices, from the outcome to the head file.
Steps(f, d, n, at, head, outcome) ==
    /\ f \in [0 .. n -> Seq(RawLines)]
    /\ f[n] = head /\ f[0] = outcome
    /\ \A i \in 1 .. n : f[i - 1] = Splice(f[i], d[i], at[i])

LEMMA SpliceSteps ==
    ASSUME NEW d, Len(d) \in Nat, NEW at, NEW f, NEW l, NEW outcome, Steps(f, d, Len(d), at, l, outcome)
    PROVE  SpliceAll(l, d, at) = outcome
<1> DEFINE n == Len(d)
           Solves(g) == g = [i \in 0 .. n |->
                                IF i = n THEN l ELSE Splice(g[i + 1], d[i + 1], at[i + 1])]
<1>1. Solves(f)
  <2>1. ASSUME NEW i \in 0 .. n
        PROVE  f[i] = IF i = n THEN l ELSE Splice(f[i + 1], d[i + 1], at[i + 1])
    <3>1. CASE i = n
      BY <3>1 DEF Steps
    <3>2. CASE i # n
      <4>1. i + 1 \in 1 .. n /\ (i + 1) - 1 = i
        BY <3>2
      <4>2. f[(i + 1) - 1] = Splice(f[i + 1], d[i + 1], at[i + 1])
        BY <4>1 DEF Steps
      <4> QED BY <3>2, <4>1, <4>2
    <3> QED BY <3>1, <3>2
  <2> QED BY <2>1 DEF Steps
<1>2. PICK g : Solves(g) /\ SpliceAll(l, d, at) = g[0]
  <2>1. SpliceAll(l, d, at) = (CHOOSE g : Solves(g))[0]
    BY DEF SpliceAll
  <2> QED BY <1>1, <2>1
<1>3. 0 .. n \subseteq {i \in 0 .. n : g[n - i] = f[n - i]}
  <2> DEFINE T == {i \in 0 .. n : g[n - i] = f[n - i]}
  <2>1. 0 \in T
    <3>1. n - 0 = n /\ n \in 0 .. n /\ 0 \in 0 .. n
      OBVIOUS
    <3>2. g[n] = l /\ f[n] = l
      BY <1>2, <3>1 DEF Steps
    <3> QED BY <3>1, <3>2
  <2>2. ASSUME NEW i \in 0 .. n - 1, i \in T
        PROVE  i + 1 \in T
    <3> DEFINE j == n - (i + 1)
    <3>1. j \in 0 .. n /\ j # n /\ j + 1 = n - i /\ i + 1 \in 0 .. n
      OBVIOUS
    <3> HIDE DEF j
    <3>2. /\ g[j] = Splice(g[j + 1], d[j + 1], at[j + 1])
          /\ f[j] = Splice(f[j + 1], d[j + 1], at[j + 1])
      BY <1>1, <1>2, <3>1
    <3>3. g[j] = f[j]
      BY <2>2, <3>1, <3>2
    <3> QED BY <3>1, <3>3 DEF j
  <2> HIDE DEF T, Solves
  <2>3. 0 .. n \subseteq T
    BY <2>1, <2>2, Counting
  <2> QED BY <2>3 DEF T
<1>4. g[n - n] = f[n - n] /\ n - n = 0
  <2> HIDE DEF Solves
  <2> QED BY <1>3
<1> QED BY <1>2, <1>4 DEF Steps

-----------------------------------------------------------------------------
(* Ends of lines                                                           *)

\* Only the last line of a file, and of a diff, may lack its newline.
FileEnds(f) == \A i \in DOMAIN f : Open(f[i]) => i = Len(f)
BodyEnds(b) == \A j \in DOMAIN b : Open(b[j].raw) => j = Len(b)
DiffEnds(d) ==
    \A i \in DOMAIN d : \A j \in DOMAIN d[i].body :
        Open(d[i].body[j].raw) => i = Len(d) /\ j = Len(d[i].body)

OpenFile(f) == f # <<>> /\ Open(Last(f))

\* The last line of h is one of its new lines, and has no newline.
OpenHunk(h) == h.body # <<>> /\ Open(Last(h.body).raw) /\ Last(h.body).mark # "-"

LEMMA OpenNewLine ==
    ASSUME NEW h \in AnyHunk, BodyEnds(h.body), NEW k \in DOMAIN New(h), Open(New(h)[k])
    PROVE  k = Len(New(h)) /\ OpenHunk(h)
<1> DEFINE body == h.body
           n == Len(body)
<1>1. body \in Seq(MarkedLines) /\ n \in Nat /\ DOMAIN body = 1 .. n
  BY LenProperties DEF AnyHunk
<1> HIDE DEF body
<1>2. PICK f : RawOf(f, "-", body) /\ LinesWithout("-", body) = f[n]
  BY <1>1, WithoutType
<1> HIDE DEF n
<1> DEFINE Right(i) == /\ f[i] \in Seq(RawLines)
                       /\ \A j \in DOMAIN f[i] : Open(f[i][j]) =>
                              /\ j = Len(f[i]) /\ i = n /\ n # 0
                              /\ Open(body[n].raw) /\ body[n].mark # "-"
           T == {i \in 0 .. n : Right(i)}
<1>3. 0 \in T
  <2>1. f[0] = <<>> /\ 0 \in 0 .. n
    BY <1>1, <1>2 DEF RawOf, n
  <2>2. f[0] \in Seq(RawLines) /\ \A j \in DOMAIN f[0] : FALSE
    BY <2>1
  <2>3. Right(0)
    BY <2>2
  <2> HIDE DEF Right
  <2> QED BY <2>1, <2>3
<1>4. ASSUME NEW i \in 0 .. n - 1, i \in T
      PROVE  i + 1 \in T
  <2>1. i + 1 \in 0 .. n /\ i + 1 \in 1 .. n /\ i + 1 # 0 /\ (i + 1) - 1 = i /\ i # n /\ i \in 0 .. n
    BY <1>1
  <2>2. f[i + 1] = IF body[i + 1].mark = "-" THEN f[i] ELSE Append(f[i], body[i + 1].raw)
    BY <1>2, <2>1 DEF RawOf, n
  <2>3. Right(i) /\ f[i] \in Seq(RawLines)
    BY <1>4
  <2>4. \A j \in DOMAIN f[i] : ~Open(f[i][j])
    BY <2>1, <2>3
  <2>5. CASE body[i + 1].mark = "-"
    <3>1. f[i + 1] = f[i]
      BY <2>2, <2>5
    <3>2. Right(i + 1)
      BY <2>3, <2>4, <3>1
    <3> HIDE DEF Right
    <3> QED BY <2>1, <3>2
  <2>6. CASE body[i + 1].mark # "-"
    <3> DEFINE l == body[i + 1].raw
    <3>1. l \in RawLines
      <4>1. body[i + 1] \in MarkedLines
        BY <1>1, <2>1, ElementOfSeq DEF n
      <4> QED BY <4>1 DEF MarkedLines
    <3>2. f[i + 1] = Append(f[i], l)
      BY <2>2, <2>6
    <3>3. Open(l) => i + 1 = n
      BY <1>1, <2>1 DEF BodyEnds, body, n
    <3> HIDE DEF l
    <3>4. /\ f[i + 1] \in Seq(RawLines) /\ Len(f[i + 1]) = Len(f[i]) + 1 /\ Len(f[i]) \in Nat
          /\ \A j \in 1 .. Len(f[i]) : f[i + 1][j] = f[i][j]
          /\ f[i + 1][Len(f[i]) + 1] = l
          /\ DOMAIN f[i + 1] = 1 .. Len(f[i]) + 1 /\ DOMAIN f[i] = 1 .. Len(f[i])
      BY <2>3, <3>1, <3>2, AppendProperties, LenProperties
    <3>5. ASSUME NEW j \in DOMAIN f[i + 1], Open(f[i + 1][j])
          PROVE  /\ j = Len(f[i + 1]) /\ i + 1 = n /\ n # 0
                 /\ Open(body[n].raw) /\ body[n].mark # "-"
      <4>1. j = Len(f[i]) + 1
        BY <2>4, <3>4, <3>5
      <4>2. Open(l)
        BY <3>4, <3>5, <4>1
      <4> QED BY <2>1, <2>6, <3>3, <3>4, <4>1, <4>2 DEF l
    <3>6. Right(i + 1)
      BY <3>4, <3>5
    <3> HIDE DEF Right
    <3> QED BY <2>1, <3>6
  <2> QED BY <2>5, <2>6
<1>5. Right(n)
  <2> HIDE DEF T, Right
  <2>1. 0 .. n \subseteq T
    BY <1>1, <1>3, <1>4, Counting DEF n
  <2> QED BY <1>1, <2>1 DEF T, n
<1>6. New(h) = f[n]
  BY <1>2 DEF New, body
<1>7. k = Len(New(h)) /\ n # 0 /\ Open(body[n].raw) /\ body[n].mark # "-"
  BY <1>5, <1>6
<1>8. Last(body) = body[n] /\ body # <<>>
  BY <1>7 DEF Last, n
<1> QED BY <1>7, <1>8 DEF OpenHunk, body

\* f is the function that FlattenSeq defines.
Joined(f, seqs) == f = [i \in 1 .. Len(seqs) |-> IF i = 1 THEN seqs[i] ELSE f[i - 1] \o seqs[i]]

LEMMA FlattenType ==
    ASSUME NEW S, NEW seqs \in Seq(Seq(S))
    PROVE  /\ FlattenSeq(seqs) \in Seq(S)
           /\ Len(seqs) # 0 => \E f : Joined(f, seqs) /\ FlattenSeq(seqs) = f[Len(seqs)]
<1> DEFINE n == Len(seqs)
           Q == Seq(S)
           Solves(f) == Joined(f, seqs)
           G == [i \in 1 .. n |-> [s \in Q |-> s \o seqs[i]]]
<1>1. n \in Nat /\ DOMAIN seqs = 1 .. n /\ \A i \in 1 .. n : seqs[i] \in Q
  BY LenProperties, ElementOfSeq
<1>2. \A s, t \in Q : s \o t \in Q
  BY ConcatProperties
<1>3. CASE n = 0
  BY <1>3, EmptySeq DEF FlattenSeq
<1>4. CASE n # 0
  <2>1. FlattenSeq(seqs) = (CHOOSE f : Solves(f))[n]
    BY <1>4 DEF FlattenSeq, Joined
  <2>2. <<>> \in Q /\ <<>> \o seqs[1] = seqs[1]
    BY <1>1, <1>4, ConcatEmptySeq
  <2> DEFINE a == <<>>
  <2> HIDE DEF n, Q
  <2>3. G \in [1 .. n -> [Q -> Q]] /\ a \in Q
    BY <1>1, <1>2, <2>2
  <2> HIDE DEF G, a
  <2>4. Solvable(n, Q, a, G)
    BY <1>1, <2>3, Recursion
  <2>5. PICK g \in [0 .. n -> Q] : g[0] = a /\ \A i \in 1 .. n : g[i] = G[i][g[i - 1]]
    BY <2>4 DEF Solvable
  <2> DEFINE f == [i \in 1 .. n |-> g[i]]
  <2>6. ASSUME NEW i \in 1 .. n
        PROVE  f[i] = IF i = 1 THEN seqs[i] ELSE f[i - 1] \o seqs[i]
    <3>1. i - 1 \in 0 .. n /\ (i # 1 => i - 1 \in 1 .. n)
      BY <1>1
    <3>2. g[i] = g[i - 1] \o seqs[i]
      BY <2>5, <3>1 DEF G
    <3>3. CASE i = 1
      <4>1. i - 1 = 0 /\ f[i] = g[i]
        BY <3>3
      <4>2. g[i] = <<>> \o seqs[1]
        BY <2>5, <3>2, <3>3, <4>1 DEF a
      <4> QED BY <2>2, <3>3, <4>1, <4>2
    <3>4. CASE i # 1
      BY <3>1, <3>2, <3>4
    <3> QED BY <3>3, <3>4
  <2>7. Solves(f)
    BY <2>6 DEF Joined, n
  <2>8. PICK r : Solves(r) /\ FlattenSeq(seqs) = r[n]
    <3> HIDE DEF f, Solves
    <3> QED BY <2>1, <2>7
  <2> DEFINE T == {i \in 0 .. n : i = 0 \/ r[i] \in Q}
  <2>9. 0 \in T
    BY <1>1
  <2>10. ASSUME NEW i \in 0 .. n - 1, i \in T
         PROVE  i + 1 \in T
    <3>1. i + 1 \in 1 .. n /\ i + 1 \in 0 .. n /\ (i + 1) - 1 = i /\ (i + 1 = 1 <=> i = 0)
      BY <1>1
    <3>2. r[i + 1] = IF i + 1 = 1 THEN seqs[i + 1] ELSE r[i] \o seqs[i + 1]
      BY <2>8, <3>1 DEF Joined, n
    <3> QED BY <1>1, <1>2, <2>10, <3>1, <3>2
  <2> HIDE DEF T, Solves
  <2>11. 0 .. n \subseteq T
    BY <1>1, <2>9, <2>10, Counting
  <2>12. n \in T /\ n # 0
    BY <1>1, <1>4, <2>11
  <2>13. FlattenSeq(seqs) \in Seq(S)
    BY <2>8, <2>12 DEF T, Q
  <2> QED BY <2>8, <2>13 DEF Solves, n
<1> QED BY <1>3, <1>4

Symbols == Lines \cup Newlines
Piece(l) == IF Open(l) THEN <<l.text>> ELSE <<l.text, l.end>>

\* Lines that have their ends do not run together.
LEMMA JoinSeams ==
    ASSUME NEW lines \in Seq(RawLines), \A i \in 1 .. Len(lines) - 1 : ~Open(lines[i])
    PROVE  ~Glued(Join(lines))
<1> DEFINE n == Len(lines)
           parts == [i \in DOMAIN lines |-> Piece(lines[i])]
<1>1. n \in Nat /\ DOMAIN lines = 1 .. n /\ \A i \in 1 .. n : lines[i] \in RawLines
  BY LenProperties, ElementOfSeq
<1>2. ASSUME NEW l \in RawLines
      PROVE  /\ Piece(l) \in Seq(Symbols) /\ Len(Piece(l)) \in {1, 2}
             /\ Len(Piece(l)) = 2 => Piece(l)[2] \notin Lines
             /\ ~Open(l) => Len(Piece(l)) = 2
  <2>1. l.text \in Lines /\ (~Open(l) => l.end \in Newlines)
    BY DEF RawLines, Open
  <2>2. l.text \in Symbols /\ (~Open(l) => l.end \in Symbols /\ l.end \notin Lines)
    BY <2>1, PatchAssumption DEF Symbols
  <2>3. CASE Open(l)
    BY <2>2, <2>3 DEF Piece
  <2>4. CASE ~Open(l)
    BY <2>2, <2>4 DEF Piece
  <2> QED BY <2>3, <2>4
<1>3. /\ parts \in Seq(Seq(Symbols)) /\ Len(parts) = n
      /\ \A i \in 1 .. n : parts[i] = Piece(lines[i])
  <2>1. parts \in [1 .. n -> Seq(Symbols)] /\ \A i \in 1 .. n : parts[i] = Piece(lines[i])
    BY <1>1, <1>2
  <2> HIDE DEF parts
  <2> QED BY <1>1, <2>1
<1>4. Join(lines) = FlattenSeq(parts)
  BY DEF Join, Piece
<1> HIDE DEF parts, n
<1>5. CASE n = 0
  <2>1. FlattenSeq(parts) = parts
    BY <1>3, <1>5 DEF FlattenSeq
  <2> QED BY <1>3, <1>4, <1>5, <2>1 DEF Glued
<1>6. CASE n # 0
  <2>1. PICK r : Joined(r, parts) /\ FlattenSeq(parts) = r[n]
    BY <1>3, <1>6, FlattenType
  <2> DEFINE Good(m, x) == /\ x \in Seq(Symbols) /\ Len(x) # 0
                           /\ \A i \in 1 .. Len(x) - 1 : x[i] \notin Lines \/ x[i + 1] \notin Lines
                           /\ m < n => x[Len(x)] \notin Lines
             T == {m \in 0 .. n : m = 0 \/ Good(m, r[m])}
  <2>2. 0 \in T
    BY <1>1 DEF n
  <2>3. ASSUME NEW m \in 0 .. n - 1, m \in T
        PROVE  m + 1 \in T
    <3>1. m + 1 \in 1 .. n /\ m + 1 \in 0 .. n /\ (m + 1) - 1 = m /\ (m + 1 = 1 <=> m = 0) /\ m < n
      BY <1>1 DEF n
    <3> DEFINE b == parts[m + 1]
    <3>2. r[m + 1] = IF m = 0 THEN b ELSE r[m] \o b
      BY <1>3, <2>1, <3>1 DEF Joined
    <3>3. /\ b \in Seq(Symbols) /\ Len(b) \in {1, 2} /\ (Len(b) = 2 => b[2] \notin Lines)
          /\ m + 1 < n => Len(b) = 2
      <4>0. m + 1 < n => m + 1 \in 1 .. n - 1
        BY <1>1, <3>1
      <4>2. m + 1 < n => ~Open(lines[m + 1])
        BY <4>0 DEF n
      <4>1. lines[m + 1] \in RawLines /\ (m + 1 < n => ~Open(lines[m + 1])) /\ b = Piece(lines[m + 1])
        BY <1>1, <1>3, <3>1, <4>2
      <4> QED BY <1>2, <4>1
    <3> HIDE DEF b
    <3>4. Good(m + 1, b)
      <4>1. ASSUME NEW i \in 1 .. Len(b) - 1
            PROVE  b[i + 1] \notin Lines
        <5>1. \A x \in {1, 2} : \A y \in 1 .. x - 1 : x = 2 /\ y + 1 = 2
          OBVIOUS
        <5>2. Len(b) = 2 /\ i + 1 = 2
          BY <3>3, <5>1, Zenon
        <5> QED BY <3>3, <5>2
      <4>2. m + 1 < n => b[Len(b)] \notin Lines
        BY <3>3
      <4>3. Len(b) # 0
        BY <3>3
      <4> QED BY <3>3, <4>1, <4>2, <4>3
    <3>5. CASE m = 0
      BY <3>1, <3>2, <3>4, <3>5
    <3>6. CASE m # 0
      <4> DEFINE a == r[m]
                 x == a \o b
      <4>1. Good(m, a)
        BY <2>3, <3>6
      <4>2. /\ x \in Seq(Symbols) /\ Len(x) = Len(a) + Len(b) /\ Len(a) \in Nat
            /\ \A i \in 1 .. Len(a) + Len(b) : x[i] = IF i <= Len(a) THEN a[i] ELSE b[i - Len(a)]
        <5> HIDE DEF a
        <5> QED BY <3>3, <4>1, ConcatProperties, LenProperties
      <4> HIDE DEF a, x
      <4>3. ASSUME NEW i \in 1 .. Len(x) - 1
            PROVE  x[i] \notin Lines \/ x[i + 1] \notin Lines
        <5>1. CASE i < Len(a)
          BY <3>3, <4>1, <4>2, <5>1
        <5>2. CASE i = Len(a)
          BY <3>1, <3>3, <4>1, <4>2, <5>2
        <5>3. CASE i > Len(a)
          <6>1. i + 1 = Len(a) + 2 /\ Len(b) = 2 /\ i + 1 \in 1 .. Len(a) + Len(b)
            <7>1. \A p \in Nat : \A q \in {1, 2} : \A k \in 1 .. (p + q) - 1 :
                     k > p => k + 1 = p + 2 /\ q = 2 /\ k + 1 \in 1 .. p + q
              OBVIOUS
            <7>2. i \in 1 .. (Len(a) + Len(b)) - 1
              BY <4>2, Zenon
            <7> QED BY <3>3, <4>2, <5>3, <7>1, <7>2, Zenon
          <6>2. x[i + 1] = b[2]
            BY <4>2, <6>1
          <6> QED BY <3>3, <6>1, <6>2
        <5> QED BY <4>2, <5>1, <5>2, <5>3
      <4>4. m + 1 < n => x[Len(x)] \notin Lines
        <5> SUFFICES ASSUME m + 1 < n PROVE x[Len(x)] \notin Lines
          OBVIOUS
        <5>1. Len(b) = 2 /\ Len(x) = Len(a) + 2
          BY <3>3, <4>2
        <5>2. x[Len(x)] = b[2]
          BY <4>2, <5>1
        <5> QED BY <3>3, <5>1, <5>2
      <4>5. Good(m + 1, x)
        BY <3>3, <4>1, <4>2, <4>3, <4>4
      <4>6. r[m + 1] = x
        BY <3>2, <3>6 DEF x, a
      <4> HIDE DEF Good
      <4> QED BY <3>1, <4>5, <4>6
    <3> QED BY <3>5, <3>6
  <2>4. Good(n, r[n])
    <3> HIDE DEF T, Good
    <3>1. 0 .. n \subseteq T
      BY <1>1, <2>2, <2>3, Counting DEF n
    <3> QED BY <1>1, <1>6, <3>1 DEF T, n
  <2> QED BY <1>4, <2>1, <2>4 DEF Glued
<1> QED BY <1>5, <1>6

\* Line i of w has no end, where h is applied at s behind what r has of l.
OpenAt(i, w, l, r, h, c, s) ==
    /\ l \in Seq(RawLines) /\ FileEnds(l) /\ r \in Seq(RawLines)
    /\ h \in AnyHunk /\ BodyEnds(h.body)
    /\ c \in Nat /\ s \in Nat /\ c <= s /\ MatchesAt(l, h, s)
    /\ w = r \o Slice(l, c, s) \o New(h)
    /\ i \in DOMAIN w /\ Open(w[i])

\* Where such a line can come from.
LEMMA OpenLines ==
    ASSUME NEW i, NEW w, NEW l, NEW r, NEW h, NEW c, NEW s, OpenAt(i, w, l, r, h, c, s)
    PROVE  \/ i \in DOMAIN r /\ Open(r[i])
           \/ Old(h) = <<>> /\ Upto(l, s) = Len(l) /\ OpenFile(l)
           \/ i = Len(w) /\ OpenHunk(h)
<1> DEFINE t == Slice(l, c, s)
           v == r \o t
           new == New(h)
           e == Upto(l, s)
<1>0. /\ l \in Seq(RawLines) /\ FileEnds(l) /\ r \in Seq(RawLines)
      /\ h \in AnyHunk /\ BodyEnds(h.body)
      /\ c \in Nat /\ s \in Nat /\ c <= s /\ MatchesAt(l, h, s)
      /\ w = r \o Slice(l, c, s) \o New(h)
      /\ i \in DOMAIN w /\ Open(w[i])
  BY DEF OpenAt
<1> USE <1>0
<1>1. /\ t \in Seq(RawLines) /\ new \in Seq(RawLines) /\ Len(l) \in Nat /\ Len(r) \in Nat
      /\ e \in 0 .. Len(l)
  BY CopiedLines, HunkLines, LenProperties DEF Upto
<1>2. t = SubSeq(l, c + 1, e)
  BY DEF Slice, Upto
<1>3. e + Len(Old(h)) = Upto(l, s + Len(Old(h))) /\ Len(Old(h)) \in Nat
  BY MatchInside, HunkLines, LenProperties
<1>4. Upto(l, s + Len(Old(h))) <= Len(l)
  BY <1>1, <1>3 DEF Upto
<1> HIDE DEF t, new, e
<1>5. /\ v \in Seq(RawLines) /\ Len(v) = Len(r) + Len(t) /\ Len(t) \in Nat /\ Len(new) \in Nat
      /\ \A j \in 1 .. Len(r) + Len(t) : v[j] = IF j <= Len(r) THEN r[j] ELSE t[j - Len(r)]
      /\ DOMAIN r = 1 .. Len(r) /\ DOMAIN new = 1 .. Len(new)
  BY <1>1, ConcatProperties, LenProperties
<1>6. w = v \o new
  BY DEF t, new
<1> HIDE DEF v
<1>7. /\ Len(w) = Len(v) + Len(new) /\ DOMAIN w = 1 .. Len(w)
      /\ \A j \in 1 .. Len(v) + Len(new) : w[j] = IF j <= Len(v) THEN v[j] ELSE new[j - Len(v)]
  <2>1. \A x, y \in Seq(RawLines) :
           /\ x \o y \in Seq(RawLines)
           /\ Len(x \o y) = Len(x) + Len(y)
           /\ \A j \in 1 .. Len(x) + Len(y) : (x \o y)[j] = IF j <= Len(x) THEN x[j] ELSE y[j - Len(x)]
    BY ConcatProperties
  <2>2. /\ w \in Seq(RawLines) /\ Len(w) = Len(v) + Len(new)
        /\ \A j \in 1 .. Len(v) + Len(new) : w[j] = IF j <= Len(v) THEN v[j] ELSE new[j - Len(v)]
    <3>1. v \in Seq(RawLines) /\ new \in Seq(RawLines)
      BY <1>1, <1>5
    <3>2. /\ v \o new \in Seq(RawLines) /\ Len(v \o new) = Len(v) + Len(new)
          /\ \A j \in 1 .. Len(v) + Len(new) : (v \o new)[j] = IF j <= Len(v) THEN v[j] ELSE new[j - Len(v)]
      BY <2>1, <3>1, Zenon
    <3> QED BY <1>6, <3>2, Zenon
  <2>3. DOMAIN w = 1 .. Len(w)
    BY <2>2, LenProperties
  <2> QED BY <2>2, <2>3
<1>8. CASE i <= Len(r)
  <2>1. i \in 1 .. Len(r) /\ w[i] = r[i]
    BY <1>5, <1>7, <1>8
  <2> QED BY <1>5, <2>1
<1>9. CASE i > Len(r) /\ i <= Len(v)
  <2> DEFINE j == i - Len(r)
  <2>1. j \in 1 .. Len(t) /\ w[i] = t[j]
    <3>1. \A p, q, k \in Int :
             k > p /\ k <= p + q => k - p \in 1 .. q /\ k \in Int /\ ~(k <= p)
      OBVIOUS
    <3>2. i \in Int /\ Len(r) \in Int /\ Len(t) \in Int /\ i <= Len(r) + Len(t)
      BY <1>1, <1>5, <1>7, <1>9
    <3>3. i - Len(r) \in 1 .. Len(t) /\ ~(i <= Len(r))
      BY <1>9, <3>1, <3>2, Zenon
    <3>4. i \in 1 .. Len(r) + Len(t) /\ i \in 1 .. Len(v) + Len(new)
      BY <1>0, <1>5, <1>7, <3>2
    <3>5. w[i] = v[i] /\ v[i] = t[i - Len(r)]
      BY <1>5, <1>7, <1>9, <3>3, <3>4, Zenon
    <3> QED BY <3>3, <3>5
  <2>2. \A x \in c + 1 .. e : l[x] \in RawLines
    BY <1>1, ElementOfSeq
  <2>3. /\ Len(t) = IF c + 1 <= e THEN e - (c + 1) + 1 ELSE 0
        /\ \A x \in 1 .. e - (c + 1) + 1 : t[x] = l[c + 1 + x - 1]
    BY <1>1, <1>2, <2>2, SubSeqProperties
  <2> HIDE DEF j
  <2>4. c + j \in 1 .. Len(l) /\ c + j <= e /\ t[j] = l[c + j]
    <3>1. j \in Nat /\ j > 0 /\ j <= Len(t) /\ c + 1 <= e /\ Len(t) = e - c /\ e \in Nat /\ e <= Len(l)
      BY <1>1, <2>1, <2>3
    <3>2. j \in 1 .. e - (c + 1) + 1 /\ c + 1 + j - 1 = c + j /\ c + j <= e /\ c + j \in 1 .. Len(l)
      BY <1>1, <3>1
    <3> QED BY <2>3, <3>2
  <2>5. c + j = Len(l)
    BY <2>1, <2>4, LenProperties DEF FileEnds
  <2>6. e = Len(l) /\ Len(Old(h)) = 0
    BY <1>1, <1>3, <1>4, <2>4, <2>5
  <2>7. Old(h) = <<>>
    BY <2>6, HunkLines, EmptySeq
  <2>8. l # <<>> /\ Last(l) = l[c + j]
    BY <1>1, <2>4, <2>5 DEF Last
  <2> QED BY <2>1, <2>4, <2>6, <2>7, <2>8 DEF OpenFile, e
<1>10. CASE i > Len(v)
  <2> DEFINE j == i - Len(v)
  <2>0. i \in 1 .. Len(v) + Len(new) /\ ~(i <= Len(v)) /\ Len(v) \in Nat
    BY <1>1, <1>5, <1>7, <1>10
  <2>1. j \in 1 .. Len(new) /\ w[i] = new[j]
    <3>1. \A p, q \in Nat : \A k \in 1 .. p + q : ~(k <= p) => k - p \in 1 .. q
      OBVIOUS
    <3>2. i - Len(v) \in 1 .. Len(new)
      BY <1>5, <2>0, <3>1, Zenon
    <3>3. w[i] = new[i - Len(v)]
      BY <1>7, <2>0, Zenon
    <3> QED BY <3>2, <3>3
  <2> HIDE DEF j
  <2>2. j = Len(new) /\ OpenHunk(h)
    BY <1>5, <2>1, OpenNewLine DEF new
  <2>3. i = Len(w)
    BY <1>1, <1>5, <1>7, <1>10, <2>2 DEF j
  <2> QED BY <2>2, <2>3
<1> QED BY <1>1, <1>5, <1>7, <1>8, <1>9, <1>10

-----------------------------------------------------------------------------
(* The loop of apply_unified_diff                                          *)

\* The diff was written for this very file.
Written ==
    /\ Changes(diff)
    /\ \A i \in DOMAIN diff : diff[i].start > 0 /\ Old(diff[i]) # <<>>
    /\ Fits(file, diff, [i \in DOMAIN diff |-> diff[i].start - 1])

Consumed == SubSeq(file, 1, Upto(file, cursor))

(***************************************************************************)
(* at are places of the hunks applied so far.  Splicing these hunks into   *)
(* the consumed part, followed by whatever is still to come, gives the     *)
(* lines written, followed by the same.                                    *)
(***************************************************************************)
Placed(at) ==
    /\ at \in [1 .. applied -> 0 .. Len(file)]
    /\ \A i \in 1 .. applied :
        /\ MatchesAt(file, diff[i], at[i])
        /\ i > 1 => at[i] >= at[i - 1] + Len(Old(diff[i - 1]))
    /\ applied > 0 => at[applied] + Len(Old(diff[applied])) = Upto(file, cursor)
    /\ \A t \in Seq(RawLines) : \E f : Steps(f, diff, applied, at, Consumed \o t, result \o t)
    /\ Written => cursor <= Len(file) /\ \A i \in 1 .. applied : at[i] = diff[i].start - 1

\* Lines written so far that lack their end: the last one, where the diff or
\* the file ends, or one behind which a hunk has been added to the file.
Seams(at) ==
    \A i \in DOMAIN result : Open(result[i]) =>
        \/ /\ i = Len(result)
           /\ \/ applied > 0 /\ applied = Len(diff) /\ OpenHunk(diff[applied])
              \/ Upto(file, cursor) = Len(file) /\ OpenFile(file)
        \/ /\ OpenFile(file)
           /\ \E j \in 1 .. applied : Old(diff[j]) = <<>> /\ at[j] = Len(file)

CheckingOK ==
    /\ FileEnds(file) /\ DiffEnds(diff)
    /\ file \in Seq(RawLines) /\ diff \in Seq(AnyHunk) /\ result \in Seq(RawLines)
    /\ applied \in 0 .. Len(diff) /\ cursor \in Nat
    /\ applied = 0 => cursor = 0
    /\ \E at : Placed(at) /\ Seams(at)

PatchInv ==
    /\ verdict = "checking" => CheckingOK
    /\ verdict \in {"verified", "rejected"} => file \in Seq(RawLines) /\ FileEnds(file)
    /\ verdict = "verified" => updated = Join(result)
    /\ VerifiedIsSound
    /\ AppliedAsWritten

LEMMA SubmitInv ==
    ASSUME NEW f \in Seq(RawLines), NEW d \in Seq(AnyHunk), FileEnds(f), DiffEnds(d),
           Submit(f, d, "checking")
    PROVE  PatchInv'
<1> DEFINE at == [i \in 1 .. 0 |-> 0]
<1>1. /\ file' = f /\ diff' = d /\ applied' = 0 /\ cursor' = 0 /\ result' = <<>>
      /\ verdict' = "checking"
  BY DEF Submit
<1>2. Len(f) \in Nat /\ Len(d) \in Nat
  BY LenProperties
<1>3. Upto(f, 0) = 0
  BY <1>2 DEF Upto
<1>4. Consumed' = <<>>
  BY <1>1, <1>3, SubSeqEmpty DEF Consumed
<1>5. ASSUME NEW t \in Seq(RawLines)
      PROVE  \E g : Steps(g, d, 0, at, <<>> \o t, <<>> \o t)
  <2> DEFINE g == [i \in 0 .. 0 |-> t]
  <2>1. <<>> \o t = t
    BY ConcatEmptySeq
  <2>2. g \in [0 .. 0 -> Seq(RawLines)] /\ g[0] = t
    OBVIOUS
  <2> HIDE DEF g
  <2>3. Steps(g, d, 0, at, t, t)
    BY <2>2 DEF Steps
  <2> QED BY <2>1, <2>3
<1>6. at \in [1 .. 0 -> 0 .. Len(f)]
  OBVIOUS
<1> HIDE DEF at
<1>7. Placed(at)'
  BY <1>1, <1>2, <1>4, <1>5, <1>6 DEF Placed
<1>8. Seams(at)'
  BY <1>1 DEF Seams
<1>9. CheckingOK'
  BY <1>1, <1>2, <1>7, <1>8 DEF CheckingOK
<1> QED BY <1>1, <1>9 DEF PatchInv, VerifiedIsSound, AppliedAsWritten

\* _locate_hunk returns a place behind what was consumed where h matches.
LEMMA LocateFacts ==
    ASSUME NEW l \in Seq(RawLines), NEW h \in AnyHunk, NEW from \in Nat
    PROVE  /\ \A s \in LocateHunk(l, h, from) : s \in Nat /\ s >= from /\ MatchesAt(l, h, s)
           /\ h.start > 0 /\ h.start - 1 >= from /\ MatchesAt(l, h, h.start - 1)
                => LocateHunk(l, h, from) = {h.start - 1}
<1>1. Len(l) \in Nat /\ Len(Old(h)) \in Nat /\ h.start \in Nat
  BY HunkLines, LenProperties
<1>2. Stated(h) \in Nat /\ (h.start > 0 => Stated(h) = h.start - 1)
  BY <1>1 DEF Stated
<1> DEFINE candidates == {s \in from .. Len(l) - Len(Old(h)) : MatchesAt(l, h, s)}
<1>3. \A s \in candidates : s \in Nat /\ s >= from /\ MatchesAt(l, h, s)
  BY <1>1
<1>4. LocateHunk(l, h, from) =
        IF Stated(h) >= from /\ MatchesAt(l, h, Stated(h)) THEN {Stated(h)}
        ELSE IF Cardinality(candidates) = 1 THEN candidates
        ELSE {}
  BY DEF LocateHunk
<1> HIDE DEF candidates
<1> QED BY <1>2, <1>3, <1>4

\* A diff that was written for the file never has to look for its next place.
LEMMA WrittenPlace ==
    ASSUME CheckingOK, Written, applied < Len(diff)
    PROVE  /\ diff[applied + 1].start \in Nat /\ diff[applied + 1].start > 0
           /\ Old(diff[applied + 1]) # <<>>
           /\ LocateHunk(file, diff[applied + 1], cursor) = {diff[applied + 1].start - 1}
<1> DEFINE n == applied + 1
           h == diff[n]
           w == [i \in DOMAIN diff |-> diff[i].start - 1]
<1>1. PICK at : Placed(at)
  BY DEF CheckingOK
<1>2. /\ file \in Seq(RawLines) /\ diff \in Seq(AnyHunk) /\ cursor \in Nat
      /\ applied \in Nat /\ Len(diff) \in Nat /\ Len(file) \in Nat /\ n \in 1 .. Len(diff)
      /\ DOMAIN diff = 1 .. Len(diff) /\ n = applied + 1
  BY LenProperties DEF CheckingOK
<1>3. h \in AnyHunk
  BY <1>2, ElementOfSeq
<1> HIDE DEF n, h
<1>4. /\ \A i \in DOMAIN diff : diff[i].start > 0 /\ Old(diff[i]) # <<>>
      /\ Fits(file, diff, w)
  BY DEF Written
<1>5. cursor <= Len(file) /\ \A i \in 1 .. applied : at[i] = diff[i].start - 1
  BY <1>1 DEF Placed
<1>6. h.start \in Nat /\ h.start > 0 /\ Old(h) # <<>> /\ w[n] = h.start - 1
  BY <1>2, <1>3, <1>4, HunkLines DEF h
<1>7. MatchesAt(file, h, h.start - 1)
  <2> HIDE DEF w
  <2>1. MatchesAt(file, diff[n], w[n])
    BY <1>2, <1>4 DEF Fits
  <2> QED BY <1>6, <2>1 DEF h
<1>8. h.start - 1 >= cursor
  <2>1. CASE applied = 0
    BY <1>6, <2>1 DEF CheckingOK
  <2>2. CASE applied > 0
    <3>1. applied \in DOMAIN diff /\ n \in DOMAIN diff /\ n > 1 /\ n - 1 = applied /\ applied \in 1 .. applied
      BY <1>2, <2>2
    <3>2. w[applied] = at[applied]
      BY <1>5, <3>1
    <3>3. w[n] >= w[n - 1] + Len(Old(diff[n - 1]))
      <4> HIDE DEF w
      <4> QED BY <1>4, <3>1 DEF Fits
    <3>4. at[applied] + Len(Old(diff[applied])) = cursor
      BY <1>1, <1>2, <1>5, <2>2 DEF Placed, Upto
    <3> HIDE DEF w
    <3> QED BY <1>6, <3>1, <3>2, <3>3, <3>4
  <2> QED BY <1>2, <2>1, <2>2
<1>9. LocateHunk(file, h, cursor) = {h.start - 1}
  BY <1>2, <1>3, <1>6, <1>7, <1>8, LocateFacts
<1> QED BY <1>6, <1>9 DEF h, n

LEMMA ApplyHunkInv ==
    ASSUME PatchInv, ApplyHunk
    PROVE  PatchInv'
<1> DEFINE n == applied + 1
           h == diff[n]
<1>1. /\ verdict = "checking" /\ applied < Len(diff) /\ applied' = n
      /\ file' = file /\ diff' = diff /\ verdict' = verdict
  BY DEF ApplyHunk
<1>2. PICK s \in LocateHunk(file, h, cursor) :
        result' = result \o Slice(file, cursor, s) \o New(h) /\ cursor' = s + Len(Old(h))
  BY DEF ApplyHunk
<1>3. CheckingOK
  BY <1>1 DEF PatchInv
<1>4. PICK at : Placed(at) /\ Seams(at)
  BY <1>3 DEF CheckingOK
<1>5. /\ file \in Seq(RawLines) /\ diff \in Seq(AnyHunk) /\ result \in Seq(RawLines) /\ cursor \in Nat
      /\ applied \in Nat /\ Len(diff) \in Nat /\ Len(file) \in Nat /\ n \in 1 .. Len(diff)
      /\ DOMAIN diff = 1 .. Len(diff)
  BY <1>1, <1>3, LenProperties DEF CheckingOK
<1>6. h \in AnyHunk
  BY <1>5, ElementOfSeq
<1>7. s \in Nat /\ s >= cursor /\ MatchesAt(file, h, s)
  BY <1>2, <1>5, <1>6, LocateFacts
<1> HIDE DEF n, h
<1> DEFINE p == Upto(file, s)
           k == Len(Old(h))
<1>8. /\ MatchesAt(file, h, p) /\ p \in 0 .. Len(file) /\ p + k = Upto(file, s + k)
      /\ Old(h) # <<>> => p = s /\ s + k <= Len(file)
  BY <1>5, <1>6, <1>7, MatchInside
<1>9. /\ Slice(file, cursor, s) \in Seq(RawLines)
      /\ Consumed \o Slice(file, cursor, s) = SubSeq(file, 1, p)
  BY <1>5, <1>7, CopiedLines DEF Consumed
<1>10. Old(h) \in Seq(RawLines) /\ New(h) \in Seq(RawLines) /\ h.start \in Nat /\ k \in Nat
  BY <1>6, HunkLines, LenProperties
<1>11. cursor' \in Nat /\ Upto(file, cursor') = p + k /\ p + k <= Len(file)
  BY <1>2, <1>5, <1>7, <1>8, <1>10 DEF Upto
<1>12. Upto(file, cursor) <= p /\ Upto(file, cursor) \in 0 .. Len(file)
  BY <1>5, <1>7 DEF Upto
<1>13. result' \in Seq(RawLines)
  BY <1>2, <1>5, <1>9, <1>10, ConcatProperties
<1> DEFINE new == [i \in 1 .. n |-> IF i = n THEN p ELSE at[i]]
<1>14. at \in [1 .. applied -> 0 .. Len(file)] /\ n = applied + 1
  BY <1>4 DEF Placed, n
<1>15. /\ new \in [1 .. n -> 0 .. Len(file)] /\ new[n] = p
       /\ \A i \in 1 .. applied : new[i] = at[i]
  BY <1>5, <1>8, <1>14
<1> HIDE DEF new, p, k
<1>16. ASSUME NEW i \in 1 .. n
       PROVE  /\ MatchesAt(file, diff[i], new[i])
              /\ i > 1 => new[i] >= new[i - 1] + Len(Old(diff[i - 1]))
  <2>1. CASE i = n
    <3>1. MatchesAt(file, diff[i], new[i])
      BY <1>8, <1>15, <2>1 DEF h
    <3>2. ASSUME i > 1
          PROVE  new[i] >= new[i - 1] + Len(Old(diff[i - 1]))
      <4>1. applied > 0 /\ i - 1 = applied
        BY <1>5, <1>14, <2>1, <3>2
      <4>2. at[applied] + Len(Old(diff[applied])) = Upto(file, cursor)
        BY <1>4, <4>1 DEF Placed
      <4>3. new[applied] = at[applied]
        BY <1>5, <1>15, <4>1
      <4> QED BY <1>8, <1>12, <1>15, <2>1, <4>1, <4>2, <4>3
    <3> QED BY <3>1, <3>2
  <2>2. CASE i # n
    <3>1. i \in 1 .. applied /\ (i > 1 => i - 1 \in 1 .. applied)
      BY <1>5, <1>14, <2>2
    <3>2. /\ MatchesAt(file, diff[i], at[i])
          /\ i > 1 => at[i] >= at[i - 1] + Len(Old(diff[i - 1]))
      BY <1>4, <3>1 DEF Placed
    <3> QED BY <1>15, <3>1, <3>2
  <2> QED BY <2>1, <2>2
<1>17. ASSUME NEW t \in Seq(RawLines)
       PROVE  \E f : Steps(f, diff, n, new, SubSeq(file, 1, p + k) \o t, result' \o t)
  <2> DEFINE slice == Slice(file, cursor, s)
             rest == slice \o (New(h) \o t)
             head == SubSeq(file, 1, p + k) \o t
  <2>1. slice \in Seq(RawLines) /\ New(h) \in Seq(RawLines)
    BY <1>9, <1>10
  <2> HIDE DEF slice
  <2>2. New(h) \o t \in Seq(RawLines) /\ result \o slice \in Seq(RawLines)
    BY <1>5, <2>1, ConcatProperties
  <2>3. rest \in Seq(RawLines)
    BY <2>1, <2>2, ConcatProperties
  <2>4. Consumed \in Seq(RawLines)
    BY <1>5, <1>12, PrefixType DEF Consumed
  <2>5. Consumed \o rest = SubSeq(file, 1, p) \o (New(h) \o t)
    <3>1. (Consumed \o slice) \o (New(h) \o t) = Consumed \o rest
      <4> DEFINE c == Consumed
                 r == New(h) \o t
      <4>1. c \in Seq(RawLines) /\ r \in Seq(RawLines)
        BY <2>2, <2>4
      <4> HIDE DEF c, r
      <4>2. (c \o slice) \o r = c \o (slice \o r)
        <5>1. \A x, y, z \in Seq(RawLines) : (x \o y) \o z = x \o (y \o z)
          BY ConcatAssociative
        <5> QED BY <2>1, <4>1, <5>1, Zenon
      <4> QED BY <4>2 DEF c, r
    <3> QED BY <1>9, <3>1 DEF slice
  <2>6. result \o rest = result' \o t
    <3> DEFINE b == New(h)
               a == result \o slice
               r == b \o t
    <3>1. a \in Seq(RawLines) /\ b \in Seq(RawLines) /\ r \in Seq(RawLines)
      BY <2>1, <2>2
    <3>2. result \o (slice \o r) = a \o r
      <4>1. \A x, y, z \in Seq(RawLines) : (x \o y) \o z = x \o (y \o z)
        BY ConcatAssociative
      <4> HIDE DEF r
      <4> QED BY <1>5, <2>1, <3>1, <4>1
    <3>3. a \o r = (a \o b) \o t
      <4> HIDE DEF a, b
      <4> QED BY <3>1, ConcatAssociative
    <3>4. result' = a \o b
      BY <1>2 DEF slice
    <3> QED BY <3>2, <3>3, <3>4
  <2>7. Splice(head, h, p) = SubSeq(file, 1, p) \o (New(h) \o t)
    BY <1>5, <1>6, <1>8, <1>11, SpliceEnd DEF k
  <2>8. head \in Seq(RawLines)
    <3>1. SubSeq(file, 1, p + k) \in Seq(RawLines)
      BY <1>5, <1>8, <1>10, <1>11, PrefixType
    <3> QED BY <3>1, ConcatProperties
  <2> HIDE DEF rest, head
  <2>9. PICK g : Steps(g, diff, applied, at, Consumed \o rest, result \o rest)
    BY <1>4, <2>3 DEF Placed
  <2> DEFINE f == [i \in 0 .. n |-> IF i = n THEN head ELSE g[i]]
  <2>10. f \in [0 .. n -> Seq(RawLines)] /\ f[n] = head /\ \A i \in 0 .. applied : f[i] = g[i]
    BY <1>5, <1>14, <2>8, <2>9 DEF Steps
  <2> HIDE DEF f
  <2>11. f[0] = result' \o t
    <3>1. 0 \in 0 .. applied
      BY <1>5
    <3>2. g[0] = result \o rest
      BY <2>9 DEF Steps
    <3> QED BY <2>6, <2>10, <3>1, <3>2
  <2>12. ASSUME NEW i \in 1 .. n
         PROVE  f[i - 1] = Splice(f[i], diff[i], new[i])
    <3>1. CASE i = n
      <4>1. f[i - 1] = g[applied] /\ g[applied] = Consumed \o rest
        <5>1. i - 1 = applied /\ applied \in 0 .. applied
          BY <1>5, <1>14, <3>1
        <5>2. g[applied] = Consumed \o rest
          BY <2>9 DEF Steps
        <5> QED BY <2>10, <5>1, <5>2
      <4>2. f[i] = head /\ diff[i] = h /\ new[i] = p
        BY <1>15, <2>10, <3>1 DEF h
      <4> QED BY <2>5, <2>7, <4>1, <4>2
    <3>2. CASE i # n
      <4>1. i \in 1 .. applied /\ i - 1 \in 0 .. applied /\ i \in 0 .. applied
        BY <1>5, <1>14, <3>2
      <4>2. g[i - 1] = Splice(g[i], diff[i], at[i])
        BY <2>9, <4>1 DEF Steps
      <4> QED BY <1>15, <2>10, <4>1, <4>2
    <3> QED BY <3>1, <3>2
  <2>13. Steps(f, diff, n, new, head, result' \o t)
    BY <2>10, <2>11, <2>12 DEF Steps
  <2> QED BY <2>13 DEF head
<1>18. Consumed' = SubSeq(file, 1, p + k)
  BY <1>1, <1>11 DEF Consumed
<1>19. Written' <=> Written
  BY <1>1 DEF Written
<1>20. ASSUME Written
       PROVE  cursor' <= Len(file) /\ \A i \in 1 .. n : new[i] = diff[i].start - 1
  <2>1. s = h.start - 1 /\ Old(h) # <<>>
    BY <1>1, <1>2, <1>3, <1>20, WrittenPlace DEF h, n
  <2>2. \A i \in 1 .. applied : at[i] = diff[i].start - 1
    BY <1>4, <1>20 DEF Placed
  <2>3. p = s /\ s + k <= Len(file)
    BY <1>8, <2>1
  <2>4. cursor' <= Len(file)
    BY <1>2, <2>3 DEF k
  <2>5. ASSUME NEW i \in 1 .. n
        PROVE  new[i] = diff[i].start - 1
    <3>1. CASE i = n
      BY <1>15, <2>1, <2>3, <3>1 DEF h
    <3>2. CASE i # n
      <4>1. i \in 1 .. applied
        BY <1>5, <1>14, <3>2
      <4> QED BY <1>15, <2>2, <4>1
    <3> QED BY <3>1, <3>2
  <2> QED BY <2>4, <2>5
<1>21. new[n] + Len(Old(diff[n])) = Upto(file, cursor')
  BY <1>11, <1>15 DEF k, h
<1>24. applied # Len(diff)
  <2>1. applied < Len(diff)
    BY DEF ApplyHunk
  <2>2. \A x, y \in Int : x < y => x # y
    OBVIOUS
  <2>3. applied \in Int /\ Len(diff) \in Int
    BY <1>5
  <2> QED BY <2>1, <2>2, <2>3, Zenon
<1>25. ASSUME NEW i \in DOMAIN result', Open(result'[i])
       PROVE  \/ i = Len(result') /\ n = Len(diff) /\ OpenHunk(diff[n])
              \/ /\ OpenFile(file)
                 /\ \E j \in 1 .. n : Old(diff[j]) = <<>> /\ new[j] = Len(file)
  <2>1. FileEnds(file) /\ BodyEnds(h.body) /\ (OpenHunk(h) => n = Len(diff))
    <3>1. \A j \in DOMAIN h.body : Open(h.body[j].raw) => n = Len(diff) /\ j = Len(h.body)
      BY <1>3, <1>5 DEF CheckingOK, DiffEnds, h
    <3>2. h.body # <<>> => Len(h.body) \in DOMAIN h.body /\ Last(h.body) = h.body[Len(h.body)]
      BY <1>6, LenProperties, EmptySeq DEF AnyHunk, Last
    <3> QED BY <1>3, <3>1, <3>2 DEF CheckingOK, BodyEnds, OpenHunk
  <2>2. \/ i \in DOMAIN result /\ Open(result[i])
        \/ Old(h) = <<>> /\ p = Len(file) /\ OpenFile(file)
        \/ i = Len(result') /\ OpenHunk(h)
    <3>1. PICK w : w = result'
      OBVIOUS
    <3>2. w = result \o Slice(file, cursor, s) \o New(h) /\ i \in DOMAIN w /\ Open(w[i]) /\ cursor <= s
      BY <1>2, <1>5, <1>7, <1>25, <3>1
    <3>3. \/ i \in DOMAIN result /\ Open(result[i])
          \/ Old(h) = <<>> /\ p = Len(file) /\ OpenFile(file)
          \/ i = Len(w) /\ OpenHunk(h)
      <4>1. /\ file \in Seq(RawLines) /\ result \in Seq(RawLines) /\ cursor \in Nat
            /\ h \in AnyHunk /\ s \in Nat /\ MatchesAt(file, h, s)
            /\ FileEnds(file) /\ BodyEnds(h.body)
        BY <1>5, <1>6, <1>7, <2>1
      <4>2. \/ i \in DOMAIN result /\ Open(result[i])
            \/ Old(h) = <<>> /\ Upto(file, s) = Len(file) /\ OpenFile(file)
            \/ i = Len(w) /\ OpenHunk(h)
        <5>1. OpenAt(i, w, file, result, h, cursor, s)
          BY <3>2, <4>1 DEF OpenAt
        <5> QED BY <5>1, OpenLines
      <4> QED BY <4>2 DEF p
    <3> QED BY <3>1, <3>3
  <2>3. ASSUME Old(h) = <<>>, p = Len(file)
        PROVE  \E j \in 1 .. n : Old(diff[j]) = <<>> /\ new[j] = Len(file)
    <3>1. n \in 1 .. n
      BY <1>5
    <3> QED BY <1>15, <2>3, <3>1 DEF h
  <2>4. CASE i \in DOMAIN result /\ Open(result[i])
    <3>1. applied # Len(diff)
      BY <1>24
    <3>2. CASE Upto(file, cursor) = Len(file) /\ OpenFile(file)
      <4>1. p = Len(file) /\ k = 0
        BY <1>5, <1>8, <1>10, <1>11, <1>12, <3>2
      <4>2. Old(h) = <<>>
        BY <1>10, <4>1, EmptySeq DEF k
      <4> QED BY <2>3, <3>2, <4>1, <4>2
    <3>3. CASE OpenFile(file) /\ \E j \in 1 .. applied : Old(diff[j]) = <<>> /\ at[j] = Len(file)
      <4>1. PICK j \in 1 .. applied : Old(diff[j]) = <<>> /\ at[j] = Len(file)
        BY <3>3
      <4>2. j \in 1 .. n /\ new[j] = at[j]
        BY <1>5, <1>14, <1>15
      <4> QED BY <3>3, <4>1, <4>2
    <3> QED BY <1>4, <2>4, <3>1, <3>2, <3>3 DEF Seams
  <2> QED BY <2>1, <2>2, <2>3, <2>4 DEF h
<1>22. \E places : Placed(places)' /\ Seams(places)'
  <2>1. PICK places : places = new
    OBVIOUS
  <2>2. places \in [1 .. applied' -> 0 .. Len(file')]
    BY <1>1, <1>15, <2>1
  <2>3. \A i \in 1 .. applied' :
            /\ MatchesAt(file', diff'[i], places[i])
            /\ i > 1 => places[i] >= places[i - 1] + Len(Old(diff'[i - 1]))
    BY <1>1, <1>16, <2>1
  <2>4. places[applied'] + Len(Old(diff'[applied'])) = Upto(file', cursor')
    BY <1>1, <1>21, <2>1
  <2>5. \A t \in Seq(RawLines) : \E f : Steps(f, diff', applied', places, Consumed' \o t, result' \o t)
    BY <1>1, <1>17, <1>18, <2>1
  <2>6. Written' => cursor' <= Len(file') /\ \A i \in 1 .. applied' : places[i] = diff'[i].start - 1
    BY <1>1, <1>19, <1>20, <2>1
  <2>7. Placed(places)'
    BY <2>2, <2>3, <2>4, <2>5, <2>6 DEF Placed
  <2>8. Seams(places)'
    <3>1. n > 0
      BY <1>5
    <3> QED BY <1>1, <1>25, <2>1, <3>1 DEF Seams
  <2> QED BY <2>7, <2>8
<1>23. n \in 0 .. Len(diff) /\ n # 0
  BY <1>5
<1>26. CheckingOK'
  BY <1>1, <1>3, <1>5, <1>11, <1>13, <1>22, <1>23 DEF CheckingOK
<1> QED BY <1>1, <1>26 DEF PatchInv, VerifiedIsSound, AppliedAsWritten

LEMMA VerifyInv ==
    ASSUME PatchInv, Verify
    PROVE  PatchInv'
<1> DEFINE n == Len(diff)
           t == Slice(file, cursor, Len(file))
<1>1. /\ verdict = "checking" /\ verdict' = "verified" /\ applied = n
      /\ file' = file /\ diff' = diff /\ result' = result \o t
      /\ updated' = Join(result')
  BY DEF Verify
<1>2. CheckingOK
  BY <1>1 DEF PatchInv
<1>3. /\ file \in Seq(RawLines) /\ diff \in Seq(AnyHunk) /\ cursor \in Nat
      /\ n \in Nat /\ Len(file) \in Nat /\ DOMAIN diff = 1 .. n
  BY <1>2, LenProperties DEF CheckingOK
<1>4. PICK at : Placed(at) /\ Seams(at)
  BY <1>2 DEF CheckingOK
<1>5. t \in Seq(RawLines) /\ Consumed \o t = file
  <2> DEFINE e == cursor + Len(file)
  <2>1. e \in Nat /\ cursor <= e /\ ~(e < Len(file)) /\ ~(Len(file) < Len(file))
    BY <1>3
  <2>2. /\ Slice(file, cursor, e) = SubSeq(file, cursor + 1, Len(file))
        /\ t = SubSeq(file, cursor + 1, Len(file))
    <3> HIDE DEF e
    <3> QED BY <2>1 DEF Slice
  <2>3. Upto(file, e) = Len(file)
    <3> HIDE DEF e
    <3> QED BY <2>1 DEF Upto
  <2> HIDE DEF e, t
  <2>4. t \in Seq(RawLines) /\ Consumed \o t = SubSeq(file, 1, Len(file))
    <3>1. /\ Slice(file, cursor, e) \in Seq(RawLines)
          /\ SubSeq(file, 1, Upto(file, cursor)) \o Slice(file, cursor, e) = SubSeq(file, 1, Upto(file, e))
      BY <1>3, <2>1, CopiedLines
    <3>2. t = Slice(file, cursor, e)
      BY <2>2
    <3> QED BY <2>3, <3>1, <3>2 DEF Consumed
  <2> QED BY <1>3, <2>4, SubSeqFull
<1> HIDE DEF n, t
<1>6. PICK f : Steps(f, diff, n, at, file, result')
  BY <1>1, <1>4, <1>5 DEF Placed
<1>7. SpliceAll(file, diff, at) = result'
  BY <1>3, <1>6, SpliceSteps DEF n
<1>8. at \in [DOMAIN diff -> 0 .. Len(file)] /\ Fits(file, diff, at)
  BY <1>1, <1>3, <1>4 DEF Placed, Fits
<1>11. /\ result \in Seq(RawLines) /\ result' \in Seq(RawLines)
       /\ Len(result) \in Nat /\ Len(t) \in Nat /\ Len(result') = Len(result) + Len(t)
       /\ DOMAIN result = 1 .. Len(result)
       /\ \A i \in 1 .. Len(result') :
              result'[i] = IF i <= Len(result) THEN result[i] ELSE t[i - Len(result)]
  BY <1>1, <1>2, <1>5, ConcatProperties, LenProperties DEF CheckingOK
<1>12. /\ Upto(file, cursor) \in 0 .. Len(file) /\ Len(t) = Len(file) - Upto(file, cursor)
       /\ \A i \in 1 .. Len(t) : t[i] = file[Upto(file, cursor) + i]
  <2> DEFINE u == Upto(file, cursor)
  <2>1. u \in 0 .. Len(file)
    BY <1>3 DEF Upto
  <2> HIDE DEF u
  <2>2. Consumed \in Seq(RawLines) /\ Len(Consumed) = u
    BY <1>3, <2>1, PrefixType DEF Consumed, u
  <2>3. /\ Len(file) = u + Len(t)
        /\ \A i \in 1 .. u + Len(t) : file[i] = IF i <= u THEN Consumed[i] ELSE t[i - u]
    BY <1>5, <2>2, ConcatProperties
  <2>4. Len(t) \in Nat
    BY <1>11
  <2>5. ASSUME NEW i \in 1 .. Len(t)
        PROVE  t[i] = file[u + i]
    <3>1. u + i \in 1 .. u + Len(t) /\ ~(u + i <= u) /\ (u + i) - u = i
      BY <2>1, <2>4
    <3> QED BY <2>3, <3>1
  <2> QED BY <2>1, <2>3, <2>4, <2>5 DEF u
<1>13. n # 0
  <2>1. Changes(diff)
    BY DEF Verify
  <2>2. DOMAIN diff # {}
    BY <2>1, Zenon DEF Changes
  <2> QED BY <1>3, <2>2
<1>14. ASSUME NEW i \in 1 .. Len(result') - 1, Open(result'[i])
       PROVE  BreaksOff(file, diff, at)
  <2>1. CASE i <= Len(result)
    <3>1. i \in DOMAIN result /\ Open(result[i])
      BY <1>11, <1>14, <2>1
    <3>2. CASE i = Len(result) /\ OpenHunk(diff[applied])
      <4>1. Len(t) > 0
        BY <1>11, <3>2
      <4>2. at[applied] + Len(Old(diff[applied])) < Len(file)
        <5>1. at[applied] + Len(Old(diff[applied])) = Upto(file, cursor)
          BY <1>1, <1>3, <1>4, <1>13 DEF Placed
        <5> QED BY <1>3, <1>11, <1>12, <4>1, <5>1
      <4>3. Last(diff) = diff[applied] /\ Len(diff) = applied
        BY <1>1 DEF Last, n
      <4> QED BY <3>2, <4>2, <4>3 DEF BreaksOff, OpenHunk
    <3>3. CASE i = Len(result) /\ Upto(file, cursor) = Len(file)
      BY <1>3, <1>11, <1>12, <3>3
    <3>4. CASE OpenFile(file) /\ \E j \in 1 .. applied : Old(diff[j]) = <<>> /\ at[j] = Len(file)
      BY <1>1, <1>3, <3>4 DEF BreaksOff, OpenFile
    <3> QED BY <1>4, <3>1, <3>2, <3>3, <3>4 DEF Seams
  <2>2. CASE i > Len(result)
    <3> DEFINE j == i - Len(result)
    <3>1. j \in 1 .. Len(t) - 1 /\ j \in 1 .. Len(t) /\ i \in 1 .. Len(result') /\ result'[i] = t[j]
      BY <1>11, <2>2
    <3> HIDE DEF j
    <3>2. /\ Upto(file, cursor) + j \in 1 .. Len(file) /\ Upto(file, cursor) + j # Len(file)
          /\ t[j] = file[Upto(file, cursor) + j]
      BY <1>3, <1>12, <3>1
    <3>3. FileEnds(file) /\ DOMAIN file = 1 .. Len(file)
      BY <1>2, <1>3, LenProperties DEF CheckingOK
    <3> QED BY <1>14, <3>1, <3>2, <3>3 DEF FileEnds
  <2> QED BY <1>11, <2>1, <2>2
<1>15. Glued(updated') => BreaksOff(file, diff, at)
  BY <1>1, <1>11, <1>14, JoinSeams
<1>9. VerifiedIsSound'
  BY <1>1, <1>7, <1>8, <1>15 DEF VerifiedIsSound
<1>10. AppliedAsWritten'
  <2> DEFINE w == [i \in DOMAIN diff |-> diff[i].start - 1]
  <2>1. ASSUME Written
        PROVE  result' = SpliceAll(file, diff, w)
    <3>1. \A i \in DOMAIN diff : at[i] = diff[i].start - 1
      BY <1>1, <1>3, <1>4, <2>1 DEF Placed
    <3>2. at = w
      BY <1>8, <3>1
    <3> QED BY <1>7, <3>2
  <2> QED BY <1>1, <2>1 DEF AppliedAsWritten, Written
<1>16. file' \in Seq(RawLines) /\ FileEnds(file)'
  BY <1>1, <1>2, <1>3 DEF CheckingOK, FileEnds
<1>17. updated' = Join(result)'
  BY <1>1 DEF Join
<1> QED BY <1>1, <1>9, <1>10, <1>16, <1>17 DEF PatchInv

LEMMA RejectInv ==
    ASSUME PatchInv, Reject
    PROVE  PatchInv'
<1>1. /\ verdict = "checking" /\ verdict' = "rejected"
      /\ file' = file /\ diff' = diff
      /\ ~Changes(diff) \/ (applied < Len(diff) /\ LocateHunk(file, diff[applied + 1], cursor) = {})
  BY DEF Reject
<1>2. CheckingOK
  BY <1>1 DEF PatchInv
<1>3. ~Written
  BY <1>1, <1>2, WrittenPlace DEF Written
<1>4. AppliedAsWritten'
  BY <1>1, <1>3 DEF AppliedAsWritten, Written
<1> QED BY <1>1, <1>2, <1>4 DEF PatchInv, VerifiedIsSound, CheckingOK

LEMMA NoVerdictInv ==
    ASSUME verdict' \in {"none", "objected"}
    PROVE  PatchInv'
  BY DEF PatchInv, VerifiedIsSound, AppliedAsWritten

-----------------------------------------------------------------------------
(* The diffs of the rules                                                  *)

\* One more line of a body.
LEMMA WithoutAppend ==
    ASSUME NEW mark, NEW body \in Seq(MarkedLines), NEW l \in MarkedLines
    PROVE  LinesWithout(mark, Append(body, l)) =
              IF l.mark = mark THEN LinesWithout(mark, body) ELSE Append(LinesWithout(mark, body), l.raw)
<1> DEFINE n == Len(body)
           more == Append(body, l)
<1>1. /\ more \in Seq(MarkedLines) /\ Len(more) = n + 1 /\ n \in Nat
      /\ \A i \in 1 .. n : more[i] = body[i]
      /\ more[n + 1] = l
  BY AppendProperties, LenProperties
<1> HIDE DEF n, more
<1>2. PICK f : RawOf(f, mark, body) /\ LinesWithout(mark, body) = f[n]
  BY WithoutType DEF n
<1>3. PICK g : RawOf(g, mark, more) /\ LinesWithout(mark, more) = g[n + 1]
  BY <1>1, WithoutType
<1> DEFINE T == {i \in 0 .. n : g[i] = f[i]}
<1>4. 0 \in T
  <2>1. 0 \in 0 .. n /\ 0 \in 0 .. n + 1
    BY <1>1
  <2>2. f[0] = <<>> /\ g[0] = <<>>
    BY <1>1, <1>2, <1>3, <2>1 DEF RawOf, n
  <2> QED BY <2>1, <2>2
<1>5. ASSUME NEW i \in 0 .. n - 1, i \in T
      PROVE  i + 1 \in T
  <2>1. i + 1 \in 0 .. n /\ i + 1 \in 0 .. Len(more) /\ i + 1 \in 1 .. n /\ i + 1 # 0 /\ (i + 1) - 1 = i
    BY <1>1
  <2>2. f[i + 1] = IF body[i + 1].mark = mark THEN f[i] ELSE Append(f[i], body[i + 1].raw)
    BY <1>2, <2>1 DEF RawOf, n
  <2>3. g[i + 1] = IF more[i + 1].mark = mark THEN g[i] ELSE Append(g[i], more[i + 1].raw)
    BY <1>3, <2>1 DEF RawOf
  <2> QED BY <1>1, <1>5, <2>1, <2>2, <2>3
<1>6. g[n] = f[n]
  <2> HIDE DEF T
  <2>1. 0 .. n \subseteq T
    BY <1>1, <1>4, <1>5, Counting
  <2> QED BY <1>1, <2>1 DEF T
<1>7. g[n + 1] = IF more[n + 1].mark = mark THEN g[n] ELSE Append(g[n], more[n + 1].raw)
  <2>1. n + 1 \in 0 .. n + 1 /\ n + 1 # 0 /\ (n + 1) - 1 = n
    BY <1>1
  <2> QED BY <1>1, <1>3, <2>1 DEF RawOf
<1> QED BY <1>1, <1>2, <1>3, <1>6, <1>7 DEF more

LEMMA MarkedParts ==
    ASSUME NEW l \in RawLines, NEW b \in Seq(MarkedLines)
    PROVE  /\ Marked(l) \in Seq(MarkedLines)
           /\ LinesWithout("+", b \o Marked(l)) = Append(LinesWithout("+", b), l)
           /\ LinesWithout("-", b \o Marked(l)) = Append(LinesWithout("-", b), BumpedLine(l))
<1> DEFINE removed == [mark |-> "-", raw |-> l]
           added == [mark |-> "+", raw |-> BumpedLine(l)]
           context == [mark |-> " ", raw |-> l]
<1>0. BumpedLine(l) \in RawLines
  BY PatchAssumption DEF BumpedLine, RawLines
<1>1. removed \in MarkedLines /\ added \in MarkedLines /\ context \in MarkedLines
  BY <1>0 DEF MarkedLines
<1>2. /\ removed.mark = "-" /\ removed.raw = l
      /\ added.mark = "+" /\ added.raw = BumpedLine(l)
  OBVIOUS
<1>9. context.mark # "+" /\ context.mark # "-" /\ context.raw = l
  <2>1. context.mark = " " /\ context.raw = l
    OBVIOUS
  <2>2. " " # "+" /\ " " # "-"
    BY Zenon
  <2> HIDE DEF context
  <2> QED BY <2>1, <2>2, Zenon
<1>3. "-" # "+"
  OBVIOUS
<1>6. Marked(l) = IF l.text = Pinned THEN <<removed, added>> ELSE <<context>>
  BY DEF Marked
<1> HIDE DEF removed, added, context
<1>7. CASE l.text = Pinned
  <2> DEFINE c == Append(b, removed)
  <2>1. c \in Seq(MarkedLines) /\ b \o <<removed, added>> = Append(c, added)
    BY <1>1
  <2>2. /\ LinesWithout("+", c) = Append(LinesWithout("+", b), l)
        /\ LinesWithout("-", c) = LinesWithout("-", b)
    BY <1>1, <1>2, <1>3, WithoutAppend
  <2> HIDE DEF c
  <2>3. /\ LinesWithout("+", Append(c, added)) = LinesWithout("+", c)
        /\ LinesWithout("-", Append(c, added)) = Append(LinesWithout("-", c), BumpedLine(l))
    <3>1. c \in Seq(MarkedLines) /\ added \in MarkedLines
      BY <1>1, <2>1
    <3>2. added.mark = "+" /\ added.raw = BumpedLine(l) /\ added.mark # "-"
      BY <1>2, <1>3
    <3> QED BY <3>1, <3>2, WithoutAppend
  <2>4. <<removed, added>> \in Seq(MarkedLines)
    BY <1>1
  <2> QED BY <1>6, <1>7, <2>1, <2>2, <2>3, <2>4
<1>8. CASE l.text # Pinned
  <2>1. b \o <<context>> = Append(b, context) /\ <<context>> \in Seq(MarkedLines)
    BY <1>1
  <2>2. /\ LinesWithout("+", Append(b, context)) = Append(LinesWithout("+", b), l)
        /\ LinesWithout("-", Append(b, context)) = Append(LinesWithout("-", b), l)
    BY <1>1, <1>9, WithoutAppend
  <2> QED BY <1>6, <1>8, <2>1, <2>2 DEF BumpedLine
<1> QED BY <1>7, <1>8

\* The last hunk of d goes on with b.
Continued(d, b) == [d EXCEPT ![Len(d)].body = @ \o b]

LEMMA ContinuedHunk ==
    ASSUME NEW d \in Seq(AnyHunk), NEW b \in Seq(MarkedLines)
    PROVE  /\ Continued(d, b) \in Seq(AnyHunk) /\ Len(Continued(d, b)) = Len(d)
           /\ \A i \in 1 .. Len(d) : i # Len(d) => Continued(d, b)[i] = d[i]
           /\ Len(d) # 0 => Continued(d, b)[Len(d)] =
                                [start |-> d[Len(d)].start, body |-> d[Len(d)].body \o b]
<1> DEFINE n == Len(d)
           c == Continued(d, b)
<1>1. n \in Nat /\ DOMAIN d = 1 .. n /\ \A i \in 1 .. n : d[i] \in AnyHunk
  BY LenProperties, ElementOfSeq
<1>2. c = [i \in 1 .. n |-> IF i = n THEN [d[n] EXCEPT !.body = d[n].body \o b] ELSE d[i]]
  BY <1>1 DEF Continued
<1>3. ASSUME n # 0
      PROVE  /\ [d[n] EXCEPT !.body = d[n].body \o b] = [start |-> d[n].start, body |-> d[n].body \o b]
             /\ [start |-> d[n].start, body |-> d[n].body \o b] \in AnyHunk
  <2>1. d[n] \in AnyHunk
    BY <1>1, <1>3
  <2>2. d[n].body \in Seq(MarkedLines) /\ d[n].start \in Nat
    BY <2>1 DEF AnyHunk
  <2>3. d[n].body \o b \in Seq(MarkedLines)
    BY <2>2, ConcatProperties
  <2>4. [start |-> d[n].start, body |-> d[n].body \o b] \in AnyHunk
    BY <2>2, <2>3 DEF AnyHunk
  <2>5. \A h \in AnyHunk : \A x : [h EXCEPT !.body = x] = [start |-> h.start, body |-> x]
    BY DEF AnyHunk
  <2> HIDE DEF n
  <2> QED BY <2>1, <2>4, <2>5
<1> HIDE DEF c, n
<1>4. c \in [1 .. n -> AnyHunk]
  BY <1>1, <1>2, <1>3
<1>5. c \in Seq(AnyHunk) /\ Len(c) = n
  BY <1>1, <1>4
<1>6. /\ \A i \in 1 .. n : i # n => c[i] = d[i]
      /\ n # 0 => c[n] = [start |-> d[n].start, body |-> d[n].body \o b]
  <2>1. n # 0 => n \in 1 .. n
    BY <1>1
  <2>2. \A i \in 1 .. n : i # n => c[i] = d[i]
    BY <1>2
  <2>3. n # 0 => c[n] = [d[n] EXCEPT !.body = d[n].body \o b]
    BY <1>2, <2>1
  <2> QED BY <1>3, <2>2, <2>3
<1> QED BY <1>5, <1>6 DEF c, n

\* r is the function that RuleDiff defines.
RenderedBy(r, f) ==
    r = [i \in 0 .. Len(f) |->
            IF i = 0 THEN <<>>
            ELSE IF i \notin Shown(f) THEN r[i - 1]
            ELSE IF i - 1 \notin Shown(f)
            THEN Append(r[i - 1], [start |-> i, body |-> Marked(f[i])])
            ELSE Continued(r[i - 1], Marked(f[i]))]

LEMMA RuleRecursion ==
    ASSUME NEW f \in Seq(RawLines)
    PROVE  \E r : RenderedBy(r, f) /\ RuleDiff(f) = r[Len(f)]
<1> DEFINE n == Len(f)
           S == Seq(AnyHunk)
           Solves(r) == RenderedBy(r, f)
           G == [i \in 1 .. n |-> [d \in S |->
                    IF i \notin Shown(f) THEN d
                    ELSE IF i - 1 \notin Shown(f) THEN Append(d, [start |-> i, body |-> Marked(f[i])])
                    ELSE Continued(d, Marked(f[i]))]]
           a == <<>>
<1>1. n \in Nat /\ \A i \in 1 .. n : Marked(f[i]) \in Seq(MarkedLines)
  <2>1. <<>> \in Seq(MarkedLines)
    OBVIOUS
  <2> QED BY <2>1, LenProperties, ElementOfSeq, MarkedParts
<1>2. G \in [1 .. n -> [S -> S]]
  <2>1. ASSUME NEW i \in 1 .. n, NEW d \in S
        PROVE  (IF i \notin Shown(f) THEN d
                ELSE IF i - 1 \notin Shown(f) THEN Append(d, [start |-> i, body |-> Marked(f[i])])
                ELSE Continued(d, Marked(f[i]))) \in S
    <3>1. [start |-> i, body |-> Marked(f[i])] \in AnyHunk
      BY <1>1 DEF AnyHunk
    <3>2. Append(d, [start |-> i, body |-> Marked(f[i])]) \in S
      BY <3>1, AppendProperties
    <3>3. Continued(d, Marked(f[i])) \in S
      BY <1>1, ContinuedHunk
    <3> QED BY <3>2, <3>3
  <2> QED BY <2>1
<1>3. a \in S
  OBVIOUS
<1>4. \E r : Solves(r)
  <2> HIDE DEF G, S, n, a
  <2>1. Solvable(n, S, a, G)
    BY <1>1, <1>2, <1>3, Recursion
  <2>2. PICK r \in [0 .. n -> S] : r[0] = a /\ \A i \in 1 .. n : r[i] = G[i][r[i - 1]]
    BY <2>1 DEF Solvable
  <2>3. ASSUME NEW i \in 0 .. n
        PROVE  r[i] = IF i = 0 THEN <<>>
                      ELSE IF i \notin Shown(f) THEN r[i - 1]
                      ELSE IF i - 1 \notin Shown(f)
                      THEN Append(r[i - 1], [start |-> i, body |-> Marked(f[i])])
                      ELSE Continued(r[i - 1], Marked(f[i]))
    <3>1. CASE i = 0
      BY <2>2, <3>1 DEF a
    <3>2. CASE i # 0
      <4>1. i \in 1 .. n /\ r[i - 1] \in S
        BY <1>1, <3>2
      <4> QED BY <2>2, <3>2, <4>1 DEF G
    <3> QED BY <3>1, <3>2
  <2>4. Solves(r)
    BY <2>2, <2>3 DEF RenderedBy, n
  <2> HIDE DEF Solves
  <2> QED BY <2>4
<1>5. RuleDiff(f) = (CHOOSE r : Solves(r))[n]
  BY DEF RuleDiff, RenderedBy, Continued
<1> HIDE DEF Solves
<1>6. PICK r : Solves(r) /\ RuleDiff(f) = r[n]
  BY <1>4, <1>5
<1> QED BY <1>6 DEF Solves

\* The last line of h in the file.
End(h) == h.start + Len(Old(h)) - 1

\* h shows lines of f, and replaces the pins among them.
Shows(h, f) ==
    /\ h \in AnyHunk /\ h.start > 0 /\ Old(h) # <<>> /\ End(h) <= Len(f)
    /\ Old(h) = SubSeq(f, h.start, End(h))
    /\ New(h) = SubSeq(BumpedFile(f), h.start, End(h))

LEMMA BumpedLines ==
    ASSUME NEW f \in Seq(RawLines)
    PROVE  /\ BumpedFile(f) \in Seq(RawLines) /\ Len(BumpedFile(f)) = Len(f)
           /\ \A i \in 1 .. Len(f) : /\ BumpedFile(f)[i] = BumpedLine(f[i])
                                     /\ Open(BumpedFile(f)[i]) <=> Open(f[i])
<1>1. Len(f) \in Nat /\ DOMAIN f = 1 .. Len(f) /\ \A i \in 1 .. Len(f) : f[i] \in RawLines
  BY LenProperties, ElementOfSeq
<1>2. \A l \in RawLines : BumpedLine(l) \in RawLines /\ (Open(BumpedLine(l)) <=> Open(l))
  BY PatchAssumption DEF BumpedLine, RawLines, Open
<1>3. /\ BumpedFile(f) \in [1 .. Len(f) -> RawLines]
      /\ \A i \in 1 .. Len(f) : BumpedFile(f)[i] = BumpedLine(f[i])
  BY <1>1, <1>2 DEF BumpedFile
<1>4. BumpedFile(f) \in Seq(RawLines) /\ Len(BumpedFile(f)) = Len(f)
  BY <1>1, <1>3
<1> QED BY <1>1, <1>2, <1>3, <1>4

\* A hunk that opens with line m.
LEMMA OpenedHunk ==
    ASSUME NEW f \in Seq(RawLines), NEW m \in 1 .. Len(f)
    PROVE  LET h == [start |-> m, body |-> Marked(f[m])] IN Shows(h, f) /\ End(h) = m
<1> DEFINE h == [start |-> m, body |-> Marked(f[m])]
           new == BumpedFile(f)
           e == <<>>
<1>1. Len(f) \in Nat /\ f[m] \in RawLines /\ m \in Nat
  BY LenProperties, ElementOfSeq
<1>2. /\ new \in Seq(RawLines) /\ Len(new) = Len(f) /\ new[m] = BumpedLine(f[m])
  BY BumpedLines
<1>3. e \in Seq(MarkedLines) /\ Len(e) = 0
  OBVIOUS
<1>4. ASSUME NEW mark
      PROVE  LinesWithout(mark, e) = <<>>
  <2>1. PICK g : RawOf(g, mark, e) /\ LinesWithout(mark, e) = g[Len(e)]
    BY <1>3, WithoutType
  <2>2. 0 \in 0 .. Len(e)
    BY <1>3
  <2> HIDE DEF e
  <2> QED BY <1>3, <2>1, <2>2 DEF RawOf
<1>5. Marked(f[m]) \in Seq(MarkedLines) /\ e \o Marked(f[m]) = Marked(f[m])
  <2>1. Marked(f[m]) \in Seq(MarkedLines)
    BY <1>1, <1>3, MarkedParts
  <2> QED BY <2>1, ConcatEmptySeq
<1>6. h.start = m /\ h.body = Marked(f[m]) /\ h \in AnyHunk
  BY <1>1, <1>5 DEF AnyHunk
<1> HIDE DEF h
<1>7. Old(h) = Append(<<>>, f[m]) /\ New(h) = Append(<<>>, BumpedLine(f[m]))
  <2> HIDE DEF e
  <2>1. /\ LinesWithout("+", e \o Marked(f[m])) = Append(LinesWithout("+", e), f[m])
        /\ LinesWithout("-", e \o Marked(f[m])) = Append(LinesWithout("-", e), BumpedLine(f[m]))
    BY <1>1, <1>3, MarkedParts
  <2> QED BY <1>4, <1>5, <1>6, <2>1 DEF Old, New
<1>8. Old(h) = <<f[m]>> /\ New(h) = <<BumpedLine(f[m])>> /\ Len(Old(h)) = 1
  BY <1>7
<1>9. End(h) = m
  BY <1>1, <1>6, <1>8 DEF End
<1>10. SubSeq(f, m, m) = <<f[m]>> /\ SubSeq(new, m, m) = <<new[m]>>
  <2> HIDE DEF new
  <2>1. ASSUME NEW x \in Seq(RawLines), m \in 1 .. Len(x)
        PROVE  SubSeq(x, m, m) = <<x[m]>>
    <3>1. Len(x) \in Nat /\ m \in m .. Len(x) /\ m \in Int /\ m - 1 \in Int /\ m - 1 < m
      BY <1>1, <2>1, LenProperties
    <3>2. SubSeq(x, m, m) = SubSeq(x, m, m - 1) \o <<x[m]>>
      BY <2>1, <3>1, SubSeqRecursiveSecond
    <3>3. SubSeq(x, m, m - 1) = <<>>
      BY <3>1, SubSeqEmpty
    <3>4. <<x[m]>> \in Seq(RawLines)
      BY <2>1, ElementOfSeq
    <3>5. <<>> \o <<x[m]>> = <<x[m]>>
      BY <3>4, ConcatEmptySeq
    <3> QED BY <3>2, <3>3, <3>5
  <2> QED BY <1>2, <2>1
<1>11. Old(h) # <<>>
  BY <1>8
<1>12. Shows(h, f)
  BY <1>1, <1>2, <1>6, <1>8, <1>9, <1>10, <1>11 DEF Shows
<1> QED BY <1>9, <1>12 DEF h

\* A hunk that goes on with the next line.
LEMMA GrownHunk ==
    ASSUME NEW f \in Seq(RawLines), NEW m \in 1 .. Len(f), NEW g, Shows(g, f), End(g) + 1 = m
    PROVE  LET h == [start |-> g.start, body |-> g.body \o Marked(f[m])] IN Shows(h, f) /\ End(h) = m
<1> DEFINE h == [start |-> g.start, body |-> g.body \o Marked(f[m])]
           new == BumpedFile(f)
<1>1. Len(f) \in Nat /\ f[m] \in RawLines /\ m \in Nat
  BY LenProperties, ElementOfSeq
<1>2. /\ new \in Seq(RawLines) /\ Len(new) = Len(f) /\ new[m] = BumpedLine(f[m])
  BY BumpedLines
<1>3. g \in AnyHunk /\ g.body \in Seq(MarkedLines) /\ g.start \in Nat /\ g.start > 0
  BY DEF Shows, AnyHunk
<1>4. Marked(f[m]) \in Seq(MarkedLines) /\ g.body \o Marked(f[m]) \in Seq(MarkedLines)
  BY <1>1, <1>3, MarkedParts, ConcatProperties
<1>5. h.start = g.start /\ h.body = g.body \o Marked(f[m]) /\ h \in AnyHunk
  BY <1>3, <1>4 DEF AnyHunk
<1> HIDE DEF h
<1>6. Old(h) = Append(Old(g), f[m]) /\ New(h) = Append(New(g), BumpedLine(f[m]))
  BY <1>1, <1>3, <1>5, MarkedParts DEF Old, New
<1>7. /\ Old(g) \in Seq(RawLines) /\ New(g) \in Seq(RawLines) /\ Len(Old(g)) \in Nat
      /\ Len(Old(h)) = Len(Old(g)) + 1 /\ Old(h) # <<>>
  <2>1. Old(g) \in Seq(RawLines) /\ New(g) \in Seq(RawLines)
    BY <1>3, HunkLines
  <2> QED BY <1>1, <1>6, <2>1, AppendProperties, LenProperties
<1>8. End(h) = m /\ End(g) = m - 1 /\ Len(Old(g)) # 0
  <2>1. Len(Old(g)) # 0
    BY <1>7, EmptySeq DEF Shows
  <2>2. End(g) = g.start + Len(Old(g)) - 1 /\ End(h) = g.start + (Len(Old(g)) + 1) - 1
    BY <1>5, <1>7 DEF End
  <2>3. g.start \in Int /\ Len(Old(g)) \in Int /\ m \in Int
    BY <1>1, <1>3, <1>7
  <2>4. \A x, y, z \in Int : (x + y - 1) + 1 = z => x + (y + 1) - 1 = z /\ x + y - 1 = z - 1
    OBVIOUS
  <2>5. (g.start + Len(Old(g)) - 1) + 1 = m
    BY <2>2
  <2>6. g.start + (Len(Old(g)) + 1) - 1 = m /\ g.start + Len(Old(g)) - 1 = m - 1
    BY <2>3, <2>4, <2>5
  <2> QED BY <2>1, <2>2, <2>6
<1>9. g.start \in 1 .. Len(f) /\ m \in g.start .. Len(f)
  BY <1>1, <1>3, <1>7, <1>8 DEF End
<1>10. /\ SubSeq(f, g.start, m) = SubSeq(f, g.start, m - 1) \o <<f[m]>>
       /\ SubSeq(new, g.start, m) = SubSeq(new, g.start, m - 1) \o <<new[m]>>
  <2> DEFINE a == g.start
  <2>1. a \in 1 .. Len(f) /\ m \in a .. Len(f) /\ a \in 1 .. Len(new) /\ m \in a .. Len(new)
    BY <1>2, <1>9
  <2> HIDE DEF a, new
  <2>2. SubSeq(f, a, m) = SubSeq(f, a, m - 1) \o <<f[m]>>
    BY <2>1, SubSeqRecursiveSecond
  <2>3. SubSeq(new, a, m) = SubSeq(new, a, m - 1) \o <<new[m]>>
    BY <1>2, <2>1, SubSeqRecursiveSecond
  <2> QED BY <2>2, <2>3 DEF a
<1>11. Old(g) = SubSeq(f, g.start, m - 1) /\ New(g) = SubSeq(new, g.start, m - 1)
  BY <1>8 DEF Shows
<1>12. /\ Append(Old(g), f[m]) = Old(g) \o <<f[m]>>
       /\ Append(New(g), new[m]) = New(g) \o <<new[m]>>
  <2> HIDE DEF new
  <2>1. new[m] \in RawLines
    BY <1>1, <1>2, ElementOfSeq
  <2> QED BY <1>1, <1>7, <2>1, AppendIsConcat
<1>13. Old(h) = SubSeq(f, h.start, End(h)) /\ New(h) = SubSeq(new, h.start, End(h))
  <2> HIDE DEF new
  <2> QED BY <1>2, <1>5, <1>6, <1>8, <1>10, <1>11, <1>12
<1>14. Shows(h, f)
  BY <1>1, <1>3, <1>5, <1>7, <1>8, <1>13 DEF Shows
<1> QED BY <1>8, <1>14 DEF h

\* What d shows of the first m lines of f: its hunks are apart and in order,
\* and no pin is left out.
HunksOK(d, m, f) ==
    /\ d \in Seq(AnyHunk)
    /\ \A i \in 1 .. Len(d) : Shows(d[i], f) /\ End(d[i]) <= m
    /\ \A i, k \in 1 .. Len(d) : i < k => End(d[i]) < d[k].start
    /\ m \in Shown(f) => Len(d) # 0 /\ End(d[Len(d)]) = m
    /\ \A q \in 1 .. m : f[q].text = Pinned =>
            \E i \in 1 .. Len(d) : d[i].start <= q /\ q <= End(d[i])

\* A pin shows as a removed line, and a line without an end comes last.
MarksOK(d, m, f) ==
    /\ \A q \in 1 .. m : f[q].text = Pinned =>
            \E i \in 1 .. Len(d) : \E j \in DOMAIN d[i].body : d[i].body[j].mark = "-"
    /\ FileEnds(f) /\ ~RunsTogether(f) =>
            \A i \in 1 .. Len(d) : \A j \in DOMAIN d[i].body :
                Open(d[i].body[j].raw) => m = Len(f) /\ i = Len(d) /\ j = Len(d[i].body)

\* x is d with line m: in a hunk of its own (b is empty), or added to the last
\* hunk (b is its body).
GoesOn(x, d, m, f, b) ==
    /\ x \in Seq(AnyHunk) /\ Len(x) # 0 /\ b \in Seq(MarkedLines)
    /\ \A i \in 1 .. Len(x) : i # Len(x) => i \in 1 .. Len(d) /\ x[i] = d[i]
    /\ x[Len(x)].body = b \o Marked(f[m])
    /\ Shows(x[Len(x)], f) /\ End(x[Len(x)]) = m
    /\ \/ Len(x) = Len(d) + 1 /\ x[Len(x)].start = m /\ b = <<>>
       \/ Len(x) = Len(d) /\ x[Len(x)].start = d[Len(x)].start /\ b = d[Len(x)].body

LEMMA GoesOnHunks ==
    ASSUME NEW f \in Seq(RawLines), NEW m \in 1 .. Len(f), NEW d, NEW x, NEW b,
           HunksOK(d, m - 1, f), GoesOn(x, d, m, f, b)
    PROVE  HunksOK(x, m, f)
<1> DEFINE n == Len(x)
           k == Len(d)
<1>1. /\ n \in Nat /\ k \in Nat /\ n # 0 /\ m \in Nat /\ m - 1 \in Nat /\ Len(f) \in Nat
      /\ n = k + 1 \/ n = k
  BY LenProperties DEF HunksOK, GoesOn
<1>2. /\ \A i \in 1 .. k : Shows(d[i], f) /\ End(d[i]) <= m - 1
      /\ \A i, j \in 1 .. k : i < j => End(d[i]) < d[j].start
      /\ \A q \in 1 .. m - 1 : f[q].text = Pinned =>
            \E i \in 1 .. k : d[i].start <= q /\ q <= End(d[i])
  BY DEF HunksOK
<1>3. /\ \A i \in 1 .. n : i # n => i \in 1 .. k /\ x[i] = d[i]
      /\ Shows(x[n], f) /\ End(x[n]) = m
      /\ (n = k + 1 /\ x[n].start = m) \/ (n = k /\ x[n].start = d[n].start)
  BY DEF GoesOn
<1>4. \A h : Shows(h, f) => h.start \in Nat /\ h.start <= End(h) /\ End(h) \in Nat
  <2> SUFFICES ASSUME NEW h, Shows(h, f)
               PROVE  h.start \in Nat /\ h.start <= End(h) /\ End(h) \in Nat
    OBVIOUS
  <2>1. h.start \in Nat /\ Old(h) \in Seq(RawLines) /\ Old(h) # <<>> /\ h.start > 0
    BY HunkLines DEF Shows
  <2>2. Len(Old(h)) \in Nat \ {0}
    BY <2>1, EmptySeq
  <2> QED BY <2>1, <2>2 DEF End
<1> HIDE DEF n, k
<1>5. ASSUME NEW i \in 1 .. n
      PROVE  Shows(x[i], f) /\ End(x[i]) <= m
  BY <1>1, <1>2, <1>3, <1>4
<1>6. ASSUME NEW i \in 1 .. n, NEW j \in 1 .. n, i < j
      PROVE  End(x[i]) < x[j].start
  <2>1. i # n /\ i \in 1 .. k /\ x[i] = d[i]
    BY <1>1, <1>3, <1>6
  <2>2. CASE j # n
    BY <1>2, <1>3, <1>6, <2>1, <2>2
  <2>3. CASE j = n /\ n = k + 1 /\ x[n].start = m
    BY <1>1, <1>2, <1>4, <2>1, <2>3
  <2>4. CASE j = n /\ n = k /\ x[n].start = d[n].start
    BY <1>2, <1>6, <2>1, <2>4
  <2> QED BY <1>3, <2>2, <2>3, <2>4
<1>7. ASSUME NEW q \in 1 .. m, f[q].text = Pinned
      PROVE  \E i \in 1 .. n : x[i].start <= q /\ q <= End(x[i])
  <2>1. CASE q = m
    <3>1. n \in 1 .. n /\ x[n].start <= End(x[n])
      BY <1>1, <1>3, <1>4
    <3> QED BY <1>3, <2>1, <3>1
  <2>2. CASE q # m
    <3>1. q \in 1 .. m - 1
      BY <1>1, <2>2
    <3>2. PICK i \in 1 .. k : d[i].start <= q /\ q <= End(d[i])
      BY <1>2, <1>7, <3>1
    <3>3. CASE i # n
      <4>1. i \in 1 .. n
        BY <1>1
      <4> QED BY <1>3, <3>2, <3>3, <4>1
    <3>4. CASE i = n
      <4>1. n = k /\ x[n].start = d[n].start
        BY <1>1, <1>3, <3>4
      <4>2. n \in 1 .. n /\ q <= m
        BY <1>1
      <4> QED BY <1>3, <3>2, <3>4, <4>1, <4>2
    <3> QED BY <3>3, <3>4
  <2> QED BY <2>1, <2>2
<1>8. x \in Seq(AnyHunk)
  BY DEF GoesOn
<1> QED BY <1>1, <1>3, <1>5, <1>6, <1>7, <1>8 DEF HunksOK, n

LEMMA GoesOnMarks ==
    ASSUME NEW f \in Seq(RawLines), NEW m \in 1 .. Len(f), NEW d, NEW x, NEW b,
           HunksOK(d, m - 1, f), MarksOK(d, m - 1, f), GoesOn(x, d, m, f, b)
    PROVE  MarksOK(x, m, f)
<1> DEFINE n == Len(x)
           k == Len(d)
           l == f[m]
           more == Marked(l)
           body == x[n].body
<1>1. /\ n \in Nat /\ k \in Nat /\ n # 0 /\ m \in Nat /\ m - 1 \in Nat /\ Len(f) \in Nat
      /\ n = k + 1 \/ n = k
      /\ l \in RawLines /\ DOMAIN f = 1 .. Len(f)
  BY LenProperties, ElementOfSeq DEF HunksOK, GoesOn
<1>2. /\ \A i \in 1 .. n : i # n => i \in 1 .. k /\ x[i] = d[i]
      /\ (n = k + 1 /\ b = <<>>) \/ (n = k /\ b = d[n].body)
      /\ body = b \o more /\ b \in Seq(MarkedLines)
  BY DEF GoesOn
<1>3. more \in Seq(MarkedLines)
  BY <1>1, <1>2, MarkedParts
<1> HIDE DEF body, n, k
<1>4. /\ Len(body) = Len(b) + Len(more) /\ Len(b) \in Nat /\ Len(more) \in Nat
      /\ DOMAIN body = 1 .. Len(b) + Len(more) /\ DOMAIN b = 1 .. Len(b)
      /\ \A j \in 1 .. Len(b) + Len(more) : body[j] = IF j <= Len(b) THEN b[j] ELSE more[j - Len(b)]
  <2> HIDE DEF more
  <2>1. body \in Seq(MarkedLines)
    BY <1>2, <1>3, ConcatProperties
  <2> QED BY <1>2, <1>3, <2>1, ConcatProperties, LenProperties
<1>5. ASSUME NEW q \in 1 .. m, f[q].text = Pinned
      PROVE  \E i \in 1 .. n : \E j \in DOMAIN x[i].body : x[i].body[j].mark = "-"
  <2>1. CASE q = m
    <3> DEFINE removed == [mark |-> "-", raw |-> l]
               added == [mark |-> "+", raw |-> BumpedLine(l)]
    <3>1. more = <<removed, added>> /\ removed.mark = "-"
      BY <1>5, <2>1 DEF Marked
    <3> HIDE DEF removed, added, more
    <3>2. Len(more) = 2 /\ more[1] = removed
      BY <3>1
    <3>3. Len(b) + 1 \in DOMAIN body /\ body[Len(b) + 1] = removed
      BY <1>4, <3>2
    <3>4. n \in 1 .. n
      BY <1>1
    <3> QED BY <3>1, <3>3, <3>4 DEF body
  <2>2. CASE q # m
    <3>1. q \in 1 .. m - 1
      BY <1>1, <2>2
    <3>2. PICK i \in 1 .. k : \E j \in DOMAIN d[i].body : d[i].body[j].mark = "-"
      BY <1>5, <3>1 DEF MarksOK, k
    <3>3. i \in 1 .. n
      BY <1>1
    <3>4. CASE i # n
      BY <1>2, <3>2, <3>3, <3>4
    <3>5. CASE i = n
      <4>1. b = d[n].body
        BY <1>1, <1>2, <3>5
      <4>2. PICK j \in DOMAIN b : b[j].mark = "-"
        BY <3>2, <3>5, <4>1
      <4>3. j \in DOMAIN body /\ body[j] = b[j]
        BY <1>4
      <4> QED BY <3>3, <3>5, <4>2, <4>3 DEF body
    <3> QED BY <3>4, <3>5
  <2> QED BY <2>1, <2>2
<1>6. ASSUME FileEnds(f), ~RunsTogether(f),
             NEW i \in 1 .. n, NEW j \in DOMAIN x[i].body, Open(x[i].body[j].raw)
      PROVE  m = Len(f) /\ i = n /\ j = Len(x[i].body)
  <2>1. \A h \in 1 .. k : \A p \in DOMAIN d[h].body : ~Open(d[h].body[p].raw)
    <3>1. m - 1 # Len(f)
      BY <1>1
    <3> QED BY <1>6, <3>1 DEF MarksOK, k
  <2>2. i = n
    BY <1>2, <1>6, <2>1
  <2>3. \A p \in DOMAIN b : ~Open(b[p].raw)
    <3>1. CASE b = <<>>
      BY <3>1
    <3>2. CASE n = k /\ b = d[n].body
      <4>1. n \in 1 .. k
        BY <1>1, <3>2
      <4> QED BY <2>1, <3>2, <4>1
    <3> QED BY <1>2, <3>1, <3>2
  <2>4. j \in 1 .. Len(b) + Len(more) /\ Open(body[j].raw) /\ ~(j <= Len(b))
    BY <1>4, <1>6, <2>2, <2>3 DEF body
  <2> DEFINE p == j - Len(b)
  <2>5. p \in 1 .. Len(more) /\ Open(more[p].raw) /\ body[j] = more[p]
    BY <1>4, <2>4
  <2>6. CASE l.text = Pinned
    <3> DEFINE removed == [mark |-> "-", raw |-> l]
               added == [mark |-> "+", raw |-> BumpedLine(l)]
    <3>1. more = <<removed, added>> /\ removed.raw = l /\ added.raw = BumpedLine(l)
      BY <2>6 DEF Marked
    <3> HIDE DEF removed, added, p, more
    <3>2. p \in {1, 2} /\ more[1] = removed /\ more[2] = added
      BY <2>5, <3>1
    <3>3. Open(BumpedLine(l)) => Open(l)
      BY <1>1, <2>6 DEF BumpedLine, RawLines, Open
    <3>4. Open(l)
      BY <2>5, <3>1, <3>2, <3>3
    <3>5. m = Len(f)
      BY <1>1, <1>6, <3>4 DEF FileEnds
    <3>6. f # <<>> /\ Last(f) = l
      BY <1>1, <3>5 DEF Last
    <3> QED BY <1>6, <2>6, <3>4, <3>6 DEF RunsTogether
  <2>7. CASE l.text # Pinned
    <3> DEFINE context == [mark |-> " ", raw |-> l]
    <3>1. more = <<context>> /\ context.raw = l
      BY <2>7 DEF Marked
    <3> HIDE DEF context, p, more
    <3>2. p = 1 /\ Len(more) = 1 /\ more[1] = context
      BY <2>5, <3>1
    <3>3. Open(l)
      BY <2>5, <3>1, <3>2
    <3>4. m = Len(f)
      BY <1>1, <1>6, <3>3 DEF FileEnds
    <3>5. j = Len(body)
      BY <1>4, <2>4, <3>2 DEF p
    <3> QED BY <2>2, <3>4, <3>5 DEF body
  <2> QED BY <2>6, <2>7
<1> QED BY <1>5, <1>6 DEF MarksOK, n

\* The hunks of the rules' diff, whatever the file.
LEMMA RuleHunks ==
    ASSUME NEW f \in Seq(RawLines)
    PROVE  HunksOK(RuleDiff(f), Len(f), f) /\ MarksOK(RuleDiff(f), Len(f), f)
<1> DEFINE n == Len(f)
<1>1. n \in Nat /\ DOMAIN f = 1 .. n
  BY LenProperties
<1>2. PICK r : RenderedBy(r, f) /\ RuleDiff(f) = r[n]
  BY RuleRecursion
<1> HIDE DEF n
<1> DEFINE T == {m \in 0 .. n : HunksOK(r[m], m, f) /\ MarksOK(r[m], m, f)}
<1>3. 0 \in T
  <2>1. 0 \in 0 .. n /\ r[0] = <<>>
    BY <1>1, <1>2 DEF RenderedBy, n
  <2>2. <<>> \in Seq(AnyHunk) /\ Len(<<>>) = 0
    OBVIOUS
  <2>3. 0 \notin Shown(f)
    BY <1>1 DEF Shown
  <2>4. HunksOK(<<>>, 0, f)
    BY <2>2, <2>3 DEF HunksOK
  <2>5. MarksOK(<<>>, 0, f)
    BY <2>2 DEF MarksOK
  <2> QED BY <2>1, <2>4, <2>5
<1>4. ASSUME NEW m \in 0 .. n - 1, m \in T
      PROVE  m + 1 \in T
  <2> DEFINE p == m + 1
             d == r[m]
             x == r[p]
  <2>1. p \in 1 .. n /\ p \in 0 .. n /\ p # 0 /\ p - 1 = m /\ p \in 1 .. Len(f)
    BY <1>1 DEF n
  <2>2. HunksOK(d, p - 1, f) /\ MarksOK(d, p - 1, f) /\ d \in Seq(AnyHunk)
    BY <1>4, <2>1 DEF HunksOK
  <2>3. x = IF p \notin Shown(f) THEN d
            ELSE IF m \notin Shown(f) THEN Append(d, [start |-> p, body |-> Marked(f[p])])
            ELSE Continued(d, Marked(f[p]))
    BY <1>2, <2>1 DEF RenderedBy, n
  <2>4. f[p] \in RawLines /\ Marked(f[p]) \in Seq(MarkedLines) /\ Len(d) \in Nat
    <3>1. <<>> \in Seq(MarkedLines) /\ f[p] \in RawLines
      BY <2>1, ElementOfSeq
    <3> QED BY <2>2, <3>1, MarkedParts, LenProperties
  <2> HIDE DEF p, d, x
  <2>5. CASE p \notin Shown(f)
    <3>1. x = d
      BY <2>3, <2>5
    <3>2. f[p].text # Pinned
      <4>1. p - Context <= p /\ p <= p + Context
        BY <2>1 DEF Context
      <4> QED BY <1>1, <2>1, <2>5, <4>1 DEF Shown
    <3>3. \A q \in 1 .. p : f[q].text = Pinned => q \in 1 .. p - 1
      BY <1>1, <2>1, <3>2
    <3>4. \A i \in 1 .. Len(d) : End(d[i]) <= p
      <4> TAKE i \in 1 .. Len(d)
      <4>1. End(d[i]) <= p - 1 /\ Shows(d[i], f)
        BY <2>2 DEF HunksOK
      <4>2. d[i].start \in Nat /\ Len(Old(d[i])) \in Nat
        BY <4>1, HunkLines, LenProperties DEF Shows
      <4> QED BY <1>1, <2>1, <4>1, <4>2 DEF End
    <3>5. HunksOK(d, p, f)
      BY <2>2, <2>5, <3>3, <3>4 DEF HunksOK
    <3>6. MarksOK(d, p, f)
      <4>1. p - 1 # Len(f)
        BY <1>1, <2>1 DEF n
      <4> QED BY <2>2, <3>3, <4>1 DEF MarksOK
    <3> QED BY <2>1, <3>1, <3>5, <3>6 DEF p, x
  <2>6. ASSUME NEW b, GoesOn(x, d, p, f, b)
        PROVE  p \in T
    BY <2>1, <2>2, <2>6, GoesOnHunks, GoesOnMarks DEF x
  <2>7. CASE p \in Shown(f) /\ m \notin Shown(f)
    <3> DEFINE h == [start |-> p, body |-> Marked(f[p])]
    <3>1. x = Append(d, h)
      BY <2>3, <2>7
    <3>2. Shows(h, f) /\ End(h) = p /\ h \in AnyHunk /\ h.start = p /\ h.body = Marked(f[p])
      BY <2>1, OpenedHunk DEF Shows
    <3> HIDE DEF h
    <3>3. /\ x \in Seq(AnyHunk) /\ Len(x) = Len(d) + 1 /\ x[Len(d) + 1] = h
          /\ \A i \in 1 .. Len(d) : x[i] = d[i]
      BY <2>2, <3>1, <3>2, AppendProperties
    <3>4. <<>> \in Seq(MarkedLines) /\ <<>> \o Marked(f[p]) = Marked(f[p])
      BY <2>4, ConcatEmptySeq
    <3>5. GoesOn(x, d, p, f, <<>>)
      <4>1. Len(x) # 0 /\ \A i \in 1 .. Len(x) : i # Len(x) => i \in 1 .. Len(d) /\ x[i] = d[i]
        BY <2>4, <3>3
      <4> QED BY <3>2, <3>3, <3>4, <4>1 DEF GoesOn
    <3> QED BY <2>6, <3>5 DEF p
  <2>8. CASE p \in Shown(f) /\ m \in Shown(f)
    <3> DEFINE k == Len(d)
               g == d[k]
               h == [start |-> g.start, body |-> g.body \o Marked(f[p])]
    <3>1. k # 0 /\ End(g) = m /\ Shows(g, f) /\ k \in 1 .. k
      BY <2>1, <2>2, <2>4, <2>8 DEF HunksOK
    <3>2. g \in AnyHunk /\ g.body \in Seq(MarkedLines)
      BY <3>1 DEF Shows, AnyHunk
    <3>3. End(g) + 1 = p
      BY <3>1 DEF p
    <3>4. Shows(h, f) /\ End(h) = p /\ h.start = g.start /\ h.body = g.body \o Marked(f[p])
      <4> HIDE DEF g
      <4> QED BY <2>1, <3>1, <3>3, GrownHunk
    <3>5. x = Continued(d, Marked(f[p]))
      BY <2>3, <2>8
    <3>6. /\ x \in Seq(AnyHunk) /\ Len(x) = k /\ x[k] = h
          /\ \A i \in 1 .. k : i # k => x[i] = d[i]
      BY <2>2, <2>4, <3>1, <3>5, ContinuedHunk
    <3> HIDE DEF h
    <3>7. GoesOn(x, d, p, f, g.body)
      BY <3>1, <3>2, <3>4, <3>6 DEF GoesOn
    <3> QED BY <2>6, <3>7 DEF p
  <2> QED BY <2>5, <2>7, <2>8 DEF p
<1>5. n \in T
  <2> HIDE DEF T
  <2>1. 0 .. n \subseteq T
    BY <1>1, <1>3, <1>4, Counting
  <2> QED BY <1>1, <2>1
<1> QED BY <1>2, <1>5 DEF n

LEMMA SubmittedDiffs ==
    /\ \A f \in Files : /\ f \in Seq(RawLines) /\ FileEnds(f)
                        /\ ~RunsTogether(f) => RuleDiff(f) \in Seq(AnyHunk) /\ DiffEnds(RuleDiff(f))
    /\ \A d \in ModelDiffs : d \in Seq(AnyHunk) /\ DiffEnds(d)
<1>1. \A h \in Hunks : h \in AnyHunk /\ BodyEnds(h.body)
  BY PatchAssumption DEF Hunks, AnyHunk, BodyEnds
<1>2. ASSUME NEW f \in Files
      PROVE  /\ f \in Seq(RawLines) /\ FileEnds(f)
             /\ ~RunsTogether(f) => RuleDiff(f) \in Seq(AnyHunk) /\ DiffEnds(RuleDiff(f))
  <2>1. f \in Seq(RawLines) /\ FileEnds(f)
    BY PatchAssumption DEF FileEnds
  <2>2. HunksOK(RuleDiff(f), Len(f), f) /\ MarksOK(RuleDiff(f), Len(f), f)
    BY <2>1, RuleHunks
  <2>3. RuleDiff(f) \in Seq(AnyHunk) /\ DOMAIN RuleDiff(f) = 1 .. Len(RuleDiff(f))
    BY <2>2, LenProperties DEF HunksOK
  <2>4. ~RunsTogether(f) => DiffEnds(RuleDiff(f))
    BY <2>1, <2>2, <2>3 DEF MarksOK, DiffEnds
  <2> QED BY <2>1, <2>3, <2>4
<1>3. ASSUME NEW h \in Hunks
      PROVE  <<h>> \in Seq(AnyHunk) /\ DiffEnds(<<h>>)
  <2>1. <<h>> \in Seq(AnyHunk) /\ DOMAIN <<h>> = {1} /\ <<h>>[1] = h /\ Len(<<h>>) = 1
    BY <1>1
  <2> QED BY <1>1, <2>1 DEF DiffEnds, BodyEnds
<1>4. ASSUME NEW g \in Hunks, \A i \in DOMAIN g.body : ~Open(g.body[i].raw), NEW h \in Hunks
      PROVE  <<g, h>> \in Seq(AnyHunk) /\ DiffEnds(<<g, h>>)
  <2> DEFINE d == <<g, h>>
  <2>1. d \in Seq(AnyHunk) /\ DOMAIN d = {1, 2} /\ d[1] = g /\ d[2] = h /\ Len(d) = 2
    BY <1>1
  <2> HIDE DEF d
  <2>2. DiffEnds(d)
    BY <1>1, <1>4, <2>1 DEF DiffEnds, BodyEnds
  <2> QED BY <2>1, <2>2 DEF d
<1>5. ASSUME NEW d \in ModelDiffs
      PROVE  d \in Seq(AnyHunk) /\ DiffEnds(d)
  <2>1. \/ \E h \in Hunks : d = <<h>>
        \/ \E g \in Hunks : /\ \A i \in DOMAIN g.body : ~Open(g.body[i].raw)
                            /\ \E h \in Hunks : d = <<g, h>>
    BY DEF ModelDiffs
  <2> QED BY <1>3, <1>4, <2>1
<1> QED BY <1>2, <1>5

(***************************************************************************)
(* The inductive invariant of the verification of a diff: what the loop    *)
(* has written is the consumed part of the head file with the hunks so far *)
(* spliced in, whatever follows, and a diff written for the file is where  *)
(* its headers say (patching.py: apply_unified_diff, _locate_hunk).        *)
(***************************************************************************)
THEOREM PatchInvariant == ContentSpec => []PatchInv
<1>1. ContentInit => PatchInv
  BY DEF ContentInit, NoPatch, PatchInv, VerifiedIsSound, AppliedAsWritten
<1>2. ASSUME PatchInv, [ContentNext]_contentVars
      PROVE  PatchInv'
  <2>1. CASE UNCHANGED patchVars
    <3>1. /\ file' = file /\ diff' = diff /\ applied' = applied /\ cursor' = cursor
          /\ result' = result /\ updated' = updated /\ verdict' = verdict
      BY <2>1 DEF patchVars
    <3>2. (Written' <=> Written) /\ Consumed' = Consumed
      BY <3>1 DEF Written, Consumed
    <3>3. \A at : Placed(at) /\ Seams(at) => Placed(at)' /\ Seams(at)'
      BY <3>1, <3>2 DEF Placed, Seams
    <3>4. CheckingOK => CheckingOK'
      BY <3>1, <3>3 DEF CheckingOK
    <3>5. VerifiedIsSound' /\ AppliedAsWritten'
      BY <1>2, <3>1 DEF PatchInv, VerifiedIsSound, AppliedAsWritten
    <3> QED BY <1>2, <3>1, <3>4, <3>5 DEF PatchInv
  <2>2. CASE Attach
    <3>1. PICK f \in Files :
            \/ Submit(f, RuleDiff(f), IF RunsTogether(f) THEN "objected" ELSE "checking")
            \/ \E d \in ModelDiffs : Submit(f, d, "checking")
      BY <2>2 DEF Attach
    <3>2. CASE RunsTogether(f) /\ Submit(f, RuleDiff(f), "objected")
      <4>1. verdict' = "objected"
        BY <3>2 DEF Submit
      <4> QED BY <4>1, NoVerdictInv
    <3>3. CASE ~RunsTogether(f) /\ Submit(f, RuleDiff(f), "checking")
      <4>1. /\ f \in Seq(RawLines) /\ FileEnds(f)
            /\ RuleDiff(f) \in Seq(AnyHunk) /\ DiffEnds(RuleDiff(f))
        BY <3>3, SubmittedDiffs
      <4> QED BY <3>3, <4>1, SubmitInv
    <3>4. CASE \E d \in ModelDiffs : Submit(f, d, "checking")
      <4>1. PICK d \in ModelDiffs : Submit(f, d, "checking")
        BY <3>4
      <4>2. f \in Seq(RawLines) /\ FileEnds(f) /\ d \in Seq(AnyHunk) /\ DiffEnds(d)
        BY SubmittedDiffs
      <4> QED BY <4>1, <4>2, SubmitInv
    <3> QED BY <3>1, <3>2, <3>3, <3>4
  <2>3. CASE Check
    BY <1>2, <2>3, ApplyHunkInv, VerifyInv, RejectInv, NoVerdictInv DEF Check, Object
  <2>4. CASE Checked \/ Raise
    BY <2>4, NoVerdictInv DEF Checked, Raise, Clear
  <2>5. CASE \/ Collect \/ CollectLogsOnly \/ Diagnose \/ AttachNothing \/ AttachUnchecked
             \/ Save \/ Publish \/ PublishNothing \/ Finish
    BY <2>1, <2>5 DEF Collect, CollectLogsOnly, Diagnose, AttachNothing, AttachUnchecked,
                      Save, Publish, PublishNothing, Finish
  <2>6. CASE UNCHANGED contentVars
    BY <2>1, <2>6 DEF contentVars
  <2> QED BY <1>2, <2>2, <2>3, <2>4, <2>5, <2>6 DEF ContentNext
<1> QED BY <1>1, <1>2, PTL DEF ContentSpec

(***************************************************************************)
(* A diff that is shown as verified describes a change of the head file,   *)
(* for all files and hunks (patching.py: verify_patch_suggestions).        *)
(***************************************************************************)
THEOREM VerifiedIsSoundCorrect == ContentSpec => []VerifiedIsSound
  BY PatchInvariant, PTL DEF PatchInv

(***************************************************************************)
(* A diff that was written for the file is applied where it says, also     *)
(* when its lines occur elsewhere (_locate_hunk: the stated place first).  *)
(***************************************************************************)
THEOREM AppliedAsWrittenCorrect == ContentSpec => []AppliedAsWritten
  BY PatchInvariant, PTL DEF PatchInv

\* The file while the hunks behind place e are done.
PartlyBumped(f, e) == [j \in DOMAIN f |-> IF j > e THEN BumpedLine(f[j]) ELSE f[j]]

\* Splicing in a hunk of the rules does its lines and those in front of it.
LEMMA SplicedHunk ==
    ASSUME NEW f \in Seq(RawLines), NEW h, Shows(h, f), NEW e \in Nat, e < h.start,
           \A q \in e + 1 .. h.start - 1 : f[q].text # Pinned
    PROVE  Splice(PartlyBumped(f, End(h)), h, h.start - 1) = PartlyBumped(f, e)
<1> DEFINE a == h.start
           z == End(h)
           n == Len(f)
           x == PartlyBumped(f, z)
           y == PartlyBumped(f, e)
           new == BumpedFile(f)
<1>1. n \in Nat /\ DOMAIN f = 1 .. n /\ \A i \in 1 .. n : f[i] \in RawLines /\ BumpedLine(f[i]) \in RawLines
  <2>1. n \in Nat /\ DOMAIN f = 1 .. n /\ \A i \in 1 .. n : f[i] \in RawLines
    BY LenProperties, ElementOfSeq
  <2> QED BY <2>1, PatchAssumption DEF BumpedLine, RawLines
<1>2. /\ a \in Nat /\ a > 0 /\ z \in Nat /\ z <= n /\ a <= z /\ a - 1 + Len(Old(h)) = z
      /\ New(h) = SubSeq(new, a, z) /\ New(h) \in Seq(RawLines)
  <2>1. /\ h.start \in Nat /\ Old(h) \in Seq(RawLines) /\ Old(h) # <<>> /\ h.start > 0
        /\ New(h) \in Seq(RawLines) /\ End(h) <= Len(f)
        /\ New(h) = SubSeq(new, h.start, End(h))
    BY HunkLines DEF Shows
  <2>2. Len(Old(h)) \in Nat \ {0}
    BY <2>1, EmptySeq
  <2> QED BY <2>1, <2>2 DEF End
<1>3. new \in Seq(RawLines) /\ Len(new) = n /\ \A i \in 1 .. n : new[i] = BumpedLine(f[i])
  BY BumpedLines
<1>4. ASSUME NEW c \in Nat
      PROVE  /\ PartlyBumped(f, c) \in Seq(RawLines) /\ Len(PartlyBumped(f, c)) = n
             /\ \A j \in 1 .. n : PartlyBumped(f, c)[j] = IF j > c THEN BumpedLine(f[j]) ELSE f[j]
  <2>1. /\ PartlyBumped(f, c) \in [1 .. n -> RawLines]
        /\ \A j \in 1 .. n : PartlyBumped(f, c)[j] = IF j > c THEN BumpedLine(f[j]) ELSE f[j]
    BY <1>1 DEF PartlyBumped
  <2> QED BY <1>1, <2>1
<1>5. /\ x \in Seq(RawLines) /\ Len(x) = n /\ y \in Seq(RawLines) /\ Len(y) = n
      /\ \A j \in 1 .. n : x[j] = IF j > z THEN BumpedLine(f[j]) ELSE f[j]
      /\ \A j \in 1 .. n : y[j] = IF j > e THEN BumpedLine(f[j]) ELSE f[j]
  BY <1>2, <1>4
<1>6. \A q \in e + 1 .. a - 1 : f[q].text # Pinned
  OBVIOUS
<1> DEFINE front == Slice(x, 0, a - 1)
           back == Slice(x, z, n)
           mid == New(h)
<1>7. Splice(x, h, a - 1) = front \o mid \o back
  BY <1>2, <1>5 DEF Splice
<1> HIDE DEF a, z, n, x, y, new
<1>8. front = SubSeq(x, 1, a - 1) /\ back = SubSeq(x, z + 1, n)
  <2>1. (IF a - 1 < Len(x) THEN a - 1 ELSE Len(x)) = a - 1 /\ 0 + 1 = 1
    BY <1>1, <1>2, <1>5
  <2>2. (IF n < Len(x) THEN n ELSE Len(x)) = n
    BY <1>1, <1>5
  <2> QED BY <2>1, <2>2 DEF Slice
<1>9. /\ front \in Seq(RawLines) /\ Len(front) = a - 1
      /\ \A i \in 1 .. a - 1 : front[i] = x[i]
  <2>1. 1 \in Int /\ a - 1 \in Int /\ \A i \in 1 .. a - 1 : x[i] \in RawLines
    BY <1>1, <1>2, <1>5, ElementOfSeq
  <2>2. /\ SubSeq(x, 1, a - 1) \in Seq(RawLines)
        /\ Len(SubSeq(x, 1, a - 1)) = IF 1 <= a - 1 THEN a - 1 - 1 + 1 ELSE 0
        /\ \A i \in 1 .. a - 1 - 1 + 1 : SubSeq(x, 1, a - 1)[i] = x[1 + i - 1]
    BY <2>1, SubSeqProperties
  <2> HIDE DEF front
  <2> QED BY <1>2, <1>8, <2>2
<1>10. /\ back \in Seq(RawLines) /\ Len(back) = n - z
       /\ \A i \in 1 .. n - z : back[i] = x[z + i]
  <2>1. z + 1 \in Int /\ n \in Int /\ \A i \in z + 1 .. n : x[i] \in RawLines
    BY <1>1, <1>2, <1>5, ElementOfSeq
  <2>2. /\ SubSeq(x, z + 1, n) \in Seq(RawLines)
        /\ Len(SubSeq(x, z + 1, n)) = IF z + 1 <= n THEN n - (z + 1) + 1 ELSE 0
        /\ \A i \in 1 .. n - (z + 1) + 1 : SubSeq(x, z + 1, n)[i] = x[z + 1 + i - 1]
    BY <2>1, SubSeqProperties
  <2> HIDE DEF back
  <2> QED BY <1>1, <1>2, <1>8, <2>2
<1>11. /\ mid \in Seq(RawLines) /\ Len(mid) = z - a + 1
       /\ \A i \in 1 .. z - a + 1 : mid[i] = new[a + i - 1]
  <2>1. a \in Int /\ z \in Int /\ \A i \in a .. z : new[i] \in RawLines
    BY <1>1, <1>2, <1>3, ElementOfSeq
  <2>2. /\ Len(SubSeq(new, a, z)) = IF a <= z THEN z - a + 1 ELSE 0
        /\ \A i \in 1 .. z - a + 1 : SubSeq(new, a, z)[i] = new[a + i - 1]
    BY <2>1, SubSeqProperties
  <2> QED BY <1>2, <2>2
<1> HIDE DEF front, mid, back
<1> DEFINE u == front \o mid
           w == u \o back
<1>12. /\ u \in Seq(RawLines) /\ Len(u) = z
       /\ \A i \in 1 .. z : u[i] = IF i <= a - 1 THEN front[i] ELSE mid[i - (a - 1)]
  <2>1. /\ u \in Seq(RawLines) /\ Len(u) = Len(front) + Len(mid)
        /\ \A i \in 1 .. Len(front) + Len(mid) : u[i] = IF i <= Len(front) THEN front[i] ELSE mid[i - Len(front)]
    BY <1>9, <1>11, ConcatProperties
  <2>2. Len(front) + Len(mid) = z /\ Len(front) = a - 1
    BY <1>2, <1>9, <1>11
  <2> HIDE DEF u
  <2> QED BY <2>1, <2>2
<1> HIDE DEF u
<1>13. /\ w \in Seq(RawLines) /\ Len(w) = n
       /\ \A i \in 1 .. n : w[i] = IF i <= z THEN u[i] ELSE back[i - z]
  <2>1. /\ w \in Seq(RawLines) /\ Len(w) = Len(u) + Len(back)
        /\ \A i \in 1 .. Len(u) + Len(back) : w[i] = IF i <= Len(u) THEN u[i] ELSE back[i - Len(u)]
    BY <1>10, <1>12, ConcatProperties
  <2>2. Len(u) + Len(back) = n
    BY <1>1, <1>2, <1>10, <1>12
  <2> HIDE DEF w
  <2> QED BY <1>12, <2>1, <2>2
<1> HIDE DEF w
<1>14. ASSUME NEW i \in 1 .. n
       PROVE  w[i] = y[i]
  <2>1. CASE i <= a - 1
    <3>1. i \in 1 .. a - 1 /\ i <= z /\ i \in 1 .. z /\ ~(i > z)
      BY <1>1, <1>2, <2>1
    <3>2. w[i] = f[i]
      BY <1>5, <1>9, <1>12, <1>13, <2>1, <3>1
    <3>3. CASE i > e
      <4>1. i \in e + 1 .. a - 1
        BY <1>2, <3>1, <3>3
      <4>2. BumpedLine(f[i]) = f[i]
        BY <1>6, <4>1 DEF BumpedLine
      <4> QED BY <1>5, <3>2, <3>3, <4>2
    <3>4. CASE ~(i > e)
      BY <1>5, <3>2, <3>4
    <3> QED BY <3>3, <3>4
  <2>2. CASE i > a - 1 /\ i <= z
    <3> DEFINE j == i - (a - 1)
    <3>1. i \in 1 .. z /\ ~(i <= a - 1) /\ j \in 1 .. z - a + 1 /\ a + j - 1 = i /\ i > e
      BY <1>1, <1>2, <2>2 DEF a
    <3> HIDE DEF j
    <3>2. w[i] = new[i]
      <4>1. w[i] = u[i]
        BY <1>13, <2>2
      <4>2. u[i] = mid[i - (a - 1)]
        BY <1>12, <3>1
      <4>3. mid[j] = new[i]
        BY <1>11, <3>1
      <4> QED BY <4>1, <4>2, <4>3 DEF j
    <3> QED BY <1>3, <1>5, <3>1, <3>2
  <2>3. CASE i > z
    <3> DEFINE j == i - z
    <3>1. ~(i <= z) /\ j \in 1 .. n - z /\ z + j = i /\ i > e
      BY <1>1, <1>2, <2>3 DEF a
    <3>2. w[i] = back[i - z]
      BY <1>13, <3>1
    <3> HIDE DEF j
    <3>3. back[j] = x[i]
      BY <1>10, <3>1
    <3> QED BY <1>5, <2>3, <3>1, <3>2, <3>3 DEF j
  <2> QED BY <1>1, <1>2, <2>1, <2>2, <2>3
<1>15. w = y
  <2>1. Len(w) = Len(y) /\ \A i \in 1 .. Len(w) : w[i] = y[i]
    BY <1>5, <1>13, <1>14
  <2> QED BY <1>5, <1>13, <2>1, SeqEqual
<1> QED BY <1>7, <1>15 DEF w, u, x, y, a, z

LEMMA RuleDiffWritten ==
    ASSUME file \in Seq(RawLines), HasPin(file), diff = RuleDiff(file)
    PROVE  /\ Written
           /\ SpliceAll(file, diff, [i \in DOMAIN diff |-> diff[i].start - 1]) = BumpedFile(file)
<1> DEFINE w == [i \in DOMAIN diff |-> diff[i].start - 1]
           n == Len(diff)
           m == Len(file)
<1>1. HunksOK(diff, m, file) /\ MarksOK(diff, m, file)
  BY RuleHunks
<1>2. m \in Nat /\ DOMAIN file = 1 .. m
  BY LenProperties
<1>3. diff \in Seq(AnyHunk) /\ n \in Nat /\ DOMAIN diff = 1 .. n
  BY <1>1, LenProperties DEF HunksOK
<1>4. /\ \A i \in 1 .. n : Shows(diff[i], file)
      /\ \A i, k \in 1 .. n : i < k => End(diff[i]) < diff[k].start
      /\ \A q \in 1 .. m : file[q].text = Pinned =>
            \E i \in 1 .. n : diff[i].start <= q /\ q <= End(diff[i])
  BY <1>1 DEF HunksOK
<1>5. PICK pin \in 1 .. m : file[pin].text = Pinned
  BY <1>2 DEF HasPin
<1>6. n # 0
  BY <1>3, <1>4, <1>5
<1> HIDE DEF n, m
<1>7. ASSUME NEW i \in 1 .. n
      PROVE  /\ diff[i].start \in Nat /\ diff[i].start > 0 /\ Old(diff[i]) # <<>>
             /\ Len(Old(diff[i])) \in Nat /\ End(diff[i]) = diff[i].start + Len(Old(diff[i])) - 1
             /\ End(diff[i]) \in Nat /\ diff[i].start <= End(diff[i]) /\ End(diff[i]) <= m
             /\ Old(diff[i]) = SubSeq(file, diff[i].start, End(diff[i]))
  <2>1. /\ diff[i].start \in Nat /\ Old(diff[i]) \in Seq(RawLines)
        /\ Old(diff[i]) # <<>> /\ diff[i].start > 0 /\ End(diff[i]) <= m
        /\ Old(diff[i]) = SubSeq(file, diff[i].start, End(diff[i]))
    BY <1>4, HunkLines DEF Shows, m
  <2>2. Len(Old(diff[i])) \in Nat \ {0}
    BY <2>1, EmptySeq
  <2> QED BY <2>1, <2>2 DEF End
<1>8. \A i \in 1 .. n : w[i] = diff[i].start - 1
  BY <1>3
<1>9. ASSUME NEW i \in 1 .. n
      PROVE  MatchesAt(file, diff[i], w[i])
  <2> DEFINE a == diff[i].start
             k == Len(Old(diff[i]))
  <2>1. a \in Nat /\ a > 0 /\ k \in Nat /\ End(diff[i]) = a + k - 1 /\ End(diff[i]) <= m
    BY <1>7
  <2> HIDE DEF a, k
  <2>2. (IF a - 1 + k < m THEN a - 1 + k ELSE m) = a + k - 1 /\ a - 1 + 1 = a
    BY <1>2, <2>1 DEF m
  <2>3. Slice(file, a - 1, a - 1 + k) = SubSeq(file, a, a + k - 1)
    BY <2>2 DEF Slice, m
  <2>4. SubSeq(file, a, a + k - 1) = Old(diff[i])
    BY <1>7, <2>1 DEF a
  <2> QED BY <1>8, <2>3, <2>4 DEF MatchesAt, a, k
<1>10. ASSUME NEW i \in 1 .. n, i > 1
       PROVE  w[i] >= w[i - 1] + Len(Old(diff[i - 1]))
  <2>1. i - 1 \in 1 .. n /\ i - 1 < i
    BY <1>3, <1>10
  <2>2. End(diff[i - 1]) < diff[i].start
    BY <1>4, <2>1
  <2>3. /\ diff[i].start \in Nat /\ diff[i - 1].start \in Nat /\ Len(Old(diff[i - 1])) \in Nat
        /\ End(diff[i - 1]) = diff[i - 1].start + Len(Old(diff[i - 1])) - 1
    BY <1>7, <2>1
  <2>4. w[i] = diff[i].start - 1 /\ w[i - 1] = diff[i - 1].start - 1
    BY <1>8, <2>1
  <2> HIDE DEF w
  <2> QED BY <2>2, <2>3, <2>4
<1>11. Changes(diff)
  <2>1. PICK i \in 1 .. n : \E j \in DOMAIN diff[i].body : diff[i].body[j].mark = "-"
    BY <1>1, <1>5 DEF MarksOK, n, m
  <2>2. PICK j \in DOMAIN diff[i].body : diff[i].body[j].mark = "-"
    BY <2>1
  <2>3. "-" # " "
    BY Zenon
  <2>4. diff[i].body[j].mark # " "
    BY <2>2, <2>3
  <2> QED BY <1>3, <2>2, <2>4 DEF Changes
<1>12. Fits(file, diff, w)
  <2> HIDE DEF w
  <2> QED BY <1>3, <1>9, <1>10 DEF Fits, n
<1>13. Written
  BY <1>3, <1>7, <1>11, <1>12 DEF Written
<1> DEFINE e(i) == IF i = 0 THEN 0 ELSE End(diff[i])
           g == [i \in 0 .. n |-> PartlyBumped(file, e(i))]
<1>14. \A i \in 0 .. n : e(i) \in Nat
  BY <1>3, <1>7 DEF n
<1>15. /\ \A i \in 1 .. m : file[i] \in RawLines /\ BumpedLine(file[i]) \in RawLines
       /\ \A c : PartlyBumped(file, c) \in Seq(RawLines)
  <2>1. \A i \in 1 .. m : file[i] \in RawLines
    BY <1>2, ElementOfSeq DEF m
  <2>2. \A i \in 1 .. m : BumpedLine(file[i]) \in RawLines
    BY <2>1, PatchAssumption DEF BumpedLine, RawLines
  <2>3. ASSUME NEW c
        PROVE  PartlyBumped(file, c) \in Seq(RawLines)
    <3>1. PartlyBumped(file, c) \in [1 .. m -> RawLines]
      BY <1>2, <2>1, <2>2 DEF PartlyBumped, m
    <3> QED BY <1>2, <3>1 DEF m
  <2> QED BY <2>1, <2>2, <2>3
<1>16. g \in [0 .. n -> Seq(RawLines)] /\ \A i \in 0 .. n : g[i] = PartlyBumped(file, e(i))
  BY <1>15
<1>17. g[n] = file
  <2>1. \A q \in 1 .. m : q > End(diff[n]) => file[q].text # Pinned
    <3> SUFFICES ASSUME NEW q \in 1 .. m, q > End(diff[n]), file[q].text = Pinned
                 PROVE  FALSE
      OBVIOUS
    <3>1. PICK k \in 1 .. n : diff[k].start <= q /\ q <= End(diff[k])
      BY <1>4 DEF n, m
    <3>2. n \in 1 .. n /\ (k # n => k < n)
      BY <1>3, <1>6
    <3>3. k # n => End(diff[k]) < diff[n].start
      BY <1>4, <3>2 DEF n
    <3>4. /\ End(diff[k]) \in Nat /\ End(diff[n]) \in Nat /\ diff[n].start \in Nat
          /\ diff[n].start <= End(diff[n])
      BY <1>7, <3>2
    <3> QED BY <3>1, <3>3, <3>4
  <2>2. \A q \in 1 .. m : (IF q > e(n) THEN BumpedLine(file[q]) ELSE file[q]) = file[q]
    BY <1>6, <2>1 DEF BumpedLine
  <2>3. n \in 0 .. n
    BY <1>3 DEF n
  <2>4. PartlyBumped(file, e(n)) = file
    BY <1>2, <2>2 DEF PartlyBumped, m
  <2> HIDE DEF g, e
  <2> QED BY <1>16, <2>3, <2>4
<1>18. g[0] = BumpedFile(file)
  <2>1. 0 \in 0 .. n /\ \A q \in 1 .. m : q > 0
    BY <1>2, <1>3 DEF n, m
  <2>2. PartlyBumped(file, 0) = BumpedFile(file)
    BY <1>2, <2>1 DEF PartlyBumped, BumpedFile, m
  <2> QED BY <1>16, <2>1, <2>2
<1>19. ASSUME NEW i \in 1 .. n
       PROVE  g[i - 1] = Splice(g[i], diff[i], w[i])
  <2> DEFINE h == diff[i]
             c == e(i - 1)
  <2>1. i \in 0 .. n /\ i - 1 \in 0 .. n /\ i # 0 /\ e(i) = End(h)
    BY <1>3 DEF n
  <2>2. c \in Nat /\ c < h.start
    <3>1. CASE i = 1
      BY <1>7, <2>1, <3>1
    <3>2. CASE i # 1
      <4>1. i - 1 \in 1 .. n /\ i - 1 < i
        BY <1>3, <3>2 DEF n
      <4> QED BY <1>4, <1>7, <2>1, <4>1 DEF n
    <3> QED BY <3>1, <3>2
  <2>3. ASSUME NEW q \in c + 1 .. h.start - 1, file[q].text = Pinned
        PROVE  FALSE
    <3>1. q \in 1 .. m
      <4>1. h.start \in Nat /\ h.start <= End(h) /\ End(h) \in Nat /\ End(h) <= m
        BY <1>7
      <4>2. m \in Nat
        BY <1>2 DEF m
      <4> HIDE DEF c, h
      <4> QED BY <2>2, <4>1, <4>2
    <3>2. PICK k \in 1 .. n : diff[k].start <= q /\ q <= End(diff[k])
      BY <1>4, <2>3, <3>1 DEF n, m
    <3>3. CASE k >= i
      <4>1. k # i => End(diff[i]) < diff[k].start
        BY <1>4, <3>3 DEF n
      <4>2. /\ diff[k].start \in Nat /\ diff[i].start \in Nat /\ End(diff[i]) \in Nat
            /\ diff[i].start <= End(diff[i])
        BY <1>7
      <4>3. q < diff[i].start
        BY <2>2, <4>2
      <4> HIDE DEF c
      <4> QED BY <3>2, <4>1, <4>2, <4>3
    <3>4. CASE k < i
      <4>1. i - 1 \in 1 .. n /\ i - 1 # 0 /\ c = End(diff[i - 1]) /\ (k # i - 1 => k < i - 1)
        BY <1>3, <3>4 DEF n
      <4>2. k # i - 1 => End(diff[k]) < diff[i - 1].start
        BY <1>4, <4>1 DEF n
      <4> HIDE DEF c
      <4>3. /\ End(diff[k]) \in Nat /\ End(diff[i - 1]) \in Nat /\ diff[i - 1].start \in Nat
            /\ diff[i - 1].start <= End(diff[i - 1])
        BY <1>7, <4>1
      <4>4. q > c
        BY <2>2, <4>1
      <4> QED BY <3>2, <4>1, <4>2, <4>3, <4>4
    <3> QED BY <3>3, <3>4
  <2>4. Shows(h, file)
    BY <1>4 DEF n
  <2> HIDE DEF h, c
  <2>5. Splice(PartlyBumped(file, End(h)), h, h.start - 1) = PartlyBumped(file, c)
    BY <2>2, <2>3, <2>4, SplicedHunk
  <2> HIDE DEF g, e, w
  <2>6. g[i] = PartlyBumped(file, End(h)) /\ g[i - 1] = PartlyBumped(file, c) /\ w[i] = h.start - 1
    BY <1>8, <1>16, <2>1 DEF h, c
  <2> QED BY <2>5, <2>6 DEF h
<1>20. SpliceAll(file, diff, w) = BumpedFile(file)
  <2> HIDE DEF g, w
  <2>1. Steps(g, diff, n, w, file, BumpedFile(file))
    BY <1>16, <1>17, <1>18, <1>19 DEF Steps
  <2> QED BY <1>3, <2>1, SpliceSteps DEF n
<1> QED BY <1>13, <1>20

(***************************************************************************)
(* A diff that the rules render with two lines of context, in as many      *)
(* hunks as that takes, is never refused for its places, and what it is    *)
(* verified to do is to replace every pin of the file and nothing else:    *)
(* no other line changes, none loses its end and no two run together       *)
(* (propose_version_patches, render_unified_diff, apply_unified_diff).     *)
(***************************************************************************)
THEOREM RuleDiffsCorrect ==
    ContentSpec => [](/\ HasPin(file) /\ diff = RuleDiff(file)
                      /\ verdict \in {"verified", "rejected"}
                      => /\ verdict = "verified"
                         /\ result = BumpedFile(file)
                         /\ updated = Join(BumpedFile(file)) /\ ~Glued(updated))
<1> DEFINE Goal == /\ HasPin(file) /\ diff = RuleDiff(file)
                   /\ verdict \in {"verified", "rejected"}
                   => /\ verdict = "verified"
                      /\ result = BumpedFile(file)
                      /\ updated = Join(BumpedFile(file)) /\ ~Glued(updated)
<1>1. PatchInv => Goal
  <2> SUFFICES ASSUME PatchInv, HasPin(file), diff = RuleDiff(file),
                      verdict \in {"verified", "rejected"}
               PROVE  /\ verdict = "verified"
                      /\ result = BumpedFile(file)
                      /\ updated = Join(BumpedFile(file)) /\ ~Glued(updated)
    OBVIOUS
  <2>1. file \in Seq(RawLines) /\ FileEnds(file)
    BY DEF PatchInv
  <2>2. /\ Written
        /\ SpliceAll(file, diff, [i \in DOMAIN diff |-> diff[i].start - 1]) = BumpedFile(file)
    BY <2>1, RuleDiffWritten
  <2>3. verdict = "verified" /\ result = SpliceAll(file, diff, [i \in DOMAIN diff |-> diff[i].start - 1])
    BY <2>2 DEF PatchInv, AppliedAsWritten, Written
  <2>4. updated = Join(result)
    BY <2>3 DEF PatchInv
  <2>5. ~Glued(Join(BumpedFile(file)))
    <3> DEFINE new == BumpedFile(file)
    <3>1. /\ new \in Seq(RawLines) /\ Len(new) = Len(file) /\ Len(file) \in Nat
          /\ \A i \in 1 .. Len(file) : Open(new[i]) <=> Open(file[i])
          /\ DOMAIN file = 1 .. Len(file)
      BY <2>1, BumpedLines, LenProperties
    <3> HIDE DEF new
    <3>2. \A i \in 1 .. Len(new) - 1 : ~Open(new[i])
      BY <2>1, <3>1 DEF FileEnds
    <3>3. ~Glued(Join(new))
      BY <3>1, <3>2, JoinSeams
    <3> QED BY <3>3 DEF new
  <2> QED BY <2>2, <2>3, <2>4, <2>5
<1> QED BY <1>1, PatchInvariant, PTL

===============================================================================
