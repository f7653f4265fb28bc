--------------------------- MODULE FollowupProofs ---------------------------
(***************************************************************************)
(* What record_followup_run and create_if_absent guarantee for any number  *)
(* of runs, attempts, branches, pull requests and concurrent requests.     *)
(***************************************************************************)
EXTENDS FollowupResolution, TLAPS, SequenceTheorems

-----------------------------------------------------------------------------
(* Rows, requests and the history                                          *)

\* A verdict, and the request that is about to write one, name a delivered run.
LaterRun(r, row, i) ==
    /\ i \in DOMAIN history
    /\ TargetMatch(row, history[i])
    /\ Precedes(r, row.attempt, history[i].run, history[i].attempt)

RowOK(r) ==
    /\ rows[r] \in Row
    /\ rows[r].at \in DOMAIN history
    /\ rows[r].resolution # Unresolved =>
        LET i == rows[r].resolution.at IN
        /\ LaterRun(r, rows[r], i)
        /\ rows[r].resolution = ResolutionBy(history[i], i)

HandlerOK(h) ==
    \/ handler[h] = Idle
    \/ /\ handler[h] \in Request
       /\ handler[h].at \in DOMAIN history
       /\ handler[h].step = "update" =>
            /\ handler[h].candidate \in DOMAIN rows
            /\ LaterRun(handler[h].candidate, rows[handler[h].candidate], handler[h].at)

FollowupInv ==
    /\ history \in Seq(Completion) /\ Len(history) <= MaxCompletions
    /\ DOMAIN rows \subseteq Runs
    /\ handler \in [Handlers -> Request \cup {Idle}]
    /\ delivered \subseteq DOMAIN history
    /\ orderly \in BOOLEAN
    /\ \A r \in DOMAIN rows : RowOK(r)
    /\ \A h \in Handlers : HandlerOK(h)

\* The positions of the history.
LEMMA HistoryFacts ==
    ASSUME FollowupInv
    PROVE  /\ Len(history) \in Nat
           /\ DOMAIN history = 1 .. Len(history)
           /\ DOMAIN history \subseteq 1 .. MaxCompletions
           /\ \A i \in DOMAIN history : history[i] \in Completion
<1>1. Len(history) \in Nat /\ DOMAIN history = 1 .. Len(history)
  BY LenProperties DEF FollowupInv
<1>2. DOMAIN history \subseteq 1 .. MaxCompletions
  BY <1>1, FollowupAssumption DEF FollowupInv
<1>3. \A i \in DOMAIN history : history[i] \in Completion
  BY <1>1, ElementOfSeq DEF FollowupInv
<1> QED BY <1>1, <1>2, <1>3

\* A verdict has the type of the resolution columns.
LEMMA VerdictType ==
    ASSUME FollowupInv, NEW i \in DOMAIN history
    PROVE  /\ ResolutionBy(history[i], i) \in Resolution
           /\ ResolutionBy(history[i], i) # Unresolved
           /\ ResolutionBy(history[i], i).at = i
           /\ ResolutionBy(history[i], i).run = history[i].run
           /\ ResolutionBy(history[i], i).attempt = history[i].attempt
<1>1. i \in 1 .. MaxCompletions /\ history[i].run \in Runs /\ history[i].attempt \in Attempts
  BY HistoryFacts DEF Completion
<1> QED BY <1>1 DEF ResolutionBy, Resolution, Unresolved

\* What a request goes on with has its type.
LEMMA ThenCreateType ==
    ASSUME FollowupInv, NEW i \in DOMAIN history
    PROVE  ThenCreate(i) = Idle \/
           (ThenCreate(i) \in Request /\ ThenCreate(i).at = i /\ ThenCreate(i).step = "create")
<1>1. i \in 1 .. MaxCompletions
  BY HistoryFacts
<1> QED BY <1>1 DEF ThenCreate, Request

\* Matching and order look at columns no statement changes after the insert.
LEMMA LaterRunKept ==
    ASSUME NEW r, NEW row, NEW new, NEW i, LaterRun(r, row, i),
           new.attempt = row.attempt, new.branch = row.branch, new.pull = row.pull
    PROVE  LaterRun(r, new, i)
  BY DEF LaterRun, TargetMatch

\* The history only grows.
LEMMA HistoryKept ==
    ASSUME FollowupInv, NEW e \in Completion, history' = Append(history, e)
    PROVE  /\ history' \in Seq(Completion)
           /\ Len(history') = Len(history) + 1
           /\ DOMAIN history' = DOMAIN history \cup {Len(history) + 1}
           /\ history'[Len(history) + 1] = e
           /\ \A i \in DOMAIN history : history'[i] = history[i]
<1>1. history \in Seq(Completion) /\ Len(history) \in Nat /\ DOMAIN history = 1 .. Len(history)
  BY HistoryFacts DEF FollowupInv
<1>2. /\ history' \in Seq(Completion)
      /\ Len(history') = Len(history) + 1
      /\ \A i \in 1 .. Len(history) : history'[i] = history[i]
      /\ history'[Len(history) + 1] = e
      /\ DOMAIN history' = 1 .. Len(history')
  BY <1>1, AppendProperties, LenProperties
<1>3. 1 .. (Len(history) + 1) = (1 .. Len(history)) \cup {Len(history) + 1}
  BY <1>1
<1> QED BY <1>1, <1>2, <1>3
-----------------------------------------------------------------------------
(* The invariant                                                           *)

\* A row that keeps its columns, while the history may grow, stays right.
LEMMA RowKept ==
    ASSUME FollowupInv, NEW r \in DOMAIN rows, r \in DOMAIN rows', rows'[r] = rows[r],
           DOMAIN history \subseteq DOMAIN history',
           \A i \in DOMAIN history : history'[i] = history[i]
    PROVE  RowOK(r)'
<1>1. RowOK(r)
  BY DEF FollowupInv
<1>2. CASE rows[r].resolution = Unresolved
  BY <1>1, <1>2 DEF RowOK
<1>3. CASE rows[r].resolution # Unresolved
  <2>1. PICK i \in DOMAIN history :
            /\ i = rows[r].resolution.at
            /\ LaterRun(r, rows[r], i)
            /\ rows[r].resolution = ResolutionBy(history[i], i)
    BY <1>1, <1>3 DEF RowOK, LaterRun
  <2>2. LaterRun(r, rows[r], i)'
    BY <2>1 DEF LaterRun
  <2> QED BY <1>1, <2>1, <2>2 DEF RowOK
<1> QED BY <1>2, <1>3

\* A request keeps its candidate, whatever happens to the row's verdict.
LEMMA HandlerKept ==
    ASSUME FollowupInv, NEW h \in Handlers, handler'[h] = handler[h],
           DOMAIN rows \subseteq DOMAIN rows',
           \A r \in DOMAIN rows : /\ rows'[r].attempt = rows[r].attempt
                                  /\ rows'[r].branch = rows[r].branch
                                  /\ rows'[r].pull = rows[r].pull,
           DOMAIN history \subseteq DOMAIN history',
           \A i \in DOMAIN history : history'[i] = history[i]
    PROVE  HandlerOK(h)'
<1>1. CASE handler[h] = Idle
  BY <1>1 DEF HandlerOK
<1>2. CASE handler[h] # Idle
  <2>1. /\ handler[h] \in Request
        /\ handler[h].at \in DOMAIN history
        /\ handler[h].step = "update" =>
                /\ handler[h].candidate \in DOMAIN rows
                /\ LaterRun(handler[h].candidate, rows[handler[h].candidate], handler[h].at)
    BY <1>2 DEF FollowupInv, HandlerOK
  <2>2. ASSUME handler[h].step = "update"
        PROVE  /\ handler[h].candidate \in DOMAIN rows'
               /\ LaterRun(handler[h].candidate, rows[handler[h].candidate], handler[h].at)'
    <3>1. PICK r \in DOMAIN rows : r = handler[h].candidate
      BY <2>1, <2>2
    <3>2. LaterRun(r, rows'[r], handler[h].at)
      BY <2>1, <2>2, <3>1, LaterRunKept
    <3> QED BY <2>1, <3>1, <3>2 DEF LaterRun
  <2> QED BY <2>1, <2>2 DEF HandlerOK
<1> QED BY <1>1, <1>2

LEMMA FollowupInitInv == FollowupInit => FollowupInv
<1> SUFFICES ASSUME FollowupInit PROVE FollowupInv
  OBVIOUS
<1>1. history \in Seq(Completion) /\ Len(history) = 0
  BY EmptySeq DEF FollowupInit
<1> QED BY <1>1, FollowupAssumption DEF FollowupInit, FollowupInv, HandlerOK

LEMMA CompleteInv ==
    ASSUME FollowupInv, NEW e \in Completion, Complete(e)
    PROVE  FollowupInv'
<1>1. /\ Len(history) < MaxCompletions /\ history' = Append(history, e)
      /\ UNCHANGED <<rows, handler, delivered>> /\ orderly' \in BOOLEAN
  BY DEF Complete, FollowupInv
<1>2. /\ history' \in Seq(Completion)
      /\ Len(history') = Len(history) + 1
      /\ DOMAIN history \subseteq DOMAIN history'
      /\ \A i \in DOMAIN history : history'[i] = history[i]
  BY <1>1, HistoryKept
<1>3. Len(history') <= MaxCompletions
  BY <1>1, <1>2, HistoryFacts, FollowupAssumption
<1>4. \A r \in DOMAIN rows' : RowOK(r)'
  BY <1>1, <1>2, RowKept
<1>5. \A h \in Handlers : HandlerOK(h)'
  BY <1>1, <1>2, HandlerKept
<1> QED BY <1>1, <1>2, <1>3, <1>4, <1>5 DEF FollowupInv

LEMMA ReceiveInv ==
    ASSUME FollowupInv, NEW h \in Handlers, NEW i \in DOMAIN history, Receive(h, i)
    PROVE  FollowupInv'
<1>1. /\ UNCHANGED <<history, rows>> /\ orderly' \in BOOLEAN
      /\ delivered' = delivered \cup {i}
  BY DEF Receive, FollowupInv
<1>2. PICK now \in Request \cup {Idle} :
        /\ handler' = [handler EXCEPT ![h] = now]
        /\ \/ now = Idle
           \/ /\ now \in Request /\ now.at = i
              /\ now.step = "update" =>
                    /\ now.candidate \in DOMAIN rows
                    /\ LaterRun(now.candidate, rows[now.candidate], i)
  <2>1. ASSUME NEW r \in LatestFirst(history[i]),
               handler' = [handler EXCEPT ![h] = [at |-> i, step |-> "update", candidate |-> r]]
        PROVE  \E now \in Request :
                  /\ handler' = [handler EXCEPT ![h] = now]
                  /\ now.at = i
                  /\ now.candidate \in DOMAIN rows
                  /\ LaterRun(now.candidate, rows[now.candidate], i)
    <3> DEFINE now == [at |-> i, step |-> "update", candidate |-> r]
    <3>1. r \in DOMAIN rows /\ LaterRun(r, rows[r], i)
      BY <2>1 DEF LatestFirst, Candidates, LaterRun
    <3>2. now \in Request /\ now.at = i /\ now.candidate = r
      BY <3>1, HistoryFacts DEF Request, FollowupInv
    <3> QED BY <2>1, <3>1, <3>2
  <2>2. CASE handler' = [handler EXCEPT ![h] = ThenCreate(i)]
    BY <2>2, ThenCreateType
  <2> QED BY <2>1, <2>2 DEF Receive
<1>3. handler' \in [Handlers -> Request \cup {Idle}]
  BY <1>2 DEF FollowupInv
<1>4. HandlerOK(h)'
  BY <1>1, <1>2 DEF HandlerOK, LaterRun, FollowupInv
<1>5. \A g \in Handlers \ {h} : HandlerOK(g)'
  BY <1>1, <1>2, HandlerKept DEF FollowupInv
<1>6. \A r \in DOMAIN rows' : RowOK(r)'
  BY <1>1, RowKept
<1> QED BY <1>1, <1>3, <1>4, <1>5, <1>6 DEF FollowupInv

\* The UPDATE of request h for run i on row r: it writes the verdict of i, or nothing.
UpdateStep(h, i, r) ==
    /\ i = handler[h].at /\ r = handler[h].candidate
    /\ LaterRun(r, rows[r], i)
    /\ handler' = [handler EXCEPT ![h] = ThenCreate(i)]
    /\ history' = history /\ delivered' = delivered /\ orderly' = orderly
    /\ DOMAIN rows' = DOMAIN rows
    /\ \A q \in DOMAIN rows \ {r} : rows'[q] = rows[q]
    /\ ~ Open(r, history[i]) => rows'[r] = rows[r]
    /\ Open(r, history[i]) => rows'[r].resolution = ResolutionBy(history[i], i)
    /\ rows'[r] \in Row
    /\ rows'[r].attempt = rows[r].attempt /\ rows'[r].branch = rows[r].branch
    /\ rows'[r].pull = rows[r].pull /\ rows'[r].at = rows[r].at

LEMMA UpdateWrites ==
    ASSUME FollowupInv, NEW h \in Handlers, Update(h)
    PROVE  \E i \in DOMAIN history, r \in DOMAIN rows : UpdateStep(h, i, r)
<1>1. handler[h].step = "update" /\ handler[h] # Idle
  BY DEF Update, Idle
<1>2. PICK i \in DOMAIN history, r \in DOMAIN rows :
        i = handler[h].at /\ r = handler[h].candidate /\ LaterRun(r, rows[r], i)
  BY <1>1 DEF FollowupInv, HandlerOK
<1>3. /\ handler' = [handler EXCEPT ![h] = ThenCreate(i)]
      /\ UNCHANGED <<history, delivered, orderly>>
  BY <1>2 DEF Update
<1>4. CASE ~ Open(r, history[i])
  <2>1. rows' = rows /\ rows[r] \in Row
    BY <1>2, <1>4 DEF Update, FollowupInv, RowOK
  <2> QED BY <1>2, <1>3, <1>4, <2>1 DEF UpdateStep
<1>5. CASE Open(r, history[i])
  <2>1. rows' = [rows EXCEPT ![r].resolution = ResolutionBy(history[i], i)]
    BY <1>2, <1>5 DEF Update
  <2>2. ResolutionBy(history[i], i) \in Resolution \cup {Unresolved}
    BY VerdictType
  <2>3. rows[r] \in Row
    BY DEF FollowupInv, RowOK
  <2>4. /\ DOMAIN rows' = DOMAIN rows
        /\ \A q \in DOMAIN rows \ {r} : rows'[q] = rows[q]
        /\ rows'[r] = [rows[r] EXCEPT !.resolution = ResolutionBy(history[i], i)]
    BY <2>1
  <2>5. /\ rows'[r] \in Row
        /\ rows'[r].resolution = ResolutionBy(history[i], i)
        /\ rows'[r].attempt = rows[r].attempt /\ rows'[r].branch = rows[r].branch
        /\ rows'[r].pull = rows[r].pull /\ rows'[r].at = rows[r].at
    BY <2>2, <2>3, <2>4 DEF Row
  <2> QED BY <1>2, <1>3, <1>5, <2>4, <2>5 DEF UpdateStep
<1> QED BY <1>4, <1>5

LEMMA UpdateInv ==
    ASSUME FollowupInv, NEW h \in Handlers, Update(h)
    PROVE  FollowupInv'
<1>1. PICK i \in DOMAIN history, r \in DOMAIN rows : UpdateStep(h, i, r)
  BY UpdateWrites
<1>2. handler' \in [Handlers -> Request \cup {Idle}]
  BY <1>1, ThenCreateType DEF FollowupInv, UpdateStep
<1>3. DOMAIN rows' = DOMAIN rows /\
      \A q \in DOMAIN rows : /\ rows'[q].attempt = rows[q].attempt
                             /\ rows'[q].branch = rows[q].branch
                             /\ rows'[q].pull = rows[q].pull
  BY <1>1 DEF UpdateStep
<1>4. HandlerOK(h)'
  BY <1>1, ThenCreateType DEF FollowupInv, HandlerOK, UpdateStep
<1>5. ASSUME NEW g \in Handlers \ {h}
      PROVE  HandlerOK(g)'
  BY <1>1, <1>3, HandlerKept DEF FollowupInv, UpdateStep
<1>6. ASSUME NEW q \in DOMAIN rows'
      PROVE  RowOK(q)'
  <2>1. CASE rows'[q] = rows[q]
    BY <1>1, <1>3, <2>1, RowKept DEF UpdateStep
  <2>2. CASE rows'[q] # rows[q]
    <3>1. q = r /\ rows'[r].resolution = ResolutionBy(history[i], i)
      BY <1>1, <1>3, <2>2 DEF UpdateStep
    <3>2. rows'[r].resolution.at = i /\ rows[r].at \in DOMAIN history
      BY <3>1, VerdictType DEF FollowupInv, RowOK
    <3>3. LaterRun(r, rows[r], i)'
      BY <1>1, <1>3, <3>1 DEF UpdateStep, LaterRun, TargetMatch
    <3>4. ResolutionBy(history[i], i)' = ResolutionBy(history[i], i)
      BY <1>1 DEF ResolutionBy, UpdateStep
    <3> QED BY <1>1, <2>2, <3>1, <3>2, <3>3 DEF RowOK, UpdateStep
  <2> QED BY <2>1, <2>2
<1> QED BY <1>1, <1>2, <1>3, <1>4, <1>5, <1>6 DEF FollowupInv, UpdateStep

\* create_if_absent keeps every row that exists and adds at most one.
CreateStep(h, i) ==
    /\ i = handler[h].at
    /\ handler' = [handler EXCEPT ![h] = Idle]
    /\ history' = history /\ delivered' = delivered /\ orderly' = orderly
    /\ DOMAIN rows' = DOMAIN rows \cup {history[i].run}
    /\ \A q \in DOMAIN rows : rows'[q] = rows[q]
    /\ history[i].run \notin DOMAIN rows =>
        /\ rows'[history[i].run] \in Row
        /\ rows'[history[i].run] =
            [attempt |-> history[i].attempt, branch |-> history[i].branch,
             pull |-> history[i].pull, at |-> i, resolution |-> Unresolved]

LEMMA CreateWrites ==
    ASSUME FollowupInv, NEW h \in Handlers, Create(h)
    PROVE  \E i \in DOMAIN history : CreateStep(h, i)
<1>1. handler[h].step = "create" /\ handler[h] # Idle
  BY DEF Create, Idle
<1>2. PICK i \in DOMAIN history : i = handler[h].at
  BY <1>1 DEF FollowupInv, HandlerOK
<1> DEFINE e == history[i]
           row == [attempt |-> e.attempt, branch |-> e.branch, pull |-> e.pull,
                   at |-> i, resolution |-> Unresolved]
<1>3. e \in Completion /\ i \in 1 .. MaxCompletions
  BY HistoryFacts
<1>4. row \in Row
  BY <1>3 DEF Completion, Row
<1>5. /\ rows' = [r \in DOMAIN rows \cup {e.run} |->
                    IF r \in DOMAIN rows THEN rows[r] ELSE row]
      /\ handler' = [handler EXCEPT ![h] = Idle]
      /\ UNCHANGED <<history, delivered, orderly>>
  BY <1>2 DEF Create
<1> HIDE DEF row, e
<1>6. /\ DOMAIN rows' = DOMAIN rows \cup {e.run}
      /\ \A q \in DOMAIN rows : rows'[q] = rows[q]
      /\ e.run \notin DOMAIN rows => rows'[e.run] = row
  BY <1>5
<1>7. CreateStep(h, i)
  BY <1>2, <1>4, <1>5, <1>6 DEF CreateStep, row, e
<1> QED BY <1>7

LEMMA CreateInv ==
    ASSUME FollowupInv, NEW h \in Handlers, Create(h)
    PROVE  FollowupInv'
<1>1. PICK i \in DOMAIN history : CreateStep(h, i)
  BY CreateWrites
<1>2. handler' \in [Handlers -> Request \cup {Idle}]
  BY <1>1 DEF FollowupInv, CreateStep
<1>3. history[i].run \in Runs
  BY HistoryFacts DEF Completion
<1>4. HandlerOK(h)'
  BY <1>1 DEF FollowupInv, HandlerOK, CreateStep
<1>5. ASSUME NEW g \in Handlers \ {h}
      PROVE  HandlerOK(g)'
  BY <1>1, HandlerKept DEF FollowupInv, CreateStep
<1>6. ASSUME NEW q \in DOMAIN rows'
      PROVE  RowOK(q)'
  <2>1. CASE q \in DOMAIN rows
    BY <1>1, <2>1, RowKept DEF CreateStep
  <2>2. CASE q \notin DOMAIN rows
    BY <1>1, <2>2 DEF RowOK, CreateStep
  <2> QED BY <2>1, <2>2
<1> QED BY <1>1, <1>2, <1>3, <1>4, <1>5, <1>6 DEF FollowupInv, CreateStep

LEMMA AbandonInv ==
    ASSUME FollowupInv, NEW h \in Handlers, Abandon(h)
    PROVE  FollowupInv'
<1>1. /\ handler' = [handler EXCEPT ![h] = Idle] /\ orderly' = FALSE
      /\ UNCHANGED <<history, rows, delivered>>
  BY DEF Abandon
<1>2. HandlerOK(h)'
  BY <1>1 DEF FollowupInv, HandlerOK
<1>3. ASSUME NEW g \in Handlers \ {h}
      PROVE  HandlerOK(g)'
  BY <1>1, HandlerKept DEF FollowupInv
<1>4. \A r \in DOMAIN rows' : RowOK(r)'
  BY <1>1, RowKept
<1> QED BY <1>1, <1>2, <1>3, <1>4 DEF FollowupInv

LEMMA FollowupNextInv == FollowupInv /\ [FollowupNext]_followupVars => FollowupInv'
<1> SUFFICES ASSUME FollowupInv, [FollowupNext]_followupVars PROVE FollowupInv'
  OBVIOUS
<1>1. CASE FollowupNext
  BY <1>1, CompleteInv, ReceiveInv, UpdateInv, CreateInv, AbandonInv DEF FollowupNext
<1>2. CASE UNCHANGED followupVars
  <2>1. UNCHANGED <<history, rows, handler, delivered, orderly>>
    BY <1>2 DEF followupVars
  <2>2. \A r \in DOMAIN rows' : RowOK(r)'
    BY <2>1, RowKept
  <2>3. \A h \in Handlers : HandlerOK(h)'
    BY <2>1, HandlerKept
  <2> QED BY <2>1, <2>2, <2>3 DEF FollowupInv
<1> QED BY <1>1, <1>2

\* The rows and requests of every reachable state are consistent.
THEOREM FollowupInvariant == FollowupSpec => []FollowupInv
  BY FollowupInitInv, FollowupNextInv, PTL DEF FollowupSpec

(***************************************************************************)
(* Whatever is delivered late, twice or to two replicas at a time, the run *)
(* that decides a failure came after the failed attempt and on its target: *)
(* the SELECT picks only such rows, and neither the target nor the attempt *)
(* of a row changes before the UPDATE.                                     *)
(***************************************************************************)
THEOREM DecidedByLaterRunCorrect == FollowupSpec => []DecidedByLaterRun
<1>1. FollowupInv => DecidedByLaterRun
  <2> SUFFICES ASSUME FollowupInv, NEW r \in Runs, IsDecided(r)
               PROVE  LET res == rows[r].resolution IN
                        /\ Precedes(r, rows[r].attempt, res.run, res.attempt)
                        /\ TargetMatch(rows[r], history[res.at])
    BY DEF DecidedByLaterRun
  <2>1. PICK i \in DOMAIN history : /\ i = rows[r].resolution.at
                                    /\ LaterRun(r, rows[r], i)
                                    /\ rows[r].resolution = ResolutionBy(history[i], i)
    BY DEF FollowupInv, IsDecided, RowOK, LaterRun
  <2> QED BY <2>1, VerdictType DEF LaterRun
<1> QED BY <1>1, FollowupInvariant, PTL

(***************************************************************************)
(* The UPDATE repeats the condition of the SELECT, so of two replicas that *)
(* picked the same candidate the second leaves the first one's verdict     *)
(* alone, unless it brings a later attempt of the failed run itself.       *)
(***************************************************************************)
THEOREM VerdictIsFinalCorrect == FollowupSpec => VerdictIsFinal
<1> DEFINE Final(r) ==
              \/ rows'[r] = rows[r]
              \/ /\ rows[r].resolution.outcome = "still_failing"
                 /\ rows'[r].resolution.run = r
                 /\ rows[r].resolution.run = r
                 /\ rows[r].resolution.attempt < rows'[r].resolution.attempt
<1>1. ASSUME FollowupInv, FollowupNext, NEW r \in Runs, IsDecided(r)
      PROVE  Final(r)
  <2>1. r \in DOMAIN rows /\ rows[r].resolution # Unresolved
    BY <1>1 DEF IsDecided
  <2>2. ASSUME NEW h \in Handlers, Update(h)
        PROVE  Final(r)
    <3>1. PICK i \in DOMAIN history, c \in DOMAIN rows : UpdateStep(h, i, c)
      BY <1>1, <2>2, UpdateWrites
    <3>2. CASE c # r \/ ~ Open(r, history[i])
      BY <2>1, <3>1, <3>2 DEF UpdateStep
    <3>3. CASE c = r /\ Open(r, history[i])
      <4>1. /\ rows'[r].resolution.run = history[i].run
            /\ rows'[r].resolution.attempt = history[i].attempt
        BY <1>1, <3>1, <3>3, VerdictType DEF UpdateStep
      <4> QED BY <2>1, <3>3, <4>1 DEF Open
    <3> QED BY <3>2, <3>3
  <2>3. ASSUME NEW h \in Handlers, Create(h)
        PROVE  Final(r)
    BY <1>1, <2>1, <2>3, CreateWrites DEF CreateStep
  <2>4. CASE rows' = rows
    BY <2>4
  <2> QED BY <1>1, <2>2, <2>3, <2>4 DEF FollowupNext, Complete, Receive, Abandon
<1>2. FollowupInv /\ [FollowupNext]_followupVars
        => [\A r \in Runs : IsDecided(r) => Final(r)]_followupVars
  BY <1>1
<1> QED BY <1>2, FollowupInvariant, PTL DEF FollowupSpec, VerdictIsFinal

-----------------------------------------------------------------------------
(* Which run decides, when everything is delivered in order                *)

(***************************************************************************)
(* GitHub names at most one pull request for a branch, and no number for   *)
(* two branches.  Without it record_followup_run compares pull request     *)
(* numbers and never looks at the branch: a run that names another number  *)
(* than the failed run did is not linked with it.                          *)
(***************************************************************************)
OnePull ==
    /\ \A b \in Branches : \A p, q \in Pulls[b] : p = q
    /\ \A b, c \in Branches : b # c => Pulls[b] \cap Pulls[c] = {}

\* The reference definition of FollowupResolution, relative to the events of S.
AfterIn(S, i) == {j \in S : j > i /\ history[j].branch = history[i].branch}

DecidedIn(S, i, j) ==
    /\ j \in AfterIn(S, i)
    /\ \/ \A k \in AfterIn(S, i) : j <= k
       \/ history[j].run = history[i].run
    /\ \A k \in AfterIn(S, i) : k > j =>
        history[k].run # history[i].run \/ history[j].conclusion = "success"
    /\ \A k \in AfterIn(S, i) : k < j =>
        history[k].run = history[i].run /\ history[k].conclusion = "failure"

LinkedIn(S, r) ==
    IF rows[r].resolution # Unresolved
    THEN DecidedIn(S, rows[r].at, rows[r].resolution.at)
    ELSE AfterIn(S, rows[r].at) = {}

\* A row holds what the payload of its run said.
EventsOK ==
    /\ \A i \in DOMAIN history : history[i].pull \in Pulls[history[i].branch] \cup {NoPull}
    /\ \A r \in DOMAIN rows :
        /\ rows[r].at \in DOMAIN history
        /\ history[rows[r].at].run = r
        /\ history[rows[r].at].attempt = rows[r].attempt
        /\ history[rows[r].at].branch = rows[r].branch
        /\ history[rows[r].at].pull = rows[r].pull

\* The runs of a branch end in the order they started.
Sorted ==
    \A i, j \in DOMAIN history : i < j /\ history[i].branch = history[j].branch =>
        Precedes(history[i].run, history[i].attempt, history[j].run, history[j].attempt)

\* With one pull request per branch the target of a run is its branch.
LEMMA TargetIsBranch ==
    ASSUME FollowupInv, EventsOK, OnePull, NEW r \in DOMAIN rows, NEW k \in DOMAIN history
    PROVE  TargetMatch(rows[r], history[k]) <=> rows[r].branch = history[k].branch
<1>1. /\ rows[r].branch \in Branches /\ history[k].branch \in Branches
      /\ rows[r].pull \in Pulls[rows[r].branch] \cup {NoPull}
      /\ history[k].pull \in Pulls[history[k].branch] \cup {NoPull}
  BY HistoryFacts DEF EventsOK, FollowupInv, RowOK, Row, Completion
<1>2. CASE history[k].pull = NoPull
  BY <1>2 DEF TargetMatch
<1>3. CASE history[k].pull # NoPull /\ rows[r].branch = history[k].branch
  BY <1>1, <1>3 DEF TargetMatch, OnePull
<1>4. CASE history[k].pull # NoPull /\ rows[r].branch # history[k].branch
  <2>1. rows[r].pull # history[k].pull
    BY <1>1, <1>4 DEF OnePull
  <2> QED BY <1>4, <2>1 DEF TargetMatch
<1> QED BY <1>2, <1>3, <1>4

\* Between two attempts of a run its branch sees only attempts of that run.
LEMMA Between ==
    ASSUME FollowupInv, Sorted,
           NEW i \in DOMAIN history, NEW j \in DOMAIN history, NEW k \in DOMAIN history,
           i < j, j < k, history[i].branch = history[j].branch,
           history[j].branch = history[k].branch, history[i].run = history[k].run
    PROVE  history[j].run = history[i].run
<1>1. /\ Precedes(history[i].run, history[i].attempt, history[j].run, history[j].attempt)
      /\ Precedes(history[j].run, history[j].attempt, history[k].run, history[k].attempt)
  BY DEF Sorted
<1>2. history[i].run \in Nat /\ history[j].run \in Nat /\ history[k].run \in Nat
  BY HistoryFacts, FollowupAssumption DEF Completion, Runs
<1> QED BY <1>1, <1>2 DEF Precedes

\* The settled events S, and one more event k of the history after all of them.
NextEvent(S, k) ==
    /\ S \subseteq DOMAIN history
    /\ k \in DOMAIN history
    /\ \A i \in S : i < k
    /\ \A r \in DOMAIN rows : rows[r].at \in S /\ LinkedIn(S, r)

\* The rows the SELECT finds: still undecided, or decided by a failed re-run of e.run.
LEMMA CandidateFacts ==
    ASSUME FollowupInv, EventsOK, OnePull, Sorted, NEW S, NEW k, NextEvent(S, k),
           NEW r \in DOMAIN rows
    PROVE  r \in Candidates(history[k]) <=>
             /\ rows[r].branch = history[k].branch
             /\ \/ rows[r].resolution = Unresolved
                \/ /\ rows[r].resolution # Unresolved
                   /\ r = history[k].run
                   /\ rows[r].resolution.outcome = "still_failing"
                   /\ history[rows[r].resolution.at].run = r
<1>1. /\ k \in DOMAIN history /\ rows[r].at \in DOMAIN history /\ rows[r].at < k
      /\ DOMAIN history \subseteq Nat
  BY HistoryFacts, FollowupAssumption DEF NextEvent
<1>2. TargetMatch(rows[r], history[k]) <=> rows[r].branch = history[k].branch
  BY <1>1, TargetIsBranch
<1>3. rows[r].branch = history[k].branch =>
        Precedes(r, rows[r].attempt, history[k].run, history[k].attempt)
  BY <1>1 DEF EventsOK, Sorted
<1>4. ASSUME rows[r].resolution # Unresolved
      PROVE  /\ rows[r].resolution.at \in DOMAIN history /\ rows[r].resolution.at < k
             /\ history[rows[r].resolution.at].branch = rows[r].branch
             /\ rows[r].resolution.run = history[rows[r].resolution.at].run
             /\ rows[r].resolution.attempt = history[rows[r].resolution.at].attempt
  <2>1. rows[r].resolution.at \in AfterIn(S, rows[r].at)
    BY <1>4 DEF NextEvent, LinkedIn, DecidedIn
  <2>2. /\ rows[r].resolution.at \in DOMAIN history /\ rows[r].resolution.at < k
        /\ history[rows[r].resolution.at].branch = rows[r].branch
    BY <2>1 DEF AfterIn, NextEvent, EventsOK
  <2>3. rows[r].resolution = ResolutionBy(history[rows[r].resolution.at], rows[r].resolution.at)
    BY <1>4 DEF FollowupInv, RowOK
  <2> QED BY <2>2, <2>3, VerdictType
<1>5. ASSUME rows[r].resolution # Unresolved, rows[r].branch = history[k].branch,
             history[rows[r].resolution.at].run = history[k].run
      PROVE  rows[r].resolution.attempt < history[k].attempt
  <2>1. Precedes(history[rows[r].resolution.at].run, history[rows[r].resolution.at].attempt,
                 history[k].run, history[k].attempt)
    BY <1>1, <1>4, <1>5 DEF Sorted
  <2>2. history[k].run \in Nat
    BY <1>1, HistoryFacts, FollowupAssumption DEF Completion, Runs
  <2> QED BY <1>4, <1>5, <2>1, <2>2 DEF Precedes
<1>6. r \in Candidates(history[k]) <=>
        /\ rows[r].branch = history[k].branch
        /\ Open(r, history[k])
  BY <1>2, <1>3 DEF Candidates
<1>7. CASE rows[r].resolution = Unresolved
  BY <1>6, <1>7 DEF Open
<1>8. CASE rows[r].resolution # Unresolved
  BY <1>4, <1>5, <1>6, <1>8 DEF Open
<1> QED BY <1>7, <1>8

\* In order, at most one row waits for a run.
LEMMA OneCandidate ==
    ASSUME FollowupInv, EventsOK, OnePull, Sorted, NEW S, NEW k, NextEvent(S, k),
           NEW c \in Candidates(history[k]), NEW d \in Candidates(history[k])
    PROVE  c = d
<1>1. /\ c \in DOMAIN rows /\ d \in DOMAIN rows
      /\ k \in DOMAIN history /\ DOMAIN history \subseteq Nat
  BY HistoryFacts, FollowupAssumption DEF Candidates, NextEvent
<1>2. \A q \in {c, d} :
        /\ rows[q].branch = history[k].branch
        /\ rows[q].at \in S /\ rows[q].at \in DOMAIN history /\ rows[q].at < k
        /\ history[rows[q].at].branch = history[k].branch
        /\ history[rows[q].at].run = q
        /\ rows[q].resolution = Unresolved => AfterIn(S, rows[q].at) = {}
        /\ rows[q].resolution # Unresolved => q = history[k].run
  <2>1. \A q \in {c, d} : q \in DOMAIN rows /\ q \in Candidates(history[k])
    BY <1>1
  <2>2. \A q \in {c, d} : /\ rows[q].branch = history[k].branch
                          /\ rows[q].resolution # Unresolved => q = history[k].run
    BY <2>1, CandidateFacts
  <2>3. \A q \in {c, d} :
            /\ rows[q].at \in S /\ rows[q].at \in DOMAIN history /\ rows[q].at < k
            /\ history[rows[q].at].branch = rows[q].branch
            /\ history[rows[q].at].run = q
            /\ rows[q].resolution = Unresolved => AfterIn(S, rows[q].at) = {}
    BY <2>1 DEF EventsOK, NextEvent, LinkedIn
  <2> QED BY <2>2, <2>3
<1>3. ASSUME NEW p \in {c, d}, NEW q \in {c, d}, rows[p].at < rows[q].at
      PROVE  FALSE
  <2>1. rows[q].at \in AfterIn(S, rows[p].at)
    BY <1>2, <1>3 DEF AfterIn
  <2>2. p = history[k].run
    BY <1>2, <2>1
  <2>3. history[rows[q].at].run = history[rows[p].at].run
    BY <1>1, <1>2, <1>3, <2>2, Between
  <2>4. p = q
    BY <1>2, <2>3
  <2> QED BY <1>1, <1>2, <1>3, <2>4
<1>4. rows[c].at = rows[d].at
  BY <1>1, <1>2, <1>3
<1> QED BY <1>2, <1>4

\* A candidate decided by k is linked as the reference definition says ...
LEMMA CandidateIsDecided ==
    ASSUME FollowupInv, EventsOK, OnePull, Sorted, NEW S, NEW k, NextEvent(S, k),
           NEW c \in Candidates(history[k])
    PROVE  DecidedIn(S \cup {k}, rows[c].at, k)
<1> DEFINE at == rows[c].at
           j == rows[c].resolution.at
<1>1. /\ c \in DOMAIN rows
      /\ k \in DOMAIN history /\ DOMAIN history \subseteq Nat /\ S \subseteq DOMAIN history
      /\ at \in S /\ at < k /\ \A i \in S : i < k
      /\ history[at].branch = history[k].branch /\ history[at].run = c
  <2>1. c \in DOMAIN rows
    BY DEF Candidates
  <2>2. rows[c].branch = history[k].branch
    BY <2>1, CandidateFacts
  <2> QED BY <2>1, <2>2, HistoryFacts, FollowupAssumption DEF NextEvent, EventsOK
<1>2. AfterIn(S \cup {k}, at) = AfterIn(S, at) \cup {k}
  BY <1>1 DEF AfterIn
<1>3. \A i \in AfterIn(S, at) : /\ i \in S /\ i < k /\ at < i /\ ~ (i > k)
                                /\ history[i].branch = history[at].branch
  BY <1>1 DEF AfterIn
<1>4. CASE rows[c].resolution = Unresolved
  <2>1. AfterIn(S, at) = {}
    BY <1>1, <1>4 DEF NextEvent, LinkedIn
  <2> QED BY <1>1, <1>2, <2>1 DEF DecidedIn
<1>5. CASE rows[c].resolution # Unresolved
  <2>1. /\ c = history[k].run /\ rows[c].resolution.outcome = "still_failing"
        /\ history[j].run = c /\ DecidedIn(S, at, j)
        /\ rows[c].resolution = ResolutionBy(history[j], j)
    BY <1>1, <1>5, CandidateFacts DEF NextEvent, LinkedIn, FollowupInv, RowOK
  <2>2. j \in S /\ history[j] \in Completion
    BY <1>1, <2>1, HistoryFacts DEF DecidedIn, AfterIn
  <2>3. history[j].conclusion = "failure"
    BY <2>1, <2>2 DEF ResolutionBy, Completion
  <2> HIDE DEF at, j
  <2>4. ASSUME NEW i \in AfterIn(S, at)
        PROVE  history[i].run = c /\ history[i].conclusion = "failure"
    <3>1. history[i].run = c
      BY <1>1, <1>3, <2>1, Between
    <3>2. CASE i < j
      BY <1>1, <2>1, <3>2 DEF DecidedIn
    <3>3. CASE i = j
      BY <2>3, <3>1, <3>3
    <3>4. CASE i > j
      BY <1>1, <2>1, <2>3, <3>1, <3>4 DEF DecidedIn
    <3>5. i \in Nat /\ j \in Nat
      BY <1>1, <1>3, <2>2
    <3> QED BY <3>1, <3>2, <3>3, <3>4, <3>5
  <2>5. history[k].run = history[at].run /\ k \in AfterIn(S \cup {k}, at)
    BY <1>1, <1>2, <2>1
  <2>6. \A i \in AfterIn(S \cup {k}, at) : ~ (i > k)
    BY <1>1, <1>2, <1>3
  <2>7. \A i \in AfterIn(S \cup {k}, at) : i < k =>
            history[i].run = history[at].run /\ history[i].conclusion = "failure"
    BY <1>1, <1>2, <2>4
  <2> QED BY <2>5, <2>6, <2>7 DEF DecidedIn, at
<1> QED BY <1>4, <1>5

\* ... and k changes nothing for the rows that are not candidates.
LEMMA OthersStayLinked ==
    ASSUME FollowupInv, EventsOK, OnePull, Sorted, NEW S, NEW k, NextEvent(S, k),
           NEW r \in DOMAIN rows, r \notin Candidates(history[k])
    PROVE  LinkedIn(S \cup {k}, r)
<1> DEFINE at == rows[r].at
           j == rows[r].resolution.at
<1>1. /\ k \in DOMAIN history /\ DOMAIN history \subseteq Nat /\ S \subseteq DOMAIN history
      /\ at \in S /\ at < k /\ \A i \in S : i < k
      /\ history[at].branch = rows[r].branch /\ history[at].run = r
      /\ LinkedIn(S, r)
  BY HistoryFacts, FollowupAssumption DEF NextEvent, EventsOK
<1>2. CASE rows[r].branch # history[k].branch
  <2>1. AfterIn(S \cup {k}, at) = AfterIn(S, at)
    BY <1>1, <1>2 DEF AfterIn
  <2> QED BY <1>1, <2>1 DEF LinkedIn, DecidedIn
<1>3. CASE rows[r].branch = history[k].branch
  <2>1. AfterIn(S \cup {k}, at) = AfterIn(S, at) \cup {k}
    BY <1>1, <1>3 DEF AfterIn
  <2>2. /\ rows[r].resolution # Unresolved
        /\ ~ (/\ r = history[k].run
              /\ rows[r].resolution.outcome = "still_failing"
              /\ history[j].run = r)
    BY <1>3, CandidateFacts
  <2>3. DecidedIn(S, at, j) /\ rows[r].resolution = ResolutionBy(history[j], j)
    BY <1>1, <2>2 DEF LinkedIn, FollowupInv, RowOK
  <2>4. /\ j \in S /\ j < k /\ at < j /\ history[j].branch = history[at].branch
        /\ j \in Nat /\ k \in Nat
    BY <1>1, <2>3 DEF DecidedIn, AfterIn
  <2>5. ASSUME history[k].run = r
        PROVE  history[j].conclusion = "success"
    <3>1. history[j].run = r
      BY <1>1, <1>3, <2>4, <2>5, Between
    <3> QED BY <2>2, <2>3, <2>5, <3>1 DEF ResolutionBy
  <2> HIDE DEF at, j
  <2>6. j <= k /\ ~ (k < j)
    BY <2>4
  <2>7. DecidedIn(S \cup {k}, at, j)
    BY <1>1, <2>1, <2>3, <2>5, <2>6 DEF DecidedIn
  <2> QED BY <2>2, <2>7 DEF LinkedIn, at, j
<1> QED BY <1>2, <1>3

-----------------------------------------------------------------------------
(* The events that are settled                                             *)

\* The delivered events dl whose UPDATE is not pending in the requests hd.
SettledOf(hd, dl) == dl \ {hd[h].at : h \in {g \in Handlers : hd[g].step = "update"}}
Settled == SettledOf(handler, delivered)

OneRequest ==
    /\ \A g, h \in Handlers : handler[g] # Idle /\ handler[h] # Idle => g = h
    /\ \A h \in Handlers : handler[h] # Idle =>
        handler[h].at \in delivered /\ \A i \in delivered : i <= handler[h].at

PickStillFits ==
    \A h \in Handlers : handler[h].step = "update" =>
        handler[h].candidate \in Candidates(history[handler[h].at])

RowsLinked == \A r \in DOMAIN rows : rows[r].at \in Settled /\ LinkedIn(Settled, r)

OrderlyInv == orderly => Sorted /\ OneRequest /\ PickStillFits /\ RowsLinked

LEMMA SettledFacts ==
    ASSUME NEW hd, NEW dl, NEW h \in Handlers,
           \A g \in Handlers \ {h} : hd[g].step # "update"
    PROVE  /\ hd[h].step = "update" => SettledOf(hd, dl) = dl \ {hd[h].at}
           /\ hd[h].step # "update" => SettledOf(hd, dl) = dl
  BY DEF SettledOf

\* A row and the events after it are what they were.
LEMMA LinkKept ==
    ASSUME FollowupInv, NEW S \in SUBSET (DOMAIN history), NEW r \in DOMAIN rows,
           rows'[r] = rows[r], rows[r].at \in S, LinkedIn(S, r),
           \A i \in DOMAIN history : history'[i] = history[i]
    PROVE  LinkedIn(S, r)'
<1>1. AfterIn(S, rows[r].at)' = AfterIn(S, rows[r].at)
  BY DEF AfterIn
<1>2. \A i \in AfterIn(S, rows[r].at) : history'[i] = history[i]
  BY DEF AfterIn
<1>3. CASE rows[r].resolution = Unresolved
  BY <1>1, <1>3 DEF LinkedIn
<1>4. CASE rows[r].resolution # Unresolved
  <2>1. DecidedIn(S, rows[r].at, rows[r].resolution.at)
    BY <1>4 DEF LinkedIn
  <2>2. DecidedIn(S, rows[r].at, rows[r].resolution.at)'
    BY <1>1, <1>2, <2>1 DEF DecidedIn
  <2> QED BY <1>4, <2>2 DEF LinkedIn
<1> QED BY <1>3, <1>4

\* Rows and the payloads they were made from.
LEMMA EventsNextInv ==
    ASSUME FollowupInv, EventsOK, [FollowupNext]_followupVars
    PROVE  EventsOK'
<1>1. ASSUME NEW e \in Completion, Complete(e)
      PROVE  EventsOK'
  <2>1. /\ history' = Append(history, e) /\ rows' = rows
        /\ e.pull \in Pulls[e.branch] \cup {NoPull}
    BY <1>1 DEF Complete
  <2>2. /\ DOMAIN history' = DOMAIN history \cup {Len(history) + 1}
        /\ history'[Len(history) + 1] = e
        /\ \A i \in DOMAIN history : history'[i] = history[i]
    BY <2>1, HistoryKept
  <2> QED BY <2>1, <2>2 DEF EventsOK
<1>2. ASSUME NEW h \in Handlers, Update(h)
      PROVE  EventsOK'
  <2>1. PICK i \in DOMAIN history, c \in DOMAIN rows : UpdateStep(h, i, c)
    BY <1>2, UpdateWrites
  <2> QED BY <2>1 DEF UpdateStep, EventsOK
<1>3. ASSUME NEW h \in Handlers, Create(h)
      PROVE  EventsOK'
  <2>1. PICK i \in DOMAIN history : CreateStep(h, i)
    BY <1>3, CreateWrites
  <2> QED BY <2>1 DEF CreateStep, EventsOK
<1>4. CASE UNCHANGED <<history, rows>>
  BY <1>4 DEF EventsOK
<1> QED BY <1>1, <1>2, <1>3, <1>4 DEF FollowupNext, followupVars, Receive, Abandon

LEMMA CompleteOrderly ==
    ASSUME FollowupInv, OrderlyInv, NEW e \in Completion, Complete(e)
    PROVE  OrderlyInv'
<1> SUFFICES ASSUME orderly' PROVE (Sorted /\ OneRequest /\ PickStillFits /\ RowsLinked)'
  BY DEF OrderlyInv
<1> DEFINE n == Len(history) + 1
<1>1. /\ orderly /\ history' = Append(history, e)
      /\ rows' = rows /\ handler' = handler /\ delivered' = delivered
      /\ \A i \in DOMAIN history : history[i].branch = e.branch =>
                                Precedes(history[i].run, history[i].attempt, e.run, e.attempt)
  BY DEF Complete
<1>2. Sorted /\ OneRequest /\ PickStillFits /\ RowsLinked
  BY <1>1 DEF OrderlyInv
<1>3. /\ DOMAIN history' = DOMAIN history \cup {n} /\ history'[n] = e
      /\ \A i \in DOMAIN history : history'[i] = history[i]
      /\ \A i \in DOMAIN history : i < n
      /\ DOMAIN history \subseteq Nat /\ n \in Nat
  BY <1>1, HistoryKept, HistoryFacts
<1> HIDE DEF n
<1>4. Sorted'
  <2> SUFFICES ASSUME NEW i \in DOMAIN history', NEW j \in DOMAIN history', i < j,
                      history'[i].branch = history'[j].branch
               PROVE  Precedes(history'[i].run, history'[i].attempt,
                               history'[j].run, history'[j].attempt)
    BY DEF Sorted
  <2>1. i \in DOMAIN history
    BY <1>3
  <2>2. CASE j = n
    BY <1>1, <1>3, <2>1, <2>2
  <2>3. CASE j \in DOMAIN history
    BY <1>2, <1>3, <2>1, <2>3 DEF Sorted
  <2> QED BY <1>3, <2>2, <2>3
<1>5. OneRequest'
  BY <1>1, <1>2 DEF OneRequest
<1>6. PickStillFits'
  <2> SUFFICES ASSUME NEW h \in Handlers, handler[h].step = "update"
               PROVE  handler[h].candidate \in Candidates(history[handler[h].at])'
    BY <1>1 DEF PickStillFits
  <2>1. handler[h].at \in DOMAIN history
    BY DEF FollowupInv, HandlerOK, Idle
  <2>2. Candidates(history[handler[h].at])' = Candidates(history[handler[h].at])
    BY <1>1, <1>3, <2>1 DEF Candidates, Open
  <2> QED BY <1>2, <2>2 DEF PickStillFits
<1>7. RowsLinked'
  <2>1. PICK S \in SUBSET (DOMAIN history) : S = Settled
    BY DEF Settled, SettledOf, FollowupInv
  <2>2. Settled' = S
    BY <1>1, <2>1 DEF Settled, SettledOf
  <2>3. \A r \in DOMAIN rows : rows[r].at \in S /\ LinkedIn(S, r)
    BY <1>2, <2>1 DEF RowsLinked
  <2>4. \A r \in DOMAIN rows : LinkedIn(S, r)'
    BY <1>1, <1>3, <2>3, LinkKept
  <2> QED BY <1>1, <2>2, <2>3, <2>4 DEF RowsLinked
<1> QED BY <1>4, <1>5, <1>6, <1>7

LEMMA ReceiveOrderly ==
    ASSUME FollowupInv, EventsOK, OnePull, OrderlyInv,
           NEW h \in Handlers, NEW k \in DOMAIN history, Receive(h, k)
    PROVE  OrderlyInv'
<1> SUFFICES ASSUME orderly' PROVE (Sorted /\ OneRequest /\ PickStillFits /\ RowsLinked)'
  BY DEF OrderlyInv
<1>1. /\ orderly /\ delivered = 1 .. k - 1 /\ \A g \in Handlers : handler[g] = Idle
      /\ history' = history /\ rows' = rows /\ delivered' = delivered \cup {k}
  BY DEF Receive
<1>2. Sorted /\ OneRequest /\ PickStillFits /\ RowsLinked
  BY <1>1 DEF OrderlyInv
<1>3. k \in Nat /\ DOMAIN history \subseteq Nat /\ delivered \subseteq DOMAIN history
  BY HistoryFacts DEF FollowupInv
<1>4. \A i \in delivered : i < k
  BY <1>1, <1>3
<1>5. PICK S \in SUBSET (DOMAIN history) : S = delivered
  BY <1>3
<1>6. Settled = S
  <2>1. \A g \in Handlers : handler[g].step # "update"
    BY <1>1 DEF Idle
  <2> QED BY <1>5, <2>1, SettledFacts DEF Settled
<1>7. NextEvent(S, k)
  BY <1>2, <1>4, <1>5, <1>6 DEF NextEvent, RowsLinked
<1>8. /\ handler' \in [Handlers -> Request \cup {Idle}]
      /\ \A g \in Handlers \ {h} : handler'[g] = Idle
      /\ handler'[h] # Idle => handler'[h].at = k
      /\ \/ /\ handler'[h].step = "update"
            /\ handler'[h].candidate \in Candidates(history[k])
         \/ /\ handler'[h].step # "update"
            /\ Candidates(history[k]) = {}
  <2>1. handler' \in [Handlers -> Request \cup {Idle}]
    BY ReceiveInv DEF FollowupInv
  <2>2. CASE \E r \in LatestFirst(history[k]) :
                handler' = [handler EXCEPT ![h] = [at |-> k, step |-> "update", candidate |-> r]]
    <3>1. PICK r \in Candidates(history[k]) :
            handler' = [handler EXCEPT ![h] = [at |-> k, step |-> "update", candidate |-> r]]
      BY <2>2 DEF LatestFirst
    <3>2. /\ handler'[h] = [at |-> k, step |-> "update", candidate |-> r]
          /\ \A g \in Handlers \ {h} : handler'[g] = Idle
      BY <1>1, <3>1 DEF FollowupInv
    <3> QED BY <2>1, <3>2
  <2>3. CASE LatestFirst(history[k]) = {} /\ handler' = [handler EXCEPT ![h] = ThenCreate(k)]
    <3>1. /\ handler'[h] = ThenCreate(k)
          /\ \A g \in Handlers \ {h} : handler'[g] = Idle
      BY <1>1, <2>3 DEF FollowupInv
    <3>2. Candidates(history[k]) = {}
      <4> SUFFICES ASSUME NEW c \in Candidates(history[k]) PROVE FALSE
        OBVIOUS
      <4>1. \A q \in Candidates(history[k]) : q = c
        BY <1>2, <1>7, OneCandidate
      <4>2. c \in Runs /\ c <= c
        BY FollowupAssumption DEF Candidates, FollowupInv, Runs
      <4>3. c \in LatestFirst(history[k])
        BY <4>1, <4>2 DEF LatestFirst
      <4> QED BY <2>3, <4>3
    <3>3. handler'[h] # Idle => handler'[h].at = k
      BY <3>1, ThenCreateType
    <3>4. handler'[h].step # "update"
      BY <3>1, ThenCreateType DEF Idle
    <3> QED BY <2>1, <3>1, <3>2, <3>3, <3>4
  <2> QED BY <2>2, <2>3 DEF Receive
<1>9. \A g \in Handlers \ {h} : handler'[g].step # "update"
  BY <1>8 DEF Idle
<1>10. Sorted'
  BY <1>1, <1>2 DEF Sorted
<1>11. OneRequest'
  <2>1. k <= k
    BY <1>3
  <2> QED BY <1>1, <1>3, <1>4, <1>8, <2>1 DEF OneRequest
<1>12. PickStillFits'
  <2> SUFFICES ASSUME NEW g \in Handlers, handler'[g].step = "update"
               PROVE  handler'[g].candidate \in Candidates(history[handler[g].at])'
    BY DEF PickStillFits
  <2>1. g = h /\ handler'[h] # Idle
    BY <1>9 DEF Idle
  <2>2. handler'[h].at = k /\ handler'[h].candidate \in Candidates(history[k])
    BY <1>8, <2>1
  <2>3. Candidates(history[k])' = Candidates(history[k])
    BY <1>1 DEF Candidates, Open
  <2> QED BY <1>1, <2>1, <2>2, <2>3 DEF Candidates, Open
<1>13. RowsLinked'
  <2>1. CASE handler'[h].step = "update"
    <3>1. handler'[h].at = k
      BY <1>8, <2>1 DEF Idle
    <3>2. SettledOf(handler', delivered') = delivered' \ {handler'[h].at}
      BY <1>9, <2>1, SettledFacts
    <3>3. Settled' = S
      <4>1. k \notin delivered
        BY <1>3, <1>4
      <4> QED BY <1>1, <1>5, <3>1, <3>2, <4>1 DEF Settled
    <3>4. \A r \in DOMAIN rows : rows[r].at \in S /\ LinkedIn(S, r)
      BY <1>7 DEF NextEvent
    <3>5. \A r \in DOMAIN rows : LinkedIn(S, r)'
      BY <1>1, <3>4, LinkKept
    <3> QED BY <1>1, <3>3, <3>4, <3>5 DEF RowsLinked
  <2>2. CASE handler'[h].step # "update"
    <3>1. PICK T \in SUBSET (DOMAIN history) : T = S \cup {k}
      OBVIOUS
    <3>2. Settled' = T
      BY <1>1, <1>5, <1>9, <2>2, <3>1, SettledFacts DEF Settled
    <3>3. Candidates(history[k]) = {}
      BY <1>8, <2>2
    <3>4. \A r \in DOMAIN rows : LinkedIn(S \cup {k}, r)
      BY <1>2, <1>7, <3>3, OthersStayLinked
    <3>5. \A r \in DOMAIN rows : rows[r].at \in T /\ LinkedIn(T, r)
      BY <1>7, <3>1, <3>4 DEF NextEvent
    <3>6. \A r \in DOMAIN rows : LinkedIn(T, r)'
      BY <1>1, <3>5, LinkKept
    <3> QED BY <1>1, <3>2, <3>5, <3>6 DEF RowsLinked
  <2> QED BY <2>1, <2>2
<1> QED BY <1>10, <1>11, <1>12, <1>13

LEMMA UpdateOrderly ==
    ASSUME FollowupInv, EventsOK, OnePull, OrderlyInv, NEW h \in Handlers, Update(h)
    PROVE  OrderlyInv'
<1> SUFFICES ASSUME orderly' PROVE (Sorted /\ OneRequest /\ PickStillFits /\ RowsLinked)'
  BY DEF OrderlyInv
<1>1. PICK k \in DOMAIN history, c \in DOMAIN rows : UpdateStep(h, k, c)
  BY UpdateWrites
<1>2. /\ orderly /\ history' = history /\ delivered' = delivered
      /\ handler' = [handler EXCEPT ![h] = ThenCreate(k)]
      /\ k = handler[h].at /\ c = handler[h].candidate
      /\ DOMAIN rows' = DOMAIN rows
  BY <1>1 DEF UpdateStep
<1>3. Sorted /\ OneRequest /\ PickStillFits /\ RowsLinked
  BY <1>2 DEF OrderlyInv
<1>4. /\ handler[h].step = "update" /\ handler[h] # Idle
      /\ \A g \in Handlers \ {h} : handler[g] = Idle
      /\ k \in delivered /\ \A i \in delivered : i <= k
  BY <1>2, <1>3 DEF Update, Idle, OneRequest
<1>5. DOMAIN history \subseteq Nat /\ delivered \subseteq DOMAIN history
  BY HistoryFacts DEF FollowupInv
<1>6. PICK S \in SUBSET (DOMAIN history) : S = delivered \ {k}
  BY <1>5
<1>7. Settled = S
  <2>1. \A g \in Handlers \ {h} : handler[g].step # "update"
    BY <1>4 DEF Idle
  <2>2. SettledOf(handler, delivered) = delivered \ {handler[h].at}
    BY <1>4, <2>1, SettledFacts
  <2> QED BY <1>2, <1>6, <2>2 DEF Settled
<1>8. NextEvent(S, k)
  <2>1. \A i \in S : i < k
    BY <1>4, <1>5, <1>6
  <2> QED BY <1>3, <1>7, <2>1 DEF NextEvent, RowsLinked
<1>9. c \in Candidates(history[k])
  BY <1>2, <1>3, <1>4 DEF PickStillFits
<1>10. /\ \A g \in Handlers \ {h} : handler'[g] = Idle
       /\ handler'[h] = ThenCreate(k)
  BY <1>2, <1>4 DEF FollowupInv
<1>11. \A g \in Handlers : handler'[g].step # "update"
  BY <1>10, ThenCreateType DEF Idle
<1>12. Sorted'
  BY <1>2, <1>3 DEF Sorted
<1>13. OneRequest'
  <2>1. handler'[h] # Idle => handler'[h].at = k
    BY <1>10, ThenCreateType
  <2> QED BY <1>2, <1>4, <1>10, <2>1 DEF OneRequest
<1>14. PickStillFits'
  BY <1>11 DEF PickStillFits
<1>15. RowsLinked'
  <2>1. PICK T \in SUBSET (DOMAIN history) : T = S \cup {k}
    OBVIOUS
  <2>2. Settled' = T
    <3>1. SettledOf(handler', delivered') = delivered'
      BY <1>11, SettledFacts
    <3> QED BY <1>2, <1>4, <1>6, <2>1, <3>1 DEF Settled
  <2>3. ASSUME NEW r \in DOMAIN rows, r # c
        PROVE  rows'[r].at \in T /\ LinkedIn(T, r)'
    <3>1. r \notin Candidates(history[k])
      BY <1>3, <1>8, <1>9, <2>3, OneCandidate
    <3>2. LinkedIn(S \cup {k}, r)
      BY <1>3, <1>8, <3>1, OthersStayLinked
    <3>3. rows'[r] = rows[r] /\ rows[r].at \in T
      BY <1>1, <1>8, <2>1, <2>3 DEF UpdateStep, NextEvent
    <3> QED BY <1>2, <2>1, <3>2, <3>3, LinkKept
  <2>4. rows'[c].at \in T /\ LinkedIn(T, c)'
    <3>1. /\ rows'[c].at = rows[c].at
          /\ rows'[c].resolution = ResolutionBy(history[k], k)
      BY <1>1, <1>9 DEF UpdateStep, Candidates
    <3>2. rows'[c].resolution # Unresolved /\ rows'[c].resolution.at = k
      BY <3>1, VerdictType
    <3>3. DecidedIn(T, rows[c].at, k)
      BY <1>3, <1>8, <1>9, <2>1, CandidateIsDecided
    <3>4. \A i : DecidedIn(T, i, k) => DecidedIn(T, i, k)'
      BY <1>2 DEF DecidedIn, AfterIn
    <3>5. rows[c].at \in T
      BY <1>8, <2>1 DEF NextEvent
    <3> QED BY <3>1, <3>2, <3>3, <3>4, <3>5 DEF LinkedIn
  <2> QED BY <1>2, <2>2, <2>3, <2>4 DEF RowsLinked
<1> QED BY <1>12, <1>13, <1>14, <1>15

LEMMA CreateOrderly ==
    ASSUME FollowupInv, OrderlyInv, NEW h \in Handlers, Create(h)
    PROVE  OrderlyInv'
<1> SUFFICES ASSUME orderly' PROVE (Sorted /\ OneRequest /\ PickStillFits /\ RowsLinked)'
  BY DEF OrderlyInv
<1>1. PICK k \in DOMAIN history : CreateStep(h, k)
  BY CreateWrites
<1>2. /\ orderly /\ history' = history /\ delivered' = delivered
      /\ handler' = [handler EXCEPT ![h] = Idle]
      /\ k = handler[h].at
  BY <1>1 DEF CreateStep
<1>3. Sorted /\ OneRequest /\ PickStillFits /\ RowsLinked
  BY <1>2 DEF OrderlyInv
<1>4. /\ handler[h].step = "create" /\ handler[h] # Idle
      /\ \A g \in Handlers \ {h} : handler[g] = Idle
      /\ k \in delivered /\ \A i \in delivered : i <= k
  BY <1>2, <1>3 DEF Create, Idle, OneRequest
<1>5. DOMAIN history \subseteq Nat /\ delivered \subseteq DOMAIN history
  BY HistoryFacts DEF FollowupInv
<1>6. PICK S \in SUBSET (DOMAIN history) : S = delivered
  BY <1>5
<1>7. \A g \in Handlers : handler'[g] = Idle /\ handler[g].step # "update"
                          /\ handler'[g].step # "update"
  BY <1>2, <1>4 DEF FollowupInv, Idle
<1>8. Settled = S /\ Settled' = S
  <2>1. SettledOf(handler, delivered) = delivered
    BY <1>7, SettledFacts
  <2>2. SettledOf(handler', delivered') = delivered'
    BY <1>7, SettledFacts
  <2> QED BY <1>2, <1>6, <2>1, <2>2 DEF Settled
<1>9. Sorted'
  BY <1>2, <1>3 DEF Sorted
<1>10. OneRequest' /\ PickStillFits'
  BY <1>7 DEF OneRequest, PickStillFits
<1>11. RowsLinked'
  <2>1. \A r \in DOMAIN rows : rows[r].at \in S /\ LinkedIn(S, r)
    BY <1>3, <1>8 DEF RowsLinked
  <2>2. \A r \in DOMAIN rows : rows'[r].at \in S /\ LinkedIn(S, r)'
    BY <1>1, <1>2, <2>1, LinkKept DEF CreateStep
  <2>3. ASSUME NEW r \in DOMAIN rows' \ DOMAIN rows
        PROVE  rows'[r].at \in S /\ LinkedIn(S, r)'
    <3>1. rows'[r].at = k /\ rows'[r].resolution = Unresolved
      BY <1>1 DEF CreateStep
    <3>2. AfterIn(S, k)' = {}
      <4>1. \A i \in S : ~ (i > k)
        BY <1>4, <1>5, <1>6
      <4> QED BY <4>1 DEF AfterIn
    <3> QED BY <1>4, <1>6, <3>1, <3>2 DEF LinkedIn
  <2> QED BY <1>8, <2>2, <2>3 DEF RowsLinked
<1> QED BY <1>9, <1>10, <1>11

LEMMA OrderlyNextInv ==
    ASSUME OnePull, FollowupInv, EventsOK, OrderlyInv, [FollowupNext]_followupVars
    PROVE  OrderlyInv'
<1>1. ASSUME NEW h \in Handlers, Abandon(h)
      PROVE  OrderlyInv'
  BY <1>1 DEF Abandon, OrderlyInv
<1>2. CASE UNCHANGED followupVars
  BY <1>2 DEF followupVars, OrderlyInv, Sorted, OneRequest, PickStillFits, RowsLinked,
              Settled, SettledOf, LinkedIn, DecidedIn, AfterIn, Candidates, Open
<1> QED BY <1>1, <1>2, CompleteOrderly, ReceiveOrderly, UpdateOrderly, CreateOrderly
        DEF FollowupNext

(***************************************************************************)
(* While the runs of a branch end in the order they started and each is    *)
(* delivered once, in order, to a handler that finishes before the next,   *)
(* every failure is linked with exactly the run the reference definition   *)
(* names: for any number of runs, re-runs and branches, provided GitHub    *)
(* names at most one pull request per branch.  At every delivery at most   *)
(* one row is a candidate, so ORDER BY ... LIMIT 1 has no choice to make.  *)
(***************************************************************************)
THEOREM LinkedToNextRunCorrect ==
    ASSUME OnePull
    PROVE  FollowupSpec => []LinkedToNextRun
<1>1. FollowupInit => EventsOK /\ OrderlyInv
  <2> SUFFICES ASSUME FollowupInit PROVE EventsOK /\ OrderlyInv
    OBVIOUS
  <2>1. DOMAIN history = {} /\ DOMAIN rows = {} /\ \A h \in Handlers : handler[h] = Idle
    BY DEF FollowupInit
  <2> QED BY <2>1 DEF EventsOK, OrderlyInv, Sorted, OneRequest, PickStillFits, RowsLinked, Idle
<1>2. FollowupInv /\ EventsOK /\ OrderlyInv /\ [FollowupNext]_followupVars
        => EventsOK' /\ OrderlyInv'
  BY EventsNextInv, OrderlyNextInv
<1>3. FollowupInv /\ OrderlyInv => LinkedToNextRun
  <2> SUFFICES ASSUME FollowupInv, OrderlyInv, orderly, \A h \in Handlers : handler[h] = Idle,
                      NEW r \in DOMAIN rows
               PROVE  IF IsDecided(r)
                      THEN /\ DecidedBy(rows[r].at, rows[r].resolution.at)
                           /\ rows[r].resolution = ResolutionBy(history[rows[r].resolution.at],
                                                                rows[r].resolution.at)
                      ELSE After(rows[r].at) = {}
    BY DEF LinkedToNextRun
  <2>1. Settled = delivered
    BY DEF Settled, SettledOf, Idle
  <2>2. LinkedIn(delivered, r)
    BY <2>1 DEF OrderlyInv, RowsLinked
  <2>3. \A i : AfterIn(delivered, i) = After(i)
    BY DEF After, AfterIn
  <2>4. CASE ~ IsDecided(r)
    BY <2>2, <2>3, <2>4 DEF IsDecided, LinkedIn
  <2>5. CASE IsDecided(r)
    <3>1. DecidedIn(delivered, rows[r].at, rows[r].resolution.at)
      BY <2>2, <2>5 DEF IsDecided, LinkedIn
    <3>2. DecidedBy(rows[r].at, rows[r].resolution.at)
      BY <2>3, <3>1 DEF DecidedIn, DecidedBy
    <3>3. rows[r].resolution = ResolutionBy(history[rows[r].resolution.at],
                                            rows[r].resolution.at)
      BY <2>5 DEF IsDecided, FollowupInv, RowOK
    <3> QED BY <2>5, <3>2, <3>3
  <2> QED BY <2>4, <2>5
<1> QED BY <1>1, <1>2, <1>3, FollowupInvariant, PTL DEF FollowupSpec


=============================================================================
