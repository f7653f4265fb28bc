---------------------------- MODULE AnalysisHistory ----------------------------
(***************************************************************************)
(* The analysis history: list_page of the store and the cursor of the API  *)
(* (store.py, main.py) with the dashboard that reads it (App.tsx).  The    *)
(* dashboard polls the first rows again and again, appends older pages on  *)
(* demand and changes filters, and its requests overlap; meanwhile rows    *)
(* are inserted and change status.                                         *)
(*                                                                         *)
(* The status of a row stands for everything a filter looks at.  The API   *)
(* encodes a cursor as text and decodes it back: what matters of it is the *)
(* pair (created_at, run_id) it carries.                                   *)
(***************************************************************************)
EXTENDS Integers, Sequences, SequencesExt, FiniteSets

CONSTANTS
    NumRuns,      \* run ids are 1 .. NumRuns
    Times,        \* values of created_at
    Statuses,     \* what a filter can ask for
    PageSize,     \* rows of a page (30)
    MaxLimit,     \* rows a poll asks for at most (100)
    MaxRequests,  \* bound: requests the dashboard sends
    MaxUpsets     \* bound: status changes and failed requests

ASSUME HistoryAssumption ==
    /\ NumRuns \in Nat /\ Times \subseteq Nat
    /\ PageSize \in Nat \ {0} /\ MaxLimit \in Nat /\ PageSize <= MaxLimit
    /\ "any" \notin Statuses

Runs == 1 .. NumRuns
Filters == Statuses \cup {"any"}
NoCursor == [at |-> -1, run |-> 0]
Cursors == [at : Times, run : Runs] \cup {NoCursor}

VARIABLES
    rows,      \* the analyses table: a function from run to [at, status]
    shown,     \* analyses: the rows on the screen
    cursor,    \* nextCursor
    filter,    \* filters
    loading,
    loaded,    \* loadedCount
    newest,    \* requestSequence
    requests,  \* requests on their way, answered or not
    steady,    \* rows that matched since the page on top of the screen was read
    upsets,    \* status changes and failed requests so far
    failed     \* some request has failed

screen == <<shown, cursor, filter, loading, loaded, newest, steady>>
historyVars == <<rows, screen, requests, upsets, failed>>

\* A request of the dashboard and its answer.
Request == [id : Nat, filter : Filters, cursor : Cursors, limit : Nat, answered : BOOLEAN,
            data : Seq(Runs), next : Cursors, steady : SUBSET Runs]

HistoryInit ==
    /\ rows = <<>>
    /\ shown = <<>>
    /\ cursor = NoCursor
    /\ filter = "any"
    /\ loading = FALSE
    /\ loaded = PageSize
    /\ newest = 0
    /\ requests = {}
    /\ steady = {}
    /\ upsets = 0
    /\ failed = FALSE

-----------------------------------------------------------------------------
(* The server                                                              *)

Matches(r, f) == f = "any" \/ rows[r].status = f

\* ORDER BY created_at DESC, run_id DESC.
Newer(q, r) == rows[q].at > rows[r].at \/ (rows[q].at = rows[r].at /\ q > r)

\* Mutant: rows created at the same moment as the last one are skipped.
BeyondByTime(r, c) == c = NoCursor \/ rows[r].at < c.at

\* The WHERE clause a cursor adds.
Beyond(r, c) ==
    \/ c = NoCursor
    \/ rows[r].at < c.at
    \/ rows[r].at = c.at /\ r < c.run

Selected(f, c) == {r \in DOMAIN rows : Matches(r, f) /\ Beyond(r, c)}

\* The ORDER BY of the statement.
Sorted(S) ==
    CHOOSE s \in [1 .. Cardinality(S) -> S] :
        /\ \A r \in S : \E i \in DOMAIN s : s[i] = r
        /\ \A i, j \in DOMAIN s : i < j => Newer(s[i], s[j])

FirstRows(s, n) == SubSeq(s, 1, IF n < Len(s) THEN n ELSE Len(s))

\* list_page: limit + 1 rows are read to learn whether there are more.
Page(f, c, limit) ==
    LET read == FirstRows(Sorted(Selected(f, c)), limit + 1)
        data == FirstRows(read, limit)
    IN [data |-> data,
        next |-> IF Len(read) > limit
                 THEN [at |-> rows[data[limit]].at, run |-> data[limit]]
                 ELSE NoCursor]

\* create_if_absent, by an API replica whose clock may lag behind another's.
Insert(r, at, status) ==
    /\ r \notin DOMAIN rows
    /\ rows' = [q \in DOMAIN rows \cup {r} |->
                  IF q = r THEN [at |-> at, status |-> status] ELSE rows[q]]
    /\ UNCHANGED <<screen, requests, upsets, failed>>

\* An analysis progresses; a row that changes is no longer steady.
ChangeStatus(r, status) ==
    /\ upsets < MaxUpsets
    /\ r \in DOMAIN rows
    /\ rows[r].status # status
    /\ rows' = [rows EXCEPT ![r].status = status]
    /\ steady' = steady \ {r}
    /\ requests' = {[q EXCEPT !.steady = @ \ {r}] : q \in requests}
    /\ upsets' = upsets + 1
    /\ UNCHANGED <<shown, cursor, filter, loading, loaded, newest, failed>>

\* The API answers a request; the answer is on its way.
Serve(q) ==
    /\ q \in requests
    /\ ~q.answered
    /\ LET page == Page(q.filter, q.cursor, q.limit) IN
        requests' = (requests \ {q}) \cup
            {[q EXCEPT !.answered = TRUE, !.data = page.data, !.next = page.next,
                       !.steady = Selected(q.filter, NoCursor)]}
    /\ UNCHANGED <<rows, screen, upsets, failed>>

-----------------------------------------------------------------------------
(* The dashboard                                                           *)

\* loadAnalyses up to its fetch.
Send(f, c, limit) ==
    /\ newest < MaxRequests
    /\ newest' = newest + 1
    /\ loading' = TRUE
    /\ requests' = requests \cup
        {[id |-> newest + 1, filter |-> f, cursor |-> c, limit |-> limit,
          answered |-> FALSE, data |-> <<>>, next |-> NoCursor, steady |-> {}]}
    /\ UNCHANGED <<rows, shown, cursor, steady, upsets, failed>>

\* The effect that runs when the filters change, and at the start.
ChangeFilter(f) ==
    /\ f # filter \/ newest = 0
    /\ filter' = f
    /\ loaded' = PageSize
    /\ Send(f, NoCursor, PageSize)

\* The interval: as many rows as were loaded, within the API's limit.
Poll ==
    /\ newest > 0
    /\ LET wanted == IF loaded > PageSize THEN loaded ELSE PageSize IN
        Send(filter, NoCursor, IF wanted < MaxLimit THEN wanted ELSE MaxLimit)
    /\ UNCHANGED <<filter, loaded>>

\* The button below the list, which is disabled while a request is loading.
LoadMore ==
    /\ cursor # NoCursor
    /\ ~loading
    /\ Send(filter, cursor, PageSize)
    /\ UNCHANGED <<filter, loaded>>

\* Mutant: the answer of an overtaken request is used as well.
UsedAlways(q) == TRUE

\* requestId === requestSequence.current.
Used(q) == q.id = newest

\* data.filter: the rows of an appended page that are not shown yet.
NotShown(data) ==
    LET Kept[i \in 0 .. Len(data)] ==
            IF i = 0 THEN <<>>
            ELSE IF data[i] \in ToSet(shown) THEN Kept[i - 1]
            ELSE Append(Kept[i - 1], data[i])
    IN Kept[Len(data)]

Deliver(q) ==
    /\ q \in requests
    /\ q.answered
    /\ requests' = requests \ {q}
    /\ IF ~Used(q)
       THEN UNCHANGED <<shown, cursor, loaded, loading, steady>>
       ELSE /\ IF q.cursor = NoCursor
               THEN /\ shown' = q.data
                    /\ loaded' = Len(q.data)
                    /\ steady' = q.steady
               ELSE /\ shown' = shown \o NotShown(q.data)
                    /\ loaded' = loaded + Len(q.data)
                    /\ UNCHANGED steady
            /\ cursor' = q.next
            /\ loading' = FALSE
    /\ UNCHANGED <<rows, filter, newest, upsets, failed>>

\* fetch rejects, or the answer is not ok: what is on the screen stays.
Fail(q) ==
    /\ upsets < MaxUpsets
    /\ q \in requests
    /\ requests' = requests \ {q}
    /\ upsets' = upsets + 1
    /\ failed' = TRUE
    /\ loading' = (loading /\ q.id # newest)
    /\ UNCHANGED <<rows, shown, cursor, filter, loaded, newest, steady>>

-----------------------------------------------------------------------------

HistoryNext ==
    \/ \E r \in Runs, at \in Times, status \in Statuses : Insert(r, at, status)
    \/ \E r \in Runs, status \in Statuses : ChangeStatus(r, status)
    \/ \E f \in Filters : ChangeFilter(f)
    \/ Poll
    \/ LoadMore
    \/ \E q \in requests : Serve(q) \/ Deliver(q) \/ Fail(q)

HistorySpec == HistoryInit /\ [][HistoryNext]_historyVars

-----------------------------------------------------------------------------
(* Properties                                                              *)

(***************************************************************************)
(* Unless a request failed, the screen skips nothing: a row that was there *)
(* when its top was read and has matched ever since is shown, or lies      *)
(* beyond the cursor and will be (decisions.md D-016: the traversal is     *)
(* stable).                                                                *)
(***************************************************************************)
NoGap ==
    ~failed => \A r \in steady :
        r \in ToSet(shown) \/ (cursor # NoCursor /\ Beyond(r, cursor))

(***************************************************************************)
(* The rows on the screen are strictly in order, newest first, so none is  *)
(* shown twice, whatever polls, appended pages and changes of the filter   *)
(* overlap and whichever of them fail.                                     *)
(***************************************************************************)
NewestFirst ==
    \A i, j \in DOMAIN shown : i < j => Newer(shown[i], shown[j])

=============================================================================
