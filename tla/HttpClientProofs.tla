--------------------------- MODULE HttpClientProofs ---------------------------
(***************************************************************************)
(* The two clients of HTTP.  First the retry loop of outgoing requests,    *)
(* for every policy, method and behaviour of the server.  Then the         *)
(* dashboard with its overlapping requests, for every table, page size and *)
(* number of requests.                                                     *)
(***************************************************************************)
EXTENDS HttpRetry, AnalysisHistory, FiniteSetTheorems, SequenceTheorems, WellFoundedInduction, TLAPS

-----------------------------------------------------------------------------
(* Retry                                                                   *)

\* A delay cut at a bound is a natural number within it.
LEMMA AtMostBound ==
    ASSUME NEW d \in Nat, NEW bound \in Nat
    PROVE  AtMost(d, bound) \in Nat /\ AtMost(d, bound) <= bound
BY DEF AtMost

\* The jitter never shortens a delay.
LEMMA JitterNat ==
    ASSUME NEW d \in Nat
    PROVE  Jitter(d) \subseteq Nat
BY PolicyAssumption DEF Jitter

\* _backoff_delay stays within max_delay_seconds.
LEMMA BackoffBound ==
    ASSUME attempt \in 1 .. MaxTries
    PROVE  \A d \in BackoffDelays : d \in Nat /\ d <= MaxDelay
<1> DEFINE base == AtMost(BaseDelay * 2 ^ (attempt - 1), MaxDelay)
<1>1. attempt - 1 \in 0 .. MaxTries
  BY PolicyAssumption
<1>2. BaseDelay * 2 ^ (attempt - 1) \in Nat
  <2>1. 2 ^ (attempt - 1) \in Nat
    BY <1>1, PowerAssumption
  <2> HIDE DEF base
  <2> QED BY <2>1, PolicyAssumption
<1>3. base \in Nat
  BY <1>2, AtMostBound, PolicyAssumption
<1> HIDE DEF base
<1>4. ASSUME NEW j \in Jitter(base)
      PROVE  AtMost(base + j, MaxDelay) \in Nat /\ AtMost(base + j, MaxDelay) <= MaxDelay
  <2>1. base + j \in Nat
    BY <1>3, JitterNat
  <2> QED BY <2>1, AtMostBound, PolicyAssumption
<1> QED BY <1>4 DEF BackoffDelays, base

\* _response_delay stays within max_delay_seconds and honours the header.
LEMMA ResponseBound ==
    ASSUME attempt \in 1 .. MaxTries,
           NEW reply \in Replies, NEW asked \in AskedDelays \cup {NoDelay},
           NEW d \in ResponseDelays(reply, asked)
    PROVE  /\ d \in Nat
           /\ d <= MaxDelay
           /\ asked # NoDelay => d >= asked
<1>1. CASE asked # NoDelay
  <2>1. asked \in Nat
    BY <1>1, PolicyAssumption
  <2>2. PICK j \in Jitter(BaseDelay) : asked <= MaxDelay /\ d = AtMost(asked + j, MaxDelay)
    BY <1>1 DEF ResponseDelays
  <2>3. j \in Nat
    BY JitterNat, PolicyAssumption
  <2>4. AtMost(asked + j, MaxDelay) >= asked
    BY <2>1, <2>2, <2>3, PolicyAssumption DEF AtMost
  <2>5. AtMost(asked + j, MaxDelay) \in Nat /\ AtMost(asked + j, MaxDelay) <= MaxDelay
    <3>1. asked + j \in Nat
      BY <2>1, <2>3
    <3> QED BY <3>1, AtMostBound, PolicyAssumption
  <2> QED BY <2>2, <2>4, <2>5
<1>2. CASE asked = NoDelay /\ reply = "forbidden"
  BY <1>2, PolicyAssumption DEF ResponseDelays
<1>3. CASE asked = NoDelay /\ reply # "forbidden"
  BY <1>3, BackoffBound DEF ResponseDelays
<1> QED BY <1>1, <1>2, <1>3

-----------------------------------------------------------------------------

(***************************************************************************)
(* The inductive invariant: the properties, and for a sleeping call that   *)
(* the delay it sleeps is bounded and long enough.                         *)
(***************************************************************************)
RetryInv ==
    /\ RetryTypeOK
    /\ NeverEarly
    /\ BoundedWait
    /\ LostWriteIsNotRepeated
    /\ phase = "sleep" =>
        /\ attempt < MaxTries
        /\ delay <= MaxDelay
        /\ clock + delay >= notBefore
        /\ unknown => method \in Idempotent

\* Sleeping one bounded delay more keeps a call within one more bound.
LEMMA OneMoreDelay ==
    ASSUME NEW a \in Nat \ {0}, NEW m \in Nat, NEW c \in Nat, NEW d \in Nat,
           c <= (a - 1) * m, d <= m
    PROVE  c + d <= a * m
<1>1. a * m = (a - 1) * m + m
  OBVIOUS
<1>2. (a - 1) * m \in Nat
  OBVIOUS
<1> QED BY <1>1, <1>2

\* Sleeping never brings a call nearer to an instant already behind it.
LEMMA StillLate ==
    ASSUME NEW c \in Nat, NEW d \in Nat, NEW n \in Nat, n <= c
    PROVE  c + d >= n
OBVIOUS

LEMMA RetryInitInv == RetryInit => RetryInv
<1> SUFFICES ASSUME RetryInit PROVE RetryInv
  OBVIOUS
<1>1. RetryTypeOK
  <2>1. attempt \in 1 .. MaxTries /\ delay \in Nat /\ clock \in Nat /\ notBefore \in Nat
    BY PolicyAssumption DEF RetryInit
  <2>2. /\ method \in Methods /\ retry403 \in BOOLEAN /\ unknown \in BOOLEAN
        /\ phase \in {"send", "sleep", "returned", "raised"}
    BY Zenon DEF RetryInit
  <2> QED BY <2>1, <2>2, Zenon DEF RetryTypeOK
<1>2. NeverEarly /\ LostWriteIsNotRepeated /\ phase # "sleep"
  BY DEF RetryInit, NeverEarly, LostWriteIsNotRepeated
<1>3. BoundedWait
  <2>1. (1 - 1) * MaxDelay = 0
    BY PolicyAssumption
  <2> QED BY <2>1 DEF RetryInit, BoundedWait
<1> QED BY <1>1, <1>2, <1>3 DEF RetryInv

LEMMA LostInv == RetryInv /\ Lost => RetryInv'
<1> SUFFICES ASSUME RetryInv, Lost PROVE RetryInv'
  OBVIOUS
<1> USE DEF RetryInv
<1>1. /\ attempt \in 1 .. MaxTries /\ attempt \in Nat \ {0} /\ clock \in Nat
      /\ method \in Methods /\ retry403 \in BOOLEAN /\ notBefore \in Nat
      /\ delay \in Nat /\ phase = "send" /\ clock >= notBefore
      /\ clock <= (attempt - 1) * MaxDelay
      /\ UNCHANGED <<method, retry403, attempt, clock, notBefore>> /\ unknown' = TRUE
  BY PolicyAssumption DEF RetryTypeOK, NeverEarly, BoundedWait, Lost
<1>2. CASE RetryableLoss /\ SleepFor(BackoffDelays)
  <2>1. phase' = "sleep" /\ delay' \in Nat /\ delay' <= MaxDelay
    BY <1>1, <1>2, BackoffBound DEF SleepFor
  <2>2. clock + delay' <= attempt * MaxDelay
    BY <1>1, <2>1, OneMoreDelay, PolicyAssumption
  <2>3. attempt < MaxTries /\ method \in Idempotent
    BY <1>2 DEF RetryableLoss
  <2>4. RetryTypeOK'
    BY <1>1, <2>1, Zenon DEF RetryTypeOK
  <2>5. NeverEarly' /\ LostWriteIsNotRepeated'
    BY <1>1, <2>1, <2>3 DEF NeverEarly, LostWriteIsNotRepeated
  <2>6. BoundedWait'
    BY <1>1, <2>1, <2>2 DEF BoundedWait
  <2>7. clock' + delay' >= notBefore'
    <3>1. /\ clock \in Nat /\ notBefore \in Nat /\ clock >= notBefore /\ delay' \in Nat
          /\ clock' = clock /\ notBefore' = notBefore
      BY <1>1, <2>1, Zenon
    <3>2. clock + delay' >= notBefore
      BY <3>1, StillLate
    <3> QED BY <3>1, <3>2, Zenon
  <2> QED BY <1>1, <2>1, <2>3, <2>4, <2>5, <2>6, <2>7
<1>3. CASE ~RetryableLoss /\ End("raised")
  BY <1>1, <1>3 DEF End, RetryTypeOK, NeverEarly, BoundedWait, LostWriteIsNotRepeated
<1> QED BY <1>2, <1>3 DEF Lost

LEMMA RepliedInv ==
    ASSUME NEW reply \in Replies, NEW asked \in AskedDelays \cup {NoDelay},
           RetryInv, Replied(reply, asked)
    PROVE  RetryInv'
<1> USE DEF RetryInv
<1>1. /\ attempt \in 1 .. MaxTries /\ attempt \in Nat \ {0} /\ clock \in Nat
      /\ method \in Methods /\ retry403 \in BOOLEAN /\ notBefore \in Nat
      /\ delay \in Nat /\ phase = "send" /\ clock >= notBefore /\ unknown \in BOOLEAN
      /\ clock <= (attempt - 1) * MaxDelay
      /\ unknown => method \in Idempotent
      /\ UNCHANGED <<method, retry403, attempt, clock, unknown>>
  BY PolicyAssumption
     DEF RetryTypeOK, NeverEarly, BoundedWait, LostWriteIsNotRepeated, Replied
<1>2. /\ notBefore' \in Nat
      /\ asked = NoDelay => notBefore' <= clock
      /\ asked # NoDelay => asked \in Nat /\ notBefore' = clock + asked
  BY <1>1, PolicyAssumption DEF Replied
<1>3. CASE attempt < MaxTries /\ SleepFor(ResponseDelays(reply, asked))
  <2>1. /\ phase' = "sleep" /\ delay' \in Nat /\ delay' <= MaxDelay
        /\ asked # NoDelay => delay' >= asked
    BY <1>1, <1>3, ResponseBound DEF SleepFor
  <2>2. clock + delay' <= attempt * MaxDelay
    BY <1>1, <2>1, OneMoreDelay, PolicyAssumption
  <2>3. clock' + delay' >= notBefore'
    <3>1. /\ clock \in Nat /\ notBefore' \in Nat /\ delay' \in Nat /\ clock' = clock
          /\ asked = NoDelay => notBefore' <= clock
          /\ asked # NoDelay => asked \in Nat /\ notBefore' = clock + asked /\ delay' >= asked
      BY <1>1, <1>2, <2>1, Zenon
    <3>2. CASE asked = NoDelay
      BY <3>1, <3>2, StillLate, Zenon
    <3>3. CASE asked # NoDelay
      BY ONLY <3>1, <3>3
    <3> QED BY <3>2, <3>3
  <2>4. RetryTypeOK'
    BY <1>1, <1>2, <2>1 DEF RetryTypeOK
  <2>5. NeverEarly'
    BY <2>1 DEF NeverEarly
  <2>6. LostWriteIsNotRepeated'
    BY <1>1, <2>1 DEF LostWriteIsNotRepeated
  <2>7. BoundedWait'
    BY <1>1, <2>1, <2>2 DEF BoundedWait
  <2> QED BY <1>1, <1>3, <2>1, <2>3, <2>4, <2>5, <2>6, <2>7
<1>4. CASE End("returned")
  <2>1. phase' = "returned" /\ delay' = delay
    BY <1>4 DEF End
  <2>2. RetryTypeOK'
    BY <1>1, <1>2, <2>1 DEF RetryTypeOK
  <2>3. NeverEarly'
    BY <2>1 DEF NeverEarly
  <2>4. BoundedWait'
    BY <1>1, <2>1 DEF BoundedWait
  <2>5. LostWriteIsNotRepeated'
    BY <1>1 DEF LostWriteIsNotRepeated
  <2> QED BY <2>1, <2>2, <2>3, <2>4, <2>5
<1> QED BY <1>3, <1>4 DEF Replied

LEMMA AwakeInv == RetryInv /\ Awake => RetryInv'
<1> SUFFICES ASSUME RetryInv, Awake PROVE RetryInv'
  OBVIOUS
<1>1. /\ attempt \in 1 .. MaxTries /\ attempt < MaxTries /\ clock \in Nat /\ delay \in Nat
      /\ clock + delay <= attempt * MaxDelay /\ clock + delay >= notBefore
      /\ unknown => method \in Idempotent
  BY DEF RetryInv, RetryTypeOK, BoundedWait, Awake
<1>2. /\ phase' = "send" /\ attempt' = attempt + 1 /\ clock' = clock + delay
      /\ UNCHANGED <<method, retry403, delay, notBefore, unknown>>
  BY DEF Awake
<1>3. attempt' \in 1 .. MaxTries /\ attempt' - 1 = attempt
  BY <1>1, <1>2, PolicyAssumption
<1>4. RetryTypeOK'
  BY <1>1, <1>2, <1>3 DEF RetryInv, RetryTypeOK
<1>5. NeverEarly'
  BY <1>1, <1>2 DEF NeverEarly
<1>6. BoundedWait'
  BY <1>1, <1>2, <1>3 DEF BoundedWait
<1>7. LostWriteIsNotRepeated'
  BY <1>1, <1>2 DEF LostWriteIsNotRepeated
<1> QED BY <1>2, <1>4, <1>5, <1>6, <1>7 DEF RetryInv

LEMMA StutterInv == RetryInv /\ UNCHANGED retryVars => RetryInv'
BY DEF RetryInv, retryVars, RetryTypeOK, NeverEarly, BoundedWait, LostWriteIsNotRepeated

\* Every call of request_with_retry keeps the invariant, whatever the policy.
THEOREM RetryInvariant == RetrySpec => []RetryInv
<1>1. RetryInv /\ [RetryNext]_retryVars => RetryInv'
  BY LostInv, RepliedInv, AwakeInv, StutterInv DEF RetryNext
<1> QED BY RetryInitInv, <1>1, PTL DEF RetrySpec

\* A server is never called earlier than its headers ask.
THEOREM RetryNeverEarly == RetrySpec => []NeverEarly
<1>1. RetryInv => NeverEarly
  BY DEF RetryInv
<1> QED BY RetryInvariant, <1>1, PTL

\* The time a call sleeps is bounded by its attempts and max_delay_seconds.
THEOREM RetryBounded == RetrySpec => []BoundedWait
<1>1. RetryInv => BoundedWait
  BY DEF RetryInv
<1> QED BY RetryInvariant, <1>1, PTL

\* A write whose reply was lost is not sent a second time.
THEOREM RetryKeepsWrites == RetrySpec => []LostWriteIsNotRepeated
<1>1. RetryInv => LostWriteIsNotRepeated
  BY DEF RetryInv
<1> QED BY RetryInvariant, <1>1, PTL

-----------------------------------------------------------------------------
(* History and dashboard                                                   *)

Listed(s, r) == \E i \in DOMAIN s : s[i] = r

\* Rows of the table, newest first.
ListOK(s) ==
    /\ s \in Seq(DOMAIN rows)
    /\ \A i, j \in DOMAIN s : i < j => Newer(s[i], s[j])

\* A cursor is the place of a row, which keeps its place.
CursorOK(c) == c # NoCursor => /\ c \in [at : Times, run : DOMAIN rows]
                               /\ c.at = rows[c.run].at

\* The cursor is not above a row of the list.
EndsAt(s, c) == c # NoCursor => \A i \in DOMAIN s : ~Beyond(s[i], c)

\* The rows S are on the page of an answer or beyond its cursor.
Covers(q, S) ==
    \A r \in S : Beyond(r, q.cursor) =>
        Listed(q.data, r) \/ (q.next # NoCursor /\ Beyond(r, q.next))

RowsOK ==
    /\ DOMAIN rows \subseteq Runs
    /\ \A r \in DOMAIN rows : rows[r] \in [at : Times, status : Statuses]

ScreenOK ==
    /\ ListOK(shown) /\ CursorOK(cursor) /\ EndsAt(shown, cursor)
    /\ filter \in Filters
    /\ loading \in BOOLEAN /\ loaded \in Nat /\ newest \in Nat
    /\ steady \subseteq DOMAIN rows

\* What an answer says stays true while it is on its way.
AnswerOK(q) ==
    /\ q \in Request /\ q.limit >= 1
    /\ CursorOK(q.cursor) /\ CursorOK(q.next)
    /\ ListOK(q.data) /\ EndsAt(q.data, q.next)
    /\ \A i \in DOMAIN q.data : Beyond(q.data[i], q.cursor)
    /\ q.next # NoCursor => Beyond(q.next.run, q.cursor)
    /\ q.steady \subseteq DOMAIN rows
    /\ \A r \in q.steady : Matches(r, q.filter)
    /\ q.answered /\ q.cursor = NoCursor => Covers(q, q.steady)

\* The request whose answer will be used continues what is on the screen.
CurrentOK(q) ==
    /\ q.id <= newest
    /\ q.id = newest => q.filter = filter /\ (q.cursor # NoCursor => q.cursor = cursor)

HistoryInv ==
    /\ RowsOK /\ ScreenOK
    /\ \A q \in requests : AnswerOK(q) /\ CurrentOK(q)
    /\ \A p, q \in requests : p.id = q.id => p = q

(***************************************************************************)
(* Until a request fails: the steady rows match the filter whenever the    *)
(* next page can be asked for, so the next page has them.                  *)
(***************************************************************************)
GapInv ==
    ~failed =>
        /\ \A r \in steady : Listed(shown, r) \/ (cursor # NoCursor /\ Beyond(r, cursor))
        /\ ~loading => \A r \in steady : Matches(r, filter)
        /\ \A q \in requests : q.id = newest /\ q.cursor # NoCursor =>
            /\ \A r \in steady : Matches(r, filter)
            /\ q.answered => Covers(q, steady)
-----------------------------------------------------------------------------
(* The order of the rows                                                   *)

\* Every set of naturals that is not empty has a least element.
LEMMA LeastNumber ==
    ASSUME NEW I \in SUBSET Nat, I # {}
    PROVE  \E x \in I : \A y \in I : x <= y
<1> DEFINE R == {p \in Nat \X Nat : p[1] < p[2]}
<1>1. OpToRel(<, Nat) = R
  BY DEF OpToRel
<1>2. IsWellFoundedOn(R, Nat)
  BY <1>1, NatLessThanWellFounded
<1>3. PICK x \in I : \A y \in I : ~(<<y, x>> \in R)
  <2> HIDE DEF R
  <2> QED BY <1>2, WFMin
<1>4. \A y \in I : x <= y
  <2> TAKE y \in I
  <2>1. x \in Nat /\ y \in Nat
    OBVIOUS
  <2>2. ~(y < x)
    BY <1>3, <2>1
  <2> QED BY <2>1, <2>2
<1> QED BY <1>4

LEMMA RowFacts ==
    ASSUME RowsOK
    PROVE  \A r \in DOMAIN rows : r \in Nat /\ rows[r].at \in Nat /\ rows[r].at \in Times
<1> TAKE r \in DOMAIN rows
<1>1. r \in 1 .. NumRuns /\ rows[r] \in [at : Times, status : Statuses]
  BY DEF RowsOK, Runs
<1>2. r \in Nat
  BY <1>1, HistoryAssumption
<1>3. rows[r].at \in Times
  BY <1>1
<1> QED BY <1>2, <1>3, HistoryAssumption

\* A set of rows has an oldest one: the least run id of the least time.
LEMMA OldestRow ==
    ASSUME RowsOK, NEW S \in SUBSET DOMAIN rows, S # {}
    PROVE  \E m \in S : \A r \in S \ {m} : Newer(r, m)
<1>1. \A r \in S : r \in Nat /\ rows[r].at \in Nat
  BY RowFacts
<1>2. PICK t \in {rows[r].at : r \in S} : \A u \in {rows[r].at : r \in S} : t <= u
  <2>1. {rows[r].at : r \in S} \in SUBSET Nat /\ {rows[r].at : r \in S} # {}
    BY <1>1
  <2> QED BY <2>1, LeastNumber
<1>3. PICK m \in {r \in S : rows[r].at = t} : \A r \in {q \in S : rows[q].at = t} : m <= r
  <2>1. {r \in S : rows[r].at = t} \in SUBSET Nat /\ {r \in S : rows[r].at = t} # {}
    BY <1>1, <1>2
  <2> QED BY <2>1, LeastNumber
<1>4. ASSUME NEW r \in S \ {m}
      PROVE  Newer(r, m)
  <2>1. /\ rows[r].at \in Nat /\ rows[m].at = t /\ t \in Nat /\ t <= rows[r].at
        /\ r \in Nat /\ m \in Nat /\ r # m
    BY <1>1, <1>2, <1>3
  <2>2. rows[r].at = t => m <= r
    BY <1>3
  <2> QED BY <2>1, <2>2 DEF Newer
<1> QED BY <1>3, <1>4

\* s is the set S in the order of the statement.
InOrder(s, S) ==
    /\ s \in [1 .. Cardinality(S) -> S]
    /\ \A r \in S : \E i \in DOMAIN s : s[i] = r
    /\ \A i, j \in DOMAIN s : i < j => Newer(s[i], s[j])

\* The oldest row comes last.
LEMMA OldestLast ==
    ASSUME NEW S, IsFiniteSet(S), NEW m \in S, \A r \in S \ {m} : Newer(r, m),
           NEW t, InOrder(t, S \ {m})
    PROVE  \E s : InOrder(s, S)
<1>1. PICK n \in Nat : Cardinality(S \ {m}) = n /\ Cardinality(S) = n + 1
  <2>1. /\ IsFiniteSet(S \ {m}) /\ Cardinality(S \ {m}) = Cardinality(S) - 1
        /\ Cardinality(S) \in Nat
    BY FS_RemoveElement, FS_CardinalityType
  <2>2. Cardinality(S \ {m}) \in Nat
    BY <2>1, FS_CardinalityType
  <2> QED BY <2>1, <2>2
<1> DEFINE s == [i \in 1 .. n + 1 |-> IF i = n + 1 THEN m ELSE t[i]]
<1>2. DOMAIN t = 1 .. n /\ \A i \in 1 .. n : t[i] \in S \ {m}
  BY <1>1 DEF InOrder
<1>3. s \in [1 .. n + 1 -> S]
  BY <1>2
<1>4. \A r \in S : \E i \in DOMAIN s : s[i] = r
  <2> TAKE r \in S
  <2>1. CASE r = m
    BY <2>1
  <2>2. CASE r # m
    <3>1. PICK i \in 1 .. n : t[i] = r
      BY <1>2, <2>2 DEF InOrder
    <3>2. i \in DOMAIN s /\ s[i] = r
      BY <3>1
    <3> QED BY <3>2
  <2> QED BY <2>1, <2>2
<1>5. \A i, j \in DOMAIN s : i < j => Newer(s[i], s[j])
  <2> SUFFICES ASSUME NEW i \in 1 .. n + 1, NEW j \in 1 .. n + 1, i < j
               PROVE  Newer(s[i], s[j])
    OBVIOUS
  <2>1. i \in 1 .. n /\ s[i] = t[i] /\ t[i] \in S \ {m}
    BY <1>2
  <2>2. CASE j = n + 1
    BY <2>1, <2>2
  <2>3. CASE j # n + 1
    <3>1. j \in 1 .. n /\ s[j] = t[j]
      BY <2>3
    <3> QED BY <1>2, <2>1, <3>1 DEF InOrder
  <2> QED BY <2>2, <2>3
<1> HIDE DEF s
<1> QED BY <1>1, <1>3, <1>4, <1>5 DEF InOrder

\* A least set without an order would have an oldest row, and be ordered by it.
LEMMA OrderExists ==
    ASSUME RowsOK, NEW S \in SUBSET DOMAIN rows, IsFiniteSet(S)
    PROVE  \E s : InOrder(s, S)
<1> DEFINE Ordered(T) == \E s : InOrder(s, T)
<1> DEFINE Bad == {n \in Nat : \E T \in SUBSET DOMAIN rows :
                        IsFiniteSet(T) /\ Cardinality(T) = n /\ ~Ordered(T)}
<1> SUFFICES ASSUME ~Ordered(S) PROVE FALSE
  OBVIOUS
<1> HIDE DEF Ordered
<1>1. Cardinality(S) \in Bad
  BY FS_CardinalityType
<1>2. PICK n \in Bad : \A k \in Bad : n <= k
  BY <1>1, LeastNumber
<1>3. PICK T \in SUBSET DOMAIN rows : IsFiniteSet(T) /\ Cardinality(T) = n /\ ~Ordered(T)
  OBVIOUS
<1>4. CASE T = {}
  <2>1. Cardinality(T) = 0
    BY <1>4, FS_EmptySet
  <2>2. InOrder(<<>>, T)
    BY <1>4, <2>1 DEF InOrder
  <2> QED BY <1>3, <2>2 DEF Ordered
<1>5. CASE T # {}
  <2>1. PICK m \in T : \A r \in T \ {m} : Newer(r, m)
    BY <1>5, OldestRow
  <2>2. IsFiniteSet(T \ {m}) /\ Cardinality(T \ {m}) = n - 1
    BY <1>3, FS_RemoveElement
  <2>3. Cardinality(T \ {m}) \in Nat
    BY <2>2, FS_CardinalityType
  <2>4. n - 1 \notin Bad
    BY <1>2, <2>2, <2>3
  <2>5. Ordered(T \ {m})
    BY <2>2, <2>3, <2>4
  <2> QED BY <1>3, <2>1, <2>5, OldestLast DEF Ordered
<1> QED BY <1>4, <1>5

\* What ORDER BY returns.
LEMMA SortedRows ==
    ASSUME RowsOK, NEW S \in SUBSET DOMAIN rows
    PROVE  InOrder(Sorted(S), S) /\ Cardinality(S) \in Nat
<1>1. IsFiniteSet(Runs)
  BY FS_Interval, HistoryAssumption DEF Runs
<1>2. IsFiniteSet(S)
  BY <1>1, FS_Subset DEF RowsOK
<1>3. \E s : InOrder(s, S)
  BY <1>2, OrderExists
<1>4. Sorted(S) = CHOOSE s : InOrder(s, S)
  BY DEF Sorted, InOrder
<1> QED BY <1>2, <1>3, <1>4, FS_CardinalityType

-----------------------------------------------------------------------------
(* A page                                                                  *)

\* The first rows of an ordered list.
LEMMA FirstRowsOf ==
    ASSUME NEW X, NEW s \in Seq(X), NEW n \in Nat
    PROVE  /\ FirstRows(s, n) \in Seq(X)
           /\ Len(FirstRows(s, n)) = IF n < Len(s) THEN n ELSE Len(s)
           /\ DOMAIN FirstRows(s, n) \subseteq DOMAIN s
           /\ \A i \in DOMAIN FirstRows(s, n) : FirstRows(s, n)[i] = s[i]
<1>1. PICK k \in Nat : k = (IF n < Len(s) THEN n ELSE Len(s)) /\ k <= Len(s)
  BY LenProperties
<1>2. FirstRows(s, n) = SubSeq(s, 1, k)
  BY <1>1 DEF FirstRows
<1>3. /\ SubSeq(s, 1, k) \in Seq(X)
      /\ Len(SubSeq(s, 1, k)) = k
      /\ \A i \in 1 .. k : SubSeq(s, 1, k)[i] = s[i]
  BY <1>1, SubSeqProperties, LenProperties
<1>4. DOMAIN SubSeq(s, 1, k) = 1 .. k /\ DOMAIN s = 1 .. Len(s)
  BY <1>3, LenProperties
<1>5. 1 .. k \subseteq 1 .. Len(s)
  BY <1>1, LenProperties
<1>6. Len(SubSeq(s, 1, k)) = IF n < Len(s) THEN n ELSE Len(s)
  BY <1>1, <1>3
<1> HIDE DEF FirstRows
<1> QED BY <1>2, <1>3, <1>4, <1>5, <1>6

LEMMA SelectedRows ==
    ASSUME NEW f, NEW c
    PROVE  Selected(f, c) \in SUBSET DOMAIN rows
  BY DEF Selected

(***************************************************************************)
(* list_page returns matching rows beyond the cursor in order, and says    *)
(* where to go on if there are more: every matching row beyond the cursor  *)
(* is on the page or beyond the next cursor.                               *)
(***************************************************************************)
LEMMA PageOf ==
    ASSUME RowsOK, NEW f, NEW c, NEW limit \in Nat, limit >= 1, NEW data, NEW next,
           data = Page(f, c, limit).data, next = Page(f, c, limit).next
    PROVE  /\ data \in Seq(Selected(f, c))
           /\ \A i, j \in DOMAIN data : i < j => Newer(data[i], data[j])
           /\ next # NoCursor =>
                /\ limit \in DOMAIN data /\ Len(data) = limit
                /\ next = [at |-> rows[data[limit]].at, run |-> data[limit]]
           /\ \A r \in Selected(f, c) :
                Listed(data, r) \/ (next # NoCursor /\ Beyond(r, next))
<1> DEFINE S == Selected(f, c)
<1>1. S \in SUBSET DOMAIN rows
  BY SelectedRows
<1> HIDE DEF S
<1>2. PICK n \in Nat : n = Cardinality(S)
  BY <1>1, SortedRows
<1>3. PICK s : s = Sorted(S) /\ InOrder(s, S)
  BY <1>1, SortedRows
<1>4. s \in Seq(S) /\ Len(s) = n /\ DOMAIN s = 1 .. n
  BY <1>2, <1>3 DEF InOrder
<1>5. PICK read : read = FirstRows(s, limit + 1)
  OBVIOUS
<1>6. /\ read \in Seq(S) /\ Len(read) = IF limit + 1 < n THEN limit + 1 ELSE n
      /\ \A i \in DOMAIN read : i \in DOMAIN s /\ read[i] = s[i]
  BY <1>4, <1>5, FirstRowsOf
<1>7. data = FirstRows(read, limit)
  BY <1>3, <1>5 DEF Page, S
<1>8. /\ data \in Seq(S) /\ Len(data) = IF limit < Len(read) THEN limit ELSE Len(read)
      /\ \A i \in DOMAIN data : i \in DOMAIN read /\ data[i] = read[i]
  BY <1>6, <1>7, FirstRowsOf
<1>9. next = IF Len(read) > limit
             THEN [at |-> rows[data[limit]].at, run |-> data[limit]]
             ELSE NoCursor
  BY <1>3, <1>5, <1>7 DEF Page, S
<1>10. DOMAIN data = 1 .. Len(data)
  BY <1>8
<1>11. \A i \in DOMAIN data : i \in DOMAIN s /\ data[i] = s[i]
  BY <1>6, <1>8
<1>12. \A i, j \in DOMAIN data : i < j => Newer(data[i], data[j])
  BY <1>3, <1>11 DEF InOrder
<1>13. next # NoCursor => limit \in DOMAIN data /\ Len(data) = limit
  BY <1>6, <1>8, <1>9, <1>10
<1>14. ASSUME NEW r \in S
       PROVE  Listed(data, r) \/ (next # NoCursor /\ Beyond(r, next))
  <2>1. PICK i \in 1 .. n : s[i] = r
    BY <1>3, <1>4 DEF InOrder
  <2>2. CASE i <= limit
    <3>1. i \in DOMAIN data /\ data[i] = s[i]
      BY <1>6, <1>8, <1>10, <1>11, <2>2
    <3> QED BY <2>1, <3>1 DEF Listed
  <2>3. CASE i > limit
    <3>1. Len(read) > limit /\ Len(data) = limit /\ limit \in DOMAIN data
      BY <1>6, <1>8, <1>10, <2>3
    <3>2. data[limit] = s[limit] /\ limit \in DOMAIN s /\ i \in DOMAIN s /\ limit < i
      BY <1>4, <1>11, <2>3, <3>1
    <3>3. Newer(data[limit], r)
      BY <1>3, <2>1, <3>2 DEF InOrder
    <3>4. data[limit] \in DOMAIN rows /\ r \in DOMAIN rows
      BY <1>1, <1>8, <3>1
    <3>5. next = [at |-> rows[data[limit]].at, run |-> data[limit]]
      BY <1>9, <3>1
    <3>6. next # NoCursor
      BY <3>4, <3>5, RowFacts DEF NoCursor
    <3>7. Beyond(r, next)
      BY <3>3, <3>4, <3>5, RowFacts DEF Beyond, Newer
    <3> QED BY <3>6, <3>7
  <2> QED BY <2>1, <2>2, <2>3
<1> QED BY <1>8, <1>9, <1>12, <1>13, <1>14 DEF S

-----------------------------------------------------------------------------
(* An appended page                                                        *)

\* data.filter keeps a page of which nothing is on the screen as it is.
LEMMA NothingDropped ==
    ASSUME NEW X, NEW data \in Seq(X), \A i \in DOMAIN data : data[i] \notin ToSet(shown)
    PROVE  NotShown(data) = data
<1> DEFINE n == Len(data)
           Solves(f) == f = [i \in 0 .. n |->
                                IF i = 0 THEN <<>>
                                ELSE IF data[i] \in ToSet(shown) THEN f[i - 1]
                                ELSE Append(f[i - 1], data[i])]
           p == [i \in 0 .. n |-> SubSeq(data, 1, i)]
<1>1. n \in Nat /\ DOMAIN data = 1 .. n
  BY LenProperties
<1>2. SubSeq(data, 1, 0) = <<>> /\ SubSeq(data, 1, n) = data
  BY <1>1, SubSeqEmpty, SubSeqFull
<1>3. ASSUME NEW i \in 1 .. n
      PROVE  SubSeq(data, 1, i) = Append(SubSeq(data, 1, i - 1), data[i])
  BY <1>1
<1>4. Solves(p)
  <2>1. ASSUME NEW i \in 0 .. n
        PROVE  p[i] = IF i = 0 THEN <<>>
                      ELSE IF data[i] \in ToSet(shown) THEN p[i - 1]
                      ELSE Append(p[i - 1], data[i])
    <3>1. CASE i = 0
      BY <1>2, <3>1
    <3>2. CASE i # 0
      <4>1. i \in 1 .. n /\ i - 1 \in 0 .. n
        BY <1>1, <3>2
      <4> QED BY <1>1, <1>3, <3>2, <4>1
    <3> QED BY <3>1, <3>2
  <2> QED BY <2>1
<1>5. PICK g : Solves(g) /\ NotShown(data) = g[n]
  <2> HIDE DEF p
  <2>1. NotShown(data) = (CHOOSE f : Solves(f))[n]
    BY DEF NotShown
  <2> QED BY <1>4, <2>1
<1>6. \A i \in 0 .. n : g[i] = SubSeq(data, 1, i)
  <2> DEFINE Bad == {i \in 0 .. n : g[i] # SubSeq(data, 1, i)}
  <2> SUFFICES ASSUME Bad # {} PROVE FALSE
    OBVIOUS
  <2>1. Bad \in SUBSET Nat
    BY <1>1
  <2>2. PICK i \in Bad : \A k \in Bad : i <= k
    BY <2>1, LeastNumber
  <2>3. i # 0
    BY <1>2, <1>5
  <2>4. i \in 1 .. n /\ i - 1 \in 0 .. n /\ i - 1 \notin Bad
    BY <1>1, <2>2, <2>3
  <2>5. g[i] = Append(g[i - 1], data[i])
    BY <1>1, <1>5, <2>3, <2>4
  <2>6. g[i - 1] = SubSeq(data, 1, i - 1)
    BY <2>4
  <2> QED BY <1>3, <2>2, <2>4, <2>5, <2>6
<1> HIDE DEF n, Solves
<1>7. n \in 0 .. n
  BY <1>1
<1> QED BY <1>2, <1>5, <1>6, <1>7

-----------------------------------------------------------------------------
(* Rows keep their place                                                   *)

\* Rows are added and change their status, and keep created_at.
PlacesStay ==
    /\ DOMAIN rows \subseteq DOMAIN rows'
    /\ \A r \in DOMAIN rows : rows'[r].at = rows[r].at

LEMMA BeyondStays ==
    ASSUME PlacesStay, NEW r \in DOMAIN rows, NEW c
    PROVE  Beyond(r, c)' <=> Beyond(r, c)
  BY DEF PlacesStay, Beyond

LEMMA ListStays ==
    ASSUME PlacesStay, NEW s, ListOK(s)
    PROVE  ListOK(s)' /\ \A i \in DOMAIN s : s[i] \in DOMAIN rows
<1>1. s \in Seq(DOMAIN rows) /\ s \in Seq(DOMAIN rows')
  BY DEF PlacesStay, ListOK
<1>2. \A i \in DOMAIN s : s[i] \in DOMAIN rows
  BY <1>1
<1>3. \A i, j \in DOMAIN s : i < j => Newer(s[i], s[j])'
  BY <1>2 DEF PlacesStay, ListOK, Newer
<1> QED BY <1>1, <1>2, <1>3 DEF ListOK

LEMMA CursorStays ==
    ASSUME PlacesStay, NEW c, CursorOK(c)
    PROVE  CursorOK(c)'
  BY DEF PlacesStay, CursorOK

LEMMA EndsStays ==
    ASSUME PlacesStay, NEW s, ListOK(s), NEW c, EndsAt(s, c)
    PROVE  EndsAt(s, c)'
<1>1. \A i \in DOMAIN s : s[i] \in DOMAIN rows
  BY ListStays
<1> QED BY <1>1, BeyondStays DEF EndsAt

LEMMA CoversStays ==
    ASSUME PlacesStay, NEW q, NEW S \in SUBSET DOMAIN rows, Covers(q, S)
    PROVE  Covers(q, S)'
  BY BeyondStays DEF Covers, Listed

\* An answer stays right if the rows it calls steady do not change.
LEMMA AnswerStays ==
    ASSUME PlacesStay, NEW q, AnswerOK(q),
           \A r \in q.steady : rows'[r].status = rows[r].status
    PROVE  AnswerOK(q)'
<1>1. CursorOK(q.cursor)' /\ CursorOK(q.next)'
  BY CursorStays DEF AnswerOK
<1>2. ListOK(q.data)' /\ \A i \in DOMAIN q.data : q.data[i] \in DOMAIN rows
  BY ListStays DEF AnswerOK
<1>3. EndsAt(q.data, q.next)'
  BY EndsStays DEF AnswerOK
<1>4. \A i \in DOMAIN q.data : Beyond(q.data[i], q.cursor)'
  BY <1>2, BeyondStays DEF AnswerOK
<1>5. q.next # NoCursor => Beyond(q.next.run, q.cursor)'
  <2> SUFFICES ASSUME q.next # NoCursor PROVE Beyond(q.next.run, q.cursor)'
    OBVIOUS
  <2>1. q.next.run \in DOMAIN rows
    BY DEF AnswerOK, CursorOK
  <2> QED BY <2>1, BeyondStays DEF AnswerOK
<1>6. q.steady \subseteq DOMAIN rows /\ q.steady \subseteq DOMAIN rows'
  BY DEF AnswerOK, PlacesStay
<1>7. \A r \in q.steady : Matches(r, q.filter)'
  BY DEF AnswerOK, Matches
<1>8. q.answered /\ q.cursor = NoCursor => Covers(q, q.steady)'
  BY <1>6, CoversStays DEF AnswerOK
<1>9. q \in Request /\ q.limit >= 1
  BY DEF AnswerOK
<1> QED BY <1>1, <1>2, <1>3, <1>4, <1>5, <1>6, <1>7, <1>8, <1>9 DEF AnswerOK

\* Nothing about an answer changes while the table stays.
LEMMA SameAnswer ==
    ASSUME UNCHANGED rows, NEW q, AnswerOK(q)
    PROVE  AnswerOK(q)'
<1>1. PlacesStay
  BY DEF PlacesStay
<1> QED BY <1>1, AnswerStays

\* The screen, if it does not change.
LEMMA ScreenStays ==
    ASSUME PlacesStay, ScreenOK,
           UNCHANGED <<shown, cursor, filter, loading, loaded, newest>>, steady' \subseteq steady
    PROVE  ScreenOK'
<1>1. PICK s, c : s = shown /\ c = cursor
  OBVIOUS
<1>2. ListOK(s)' /\ CursorOK(c)' /\ EndsAt(s, c)'
  BY <1>1, ListStays, CursorStays, EndsStays DEF ScreenOK
<1>3. ListOK(shown)' /\ CursorOK(cursor)' /\ EndsAt(shown, cursor)'
  BY <1>1, <1>2
<1> QED BY <1>3 DEF ScreenOK, PlacesStay

-----------------------------------------------------------------------------
(* The steps                                                               *)

LEMMA HistoryInitInv == HistoryInit => HistoryInv /\ GapInv
<1> SUFFICES ASSUME HistoryInit PROVE HistoryInv /\ GapInv
  OBVIOUS
<1>1. RowsOK
  BY DEF HistoryInit, RowsOK
<1>2. ListOK(shown) /\ CursorOK(cursor) /\ EndsAt(shown, cursor)
  BY DEF HistoryInit, ListOK, CursorOK, EndsAt
<1>3. ScreenOK
  BY <1>2, HistoryAssumption DEF HistoryInit, ScreenOK, Filters
<1> QED BY <1>1, <1>3 DEF HistoryInit, HistoryInv, GapInv

LEMMA InsertInv ==
    ASSUME HistoryInv, GapInv, NEW r \in Runs, NEW t \in Times, NEW st \in Statuses,
           Insert(r, t, st)
    PROVE  HistoryInv' /\ GapInv'
<1>1. /\ DOMAIN rows' = DOMAIN rows \cup {r}
      /\ \A q \in DOMAIN rows : rows'[q] = rows[q]
      /\ rows'[r] = [at |-> t, status |-> st]
  BY DEF Insert
<1>2. PlacesStay
  BY <1>1 DEF PlacesStay
<1>3. RowsOK'
  BY <1>1 DEF HistoryInv, RowsOK
<1>4. UNCHANGED <<screen, requests, failed>>
  BY DEF Insert
<1>5. ScreenOK'
  BY <1>2, <1>4, ScreenStays DEF HistoryInv, screen
<1>6. \A q \in requests : AnswerOK(q)'
  <2> TAKE q \in requests
  <2>1. AnswerOK(q) /\ q.steady \subseteq DOMAIN rows
    BY DEF HistoryInv, AnswerOK
  <2> QED BY <1>1, <1>2, <2>1, AnswerStays
<1>7. \A q \in requests : CurrentOK(q)'
  BY <1>4 DEF HistoryInv, CurrentOK, screen
<1>8. HistoryInv'
  BY <1>3, <1>4, <1>5, <1>6, <1>7 DEF HistoryInv
<1>9. steady \in SUBSET DOMAIN rows /\ UNCHANGED steady
  BY <1>4 DEF HistoryInv, ScreenOK, screen
<1>10. /\ \A q \in steady : \A c : Beyond(q, c)' <=> Beyond(q, c)
       /\ \A q \in steady : \A f : Matches(q, f)' <=> Matches(q, f)
  <2>1. \A q \in steady : \A f : Matches(q, f)' <=> Matches(q, f)
    BY <1>1, <1>9 DEF Matches
  <2> QED BY <1>2, <1>9, <2>1, BeyondStays
<1>11. GapInv'
  BY <1>4, <1>9, <1>10 DEF GapInv, Covers, Listed, screen
<1> QED BY <1>8, <1>11

LEMMA ChangeStatusInv ==
    ASSUME HistoryInv, GapInv, NEW r \in Runs, NEW st \in Statuses, ChangeStatus(r, st)
    PROVE  HistoryInv' /\ GapInv'
<1>1. /\ DOMAIN rows' = DOMAIN rows
      /\ \A p \in DOMAIN rows \ {r} : rows'[p] = rows[p]
      /\ rows'[r] = [rows[r] EXCEPT !.status = st] /\ r \in DOMAIN rows
  BY DEF ChangeStatus
<1>2. rows[r] \in [at : Times, status : Statuses]
  BY <1>1 DEF HistoryInv, RowsOK
<1>3. rows'[r] \in [at : Times, status : Statuses] /\ rows'[r].at = rows[r].at
  BY <1>1, <1>2
<1>4. PlacesStay
  BY <1>1, <1>3 DEF PlacesStay
<1>5. RowsOK'
  BY <1>1, <1>3 DEF HistoryInv, RowsOK
<1>6. /\ UNCHANGED <<shown, cursor, filter, loading, loaded, newest, failed>>
      /\ steady' = steady \ {r}
      /\ requests' = {[q EXCEPT !.steady = @ \ {r}] : q \in requests}
  BY DEF ChangeStatus
<1>7. ScreenOK'
  BY <1>4, <1>6, ScreenStays DEF HistoryInv
<1>8. ASSUME NEW q \in requests, NEW p, p = [q EXCEPT !.steady = @ \ {r}]
      PROVE  /\ p \in Request /\ p.steady = q.steady \ {r}
             /\ p.id = q.id /\ p.filter = q.filter /\ p.cursor = q.cursor /\ p.limit = q.limit
             /\ p.answered = q.answered /\ p.data = q.data /\ p.next = q.next
  <2>1. q \in Request
    BY DEF HistoryInv, AnswerOK
  <2> QED BY <1>8, <2>1 DEF Request
<1>9. ASSUME NEW p \in requests'
      PROVE  AnswerOK(p)' /\ CurrentOK(p)'
  <2>1. PICK q \in requests : p = [q EXCEPT !.steady = @ \ {r}]
    BY <1>6
  <2>2. AnswerOK(q) /\ CurrentOK(q)
    BY DEF HistoryInv
  <2>3. AnswerOK(p)
    <3>1. Covers(q, q.steady) => Covers(p, p.steady)
      BY <1>8, <2>1 DEF Covers
    <3>2. \A s \in p.steady : Matches(s, p.filter)
      BY <1>8, <2>1, <2>2 DEF AnswerOK
    <3> QED BY <1>8, <2>1, <2>2, <3>1, <3>2 DEF AnswerOK
  <2>4. \A s \in p.steady : rows'[s].status = rows[s].status
    BY <1>1, <1>8, <2>1, <2>2 DEF AnswerOK
  <2>5. AnswerOK(p)'
    BY <1>4, <2>3, <2>4, AnswerStays
  <2>6. CurrentOK(p)'
    BY <1>6, <1>8, <2>1, <2>2 DEF CurrentOK
  <2> QED BY <2>5, <2>6
<1>10. ASSUME NEW p \in requests', NEW q \in requests', p.id = q.id
       PROVE  p = q
  <2>1. PICK p0 \in requests : p = [p0 EXCEPT !.steady = @ \ {r}]
    BY <1>6
  <2>2. PICK q0 \in requests : q = [q0 EXCEPT !.steady = @ \ {r}]
    BY <1>6
  <2>3. p0.id = q0.id
    BY <1>8, <1>10, <2>1, <2>2
  <2>4. p0 = q0
    BY <2>3 DEF HistoryInv
  <2> QED BY <2>1, <2>2, <2>4
<1>11. HistoryInv'
  BY <1>5, <1>7, <1>9, <1>10 DEF HistoryInv
<1>12. steady' \in SUBSET DOMAIN rows /\ steady' \subseteq steady /\ r \notin steady'
  BY <1>6 DEF HistoryInv, ScreenOK
<1>13. /\ \A q \in steady' : \A c : Beyond(q, c)' <=> Beyond(q, c)
       /\ \A q \in steady' : \A f : Matches(q, f)' <=> Matches(q, f)
  <2>1. \A q \in steady' : \A f : Matches(q, f)' <=> Matches(q, f)
    BY <1>1, <1>12 DEF Matches
  <2> QED BY <1>4, <1>12, <2>1, BeyondStays
<1>14. GapInv'
  <2> SUFFICES ASSUME ~failed PROVE GapInv'
    BY <1>6 DEF GapInv
  <2>1. \A q \in steady' : Listed(shown, q)' \/ (cursor # NoCursor /\ Beyond(q, cursor))'
    BY <1>6, <1>12, <1>13 DEF GapInv, Listed
  <2>2. ~loading => \A q \in steady' : Matches(q, filter)'
    BY <1>6, <1>12, <1>13 DEF GapInv
  <2>3. ASSUME NEW p \in requests', p.id = newest, p.cursor # NoCursor
        PROVE  /\ \A s \in steady' : Matches(s, filter)'
               /\ p.answered => Covers(p, steady)'
    <3>1. PICK q \in requests : p = [q EXCEPT !.steady = @ \ {r}]
      BY <1>6
    <3>2. /\ \A s \in steady : Matches(s, filter)
          /\ q.answered => Covers(q, steady)
      BY <1>8, <2>3, <3>1 DEF GapInv
    <3>3. \A s \in steady' : Matches(s, filter)'
      BY <1>6, <1>12, <1>13, <3>2
    <3>4. q.answered => Covers(p, steady)'
      BY <1>8, <1>12, <1>13, <3>1, <3>2 DEF Covers, Listed
    <3> QED BY <1>8, <3>1, <3>3, <3>4
  <2> QED BY <1>6, <2>1, <2>2, <2>3 DEF GapInv
<1> QED BY <1>11, <1>14

\* The answer to a request.
LEMMA ServedAnswer ==
    ASSUME HistoryInv, NEW q \in requests, ~q.answered, NEW p,
           p = [q EXCEPT !.answered = TRUE,
                         !.data = Page(q.filter, q.cursor, q.limit).data,
                         !.next = Page(q.filter, q.cursor, q.limit).next,
                         !.steady = Selected(q.filter, NoCursor)]
    PROVE  /\ AnswerOK(p)
           /\ p.id = q.id /\ p.filter = q.filter /\ p.cursor = q.cursor
           /\ \A r \in Selected(q.filter, q.cursor) :
                Listed(p.data, r) \/ (p.next # NoCursor /\ Beyond(r, p.next))
<1>1. RowsOK /\ AnswerOK(q) /\ q \in Request /\ q.limit >= 1
  BY DEF HistoryInv, AnswerOK
<1>2. PICK data, next : /\ data = Page(q.filter, q.cursor, q.limit).data
                        /\ next = Page(q.filter, q.cursor, q.limit).next
  OBVIOUS
<1>3. PICK S : S = Selected(q.filter, q.cursor)
  OBVIOUS
<1>4. PICK T : T = Selected(q.filter, NoCursor)
  OBVIOUS
<1>5. S \in SUBSET DOMAIN rows /\ T \in SUBSET DOMAIN rows
  BY <1>3, <1>4, SelectedRows
<1>6. q.limit \in Nat
  BY <1>1 DEF Request
<1>7. /\ data \in Seq(S)
      /\ \A i, j \in DOMAIN data : i < j => Newer(data[i], data[j])
      /\ next # NoCursor =>
            /\ q.limit \in DOMAIN data /\ Len(data) = q.limit
            /\ next = [at |-> rows[data[q.limit]].at, run |-> data[q.limit]]
      /\ \A r \in S : Listed(data, r) \/ (next # NoCursor /\ Beyond(r, next))
  BY <1>1, <1>2, <1>3, <1>6, PageOf
<1>8. /\ ListOK(data)
      /\ \A i \in DOMAIN data : data[i] \in S /\ data[i] \in DOMAIN rows
  BY <1>5, <1>7 DEF ListOK
<1>9. \A r \in S : Beyond(r, q.cursor)
  BY <1>3 DEF Selected
<1>10. \A r \in T : Matches(r, q.filter)
  BY <1>4 DEF Selected
<1>11. ASSUME next # NoCursor
       PROVE  /\ next \in [at : Times, run : DOMAIN rows] /\ next.at = rows[next.run].at
              /\ next.run = data[q.limit] /\ next.run \in S
  BY <1>1, <1>7, <1>8, <1>11, RowFacts
<1>12. EndsAt(data, next)
  <2> SUFFICES ASSUME next # NoCursor, NEW i \in DOMAIN data PROVE ~Beyond(data[i], next)
    BY DEF EndsAt
  <2>1. DOMAIN data = 1 .. q.limit /\ i \in 1 .. q.limit
    BY <1>7
  <2>2. data[i] = next.run \/ Newer(data[i], next.run)
    BY <1>6, <1>7, <1>11, <2>1
  <2>3. data[i] \in DOMAIN rows /\ next.run \in DOMAIN rows
    BY <1>8, <1>11
  <2> QED BY <1>1, <1>11, <2>2, <2>3, RowFacts DEF Beyond, Newer
<1>13. CursorOK(next)
  BY <1>11 DEF CursorOK
<1>14. data \in Seq(Runs) /\ next \in Cursors /\ T \subseteq Runs
  <2>1. DOMAIN rows \subseteq Runs
    BY <1>1 DEF RowsOK
  <2>2. next \in Cursors
    BY <1>11, <2>1 DEF Cursors
  <2> QED BY <1>5, <1>7, <2>1, <2>2
<1>15. /\ p \in Request /\ p.id = q.id /\ p.filter = q.filter /\ p.cursor = q.cursor
       /\ p.limit = q.limit /\ p.data = data /\ p.next = next /\ p.steady = T
  BY <1>1, <1>2, <1>4, <1>14 DEF Request
<1>16. q.cursor = NoCursor => Covers(p, T)
  BY <1>3, <1>4, <1>7, <1>15 DEF Covers
<1>17. next # NoCursor => Beyond(next.run, q.cursor)
  BY <1>9, <1>11
<1>18. CursorOK(q.cursor)
  BY <1>1 DEF AnswerOK
<1>19. \A i \in DOMAIN data : Beyond(data[i], q.cursor)
  BY <1>8, <1>9
<1>20. AnswerOK(p)
  BY <1>1, <1>5, <1>8, <1>10, <1>12, <1>13, <1>15, <1>16, <1>17, <1>18, <1>19 DEF AnswerOK
<1> QED BY <1>3, <1>7, <1>15, <1>20

LEMMA ServeInv ==
    ASSUME HistoryInv, GapInv, NEW q \in requests, Serve(q)
    PROVE  HistoryInv' /\ GapInv'
<1>1. PICK p : p = [q EXCEPT !.answered = TRUE,
                             !.data = Page(q.filter, q.cursor, q.limit).data,
                             !.next = Page(q.filter, q.cursor, q.limit).next,
                             !.steady = Selected(q.filter, NoCursor)]
  OBVIOUS
<1>2. /\ ~q.answered /\ UNCHANGED <<rows, screen, failed>>
      /\ requests' = (requests \ {q}) \cup {p}
  BY <1>1 DEF Serve
<1>3. /\ AnswerOK(p)
      /\ p.id = q.id /\ p.filter = q.filter /\ p.cursor = q.cursor
      /\ \A r \in Selected(q.filter, q.cursor) :
            Listed(p.data, r) \/ (p.next # NoCursor /\ Beyond(r, p.next))
  BY <1>1, <1>2, ServedAnswer
<1>4. UNCHANGED <<shown, cursor, filter, loading, loaded, newest, steady>>
  BY <1>2 DEF screen
<1>5. PlacesStay /\ RowsOK'
  BY <1>2 DEF PlacesStay, HistoryInv, RowsOK
<1>6. ScreenOK'
  BY <1>4, <1>5, ScreenStays DEF HistoryInv
<1>7. ASSUME NEW o \in requests'
      PROVE  AnswerOK(o)' /\ CurrentOK(o)'
  <2>1. AnswerOK(o)
    BY <1>2, <1>3 DEF HistoryInv
  <2>2. CurrentOK(o)
    BY <1>2, <1>3 DEF HistoryInv, CurrentOK
  <2>3. AnswerOK(o)'
    BY <1>2, <2>1, SameAnswer
  <2> QED BY <1>4, <2>2, <2>3 DEF CurrentOK
<1>8. \A o1, o2 \in requests' : o1.id = o2.id => o1 = o2
  BY <1>2, <1>3 DEF HistoryInv
<1>9. HistoryInv'
  BY <1>5, <1>6, <1>7, <1>8 DEF HistoryInv
<1>10. GapInv'
  <2> SUFFICES ASSUME ~failed PROVE GapInv'
    BY <1>2 DEF GapInv
  <2>1. ASSUME q.id = newest, q.cursor # NoCursor
        PROVE  /\ \A r \in steady : Matches(r, filter)
               /\ Covers(p, steady)
    <3>1. \A r \in steady : Matches(r, filter) /\ r \in DOMAIN rows
      BY <2>1 DEF GapInv, HistoryInv, ScreenOK
    <3>2. q.filter = filter
      BY <2>1 DEF HistoryInv, CurrentOK
    <3>3. \A r \in steady : Beyond(r, q.cursor) => r \in Selected(q.filter, q.cursor)
      BY <3>1, <3>2 DEF Selected
    <3> QED BY <1>3, <3>1, <3>3 DEF Covers
  <2>2. \A o \in requests' : o.id = newest /\ o.cursor # NoCursor =>
            /\ \A r \in steady : Matches(r, filter)
            /\ o.answered => Covers(o, steady)
    BY <1>2, <1>3, <2>1 DEF GapInv
  <2>3. /\ \A r \in steady : Listed(shown, r) \/ (cursor # NoCursor /\ Beyond(r, cursor))
        /\ ~loading => \A r \in steady : Matches(r, filter)
    BY DEF GapInv
  <2>4. /\ \A r, f : Matches(r, f)' <=> Matches(r, f)
        /\ \A r, c : Beyond(r, c)' <=> Beyond(r, c)
    BY <1>2 DEF Matches, Beyond
  <2> QED BY <1>2, <1>4, <2>2, <2>3, <2>4 DEF GapInv, Covers, Listed
<1> QED BY <1>9, <1>10

(***************************************************************************)
(* A new request is the newest.  It asks for the top of the list, or for   *)
(* the rows beyond the cursor of the screen when nothing is loading.       *)
(***************************************************************************)
LEMMA SendInv ==
    ASSUME HistoryInv, GapInv, NEW f \in Filters, NEW c, NEW limit \in Nat, limit >= 1,
           Send(f, c, limit), filter' = f, loaded' \in Nat,
           \/ c = NoCursor
           \/ c = cursor /\ f = filter /\ ~loading
    PROVE  HistoryInv' /\ GapInv'
<1>1. newest \in Nat /\ CursorOK(cursor)
  BY DEF HistoryInv, ScreenOK
<1>2. PICK q : q = [id |-> newest + 1, filter |-> f, cursor |-> c, limit |-> limit,
                    answered |-> FALSE, data |-> <<>>, next |-> NoCursor, steady |-> {}]
  OBVIOUS
<1>3. /\ requests' = requests \cup {q} /\ newest' = newest + 1 /\ loading' = TRUE
      /\ UNCHANGED <<rows, shown, cursor, steady, failed>>
  BY <1>2 DEF Send
<1>4. /\ q.id = newest + 1 /\ q.filter = f /\ q.cursor = c /\ q.limit = limit /\ ~q.answered
      /\ q.data = <<>> /\ q.next = NoCursor /\ q.steady = {}
  BY <1>2
<1>5. CursorOK(c)
  BY <1>1 DEF CursorOK
<1>6. c \in Cursors
  <2>1. DOMAIN rows \subseteq Runs
    BY DEF HistoryInv, RowsOK
  <2> QED BY <1>5, <2>1 DEF CursorOK, Cursors
<1>7. q \in Request
  BY <1>1, <1>2, <1>6 DEF Request, Cursors
<1>8. AnswerOK(q)
  BY <1>4, <1>5, <1>7 DEF AnswerOK, ListOK, EndsAt, CursorOK
<1>9. PlacesStay /\ RowsOK'
  BY <1>3 DEF PlacesStay, HistoryInv, RowsOK
<1>10. ScreenOK'
  <2>1. PICK s, k : s = shown /\ k = cursor
    OBVIOUS
  <2>2. ListOK(s)' /\ CursorOK(k)' /\ EndsAt(s, k)'
    BY <1>9, <2>1, ListStays, CursorStays, EndsStays DEF HistoryInv, ScreenOK
  <2>3. ListOK(shown)' /\ CursorOK(cursor)' /\ EndsAt(shown, cursor)'
    BY <1>3, <2>1, <2>2
  <2> QED BY <1>1, <1>3, <2>3 DEF HistoryInv, ScreenOK
<1>11. \A o \in requests : o.id <= newest /\ o.id \in Nat
  BY DEF HistoryInv, CurrentOK, AnswerOK, Request
<1>12. ASSUME NEW o \in requests'
       PROVE  AnswerOK(o)' /\ CurrentOK(o)'
  <2>1. AnswerOK(o)
    BY <1>3, <1>8 DEF HistoryInv
  <2>2. AnswerOK(o)'
    BY <1>3, <2>1, SameAnswer
  <2>3. CASE o = q
    BY <1>1, <1>3, <1>4, <2>2, <2>3 DEF CurrentOK
  <2>4. CASE o \in requests
    BY <1>1, <1>3, <1>11, <2>2, <2>4 DEF CurrentOK
  <2> QED BY <1>3, <2>3, <2>4
<1>13. \A o1, o2 \in requests' : o1.id = o2.id => o1 = o2
  BY <1>1, <1>3, <1>4, <1>11 DEF HistoryInv
<1>14. HistoryInv'
  BY <1>9, <1>10, <1>12, <1>13 DEF HistoryInv
<1>15. GapInv'
  <2> SUFFICES ASSUME ~failed PROVE GapInv'
    BY <1>3 DEF GapInv
  <2>1. \A r \in steady : Listed(shown, r) \/ (cursor # NoCursor /\ Beyond(r, cursor))
    BY DEF GapInv
  <2>2. \A o \in requests' : o.id = newest' => o = q
    BY <1>1, <1>3, <1>11
  <2>3. c # NoCursor => \A r \in steady : Matches(r, filter) /\ f = filter
    BY DEF GapInv
  <2>4. /\ \A r, g : Matches(r, g)' <=> Matches(r, g)
        /\ \A r, k : Beyond(r, k)' <=> Beyond(r, k)
    BY <1>3 DEF Matches, Beyond
  <2> QED BY <1>3, <1>4, <2>1, <2>2, <2>3, <2>4 DEF GapInv, Listed
<1> QED BY <1>14, <1>15

LEMMA PageSizes == PageSize \in Nat /\ PageSize >= 1 /\ MaxLimit \in Nat /\ MaxLimit >= 1
  BY HistoryAssumption

LEMMA SendsInv ==
    ASSUME HistoryInv, GapInv, (\E f \in Filters : ChangeFilter(f)) \/ Poll \/ LoadMore
    PROVE  HistoryInv' /\ GapInv'
<1>1. filter \in Filters /\ loaded \in Nat
  BY DEF HistoryInv, ScreenOK
<1>2. ASSUME NEW f \in Filters, ChangeFilter(f)
      PROVE  HistoryInv' /\ GapInv'
  BY <1>2, PageSizes, SendInv DEF ChangeFilter
<1>3. CASE Poll
  <2>1. PICK limit \in Nat : limit >= 1 /\ Send(filter, NoCursor, limit)
    BY <1>1, <1>3, PageSizes DEF Poll
  <2>2. UNCHANGED <<filter, loaded>>
    BY <1>3 DEF Poll
  <2>3. PICK f : f = filter
    OBVIOUS
  <2> QED BY <1>1, <2>1, <2>2, <2>3, SendInv
<1>4. CASE LoadMore
  <2>1. Send(filter, cursor, PageSize) /\ ~loading /\ UNCHANGED <<filter, loaded>>
    BY <1>4 DEF LoadMore
  <2>2. PICK f, c : f = filter /\ c = cursor
    OBVIOUS
  <2> QED BY <1>1, <2>1, <2>2, PageSizes, SendInv
<1> QED BY <1>2, <1>3, <1>4

\* Requests that remain when one is gone and nothing else is touched.
LEMMA OthersRemain ==
    ASSUME HistoryInv, NEW q \in requests, requests' = requests \ {q}, UNCHANGED <<rows, newest>>
    PROVE  /\ \A o \in requests' : AnswerOK(o)' /\ o.id <= newest'
           /\ \A o \in requests' : q.id = newest => o.id # newest
           /\ \A o1, o2 \in requests' : o1.id = o2.id => o1 = o2
<1>1. ASSUME NEW o \in requests'
      PROVE  AnswerOK(o)' /\ o.id <= newest'
  BY SameAnswer DEF HistoryInv, CurrentOK
<1> QED BY <1>1 DEF HistoryInv

LEMMA FailInv ==
    ASSUME HistoryInv, GapInv, NEW q \in requests, Fail(q)
    PROVE  HistoryInv' /\ GapInv'
<1>1. /\ requests' = requests \ {q} /\ failed'
      /\ UNCHANGED <<rows, shown, cursor, filter, loaded, newest, steady>>
      /\ loading' = (loading /\ q.id # newest)
  BY DEF Fail
<1>2. PlacesStay /\ RowsOK'
  BY <1>1 DEF PlacesStay, HistoryInv, RowsOK
<1>3. ScreenOK'
  <2>1. PICK s, k : s = shown /\ k = cursor
    OBVIOUS
  <2>2. ListOK(s)' /\ CursorOK(k)' /\ EndsAt(s, k)'
    BY <1>2, <2>1, ListStays, CursorStays, EndsStays DEF HistoryInv, ScreenOK
  <2>3. ListOK(shown)' /\ CursorOK(cursor)' /\ EndsAt(shown, cursor)'
    BY <1>1, <2>1, <2>2
  <2>4. loading' \in BOOLEAN
    BY <1>1
  <2> QED BY <1>1, <2>3, <2>4 DEF HistoryInv, ScreenOK
<1>4. \A o \in requests' : CurrentOK(o)'
  BY <1>1 DEF HistoryInv, CurrentOK
<1>5. HistoryInv'
  BY <1>1, <1>2, <1>3, <1>4, OthersRemain DEF HistoryInv
<1> QED BY <1>1, <1>5 DEF GapInv

\* A row that is not beyond a cursor is newer than one that is.
LEMMA AcrossCursor ==
    ASSUME RowsOK, NEW c, c # NoCursor, CursorOK(c),
           NEW q \in DOMAIN rows, ~Beyond(q, c), NEW r \in DOMAIN rows, Beyond(r, c)
    PROVE  Newer(q, r)
<1>1. c.at \in Nat /\ c.run \in Nat
  BY RowFacts DEF CursorOK
<1>2. q \in Nat /\ r \in Nat /\ rows[q].at \in Nat /\ rows[r].at \in Nat
  BY RowFacts
<1> QED BY <1>1, <1>2 DEF Beyond, Newer

\* The page beyond the cursor continues the list that ends at the cursor.
LEMMA AppendedList ==
    ASSUME RowsOK, NEW c, c # NoCursor, CursorOK(c),
           NEW s, ListOK(s), EndsAt(s, c),
           NEW d, ListOK(d), \A i \in DOMAIN d : Beyond(d[i], c),
           NEW n, CursorOK(n), EndsAt(d, n), n # NoCursor => Beyond(n.run, c)
    PROVE  /\ ListOK(s \o d) /\ EndsAt(s \o d, n)
           /\ \A r : Listed(s \o d, r) <=> Listed(s, r) \/ Listed(d, r)
           /\ \A i \in DOMAIN d : d[i] \notin ToSet(s)
<1>1. /\ s \in Seq(DOMAIN rows) /\ d \in Seq(DOMAIN rows)
      /\ Len(s) \in Nat /\ Len(d) \in Nat
      /\ DOMAIN s = 1 .. Len(s) /\ DOMAIN d = 1 .. Len(d)
  BY DEF ListOK
<1>2. PICK t : t = s \o d
  OBVIOUS
<1>3. /\ t \in Seq(DOMAIN rows) /\ Len(t) = Len(s) + Len(d) /\ DOMAIN t = 1 .. Len(s) + Len(d)
      /\ \A i \in 1 .. Len(s) + Len(d) : t[i] = IF i <= Len(s) THEN s[i] ELSE d[i - Len(s)]
  BY <1>1, <1>2
<1>4. \A i \in DOMAIN s : s[i] \in DOMAIN rows /\ ~Beyond(s[i], c)
  BY <1>1 DEF EndsAt
<1>5. \A i \in DOMAIN d : d[i] \in DOMAIN rows /\ Beyond(d[i], c)
  BY <1>1
<1>6. \A i \in DOMAIN s, j \in DOMAIN d : Newer(s[i], d[j])
  BY <1>4, <1>5, AcrossCursor
<1>7. ASSUME NEW i \in DOMAIN t, NEW j \in DOMAIN t, i < j
      PROVE  Newer(t[i], t[j])
  <2>1. CASE j <= Len(s)
    <3>1. i \in DOMAIN s /\ j \in DOMAIN s /\ t[i] = s[i] /\ t[j] = s[j]
      BY <1>1, <1>3, <1>7, <2>1
    <3> QED BY <1>7, <3>1 DEF ListOK
  <2>2. CASE i <= Len(s) /\ j > Len(s)
    <3>1. i \in DOMAIN s /\ j - Len(s) \in DOMAIN d /\ t[i] = s[i] /\ t[j] = d[j - Len(s)]
      BY <1>1, <1>3, <1>7, <2>2
    <3> QED BY <1>6, <3>1
  <2>3. CASE i > Len(s)
    <3>1. /\ i - Len(s) \in DOMAIN d /\ j - Len(s) \in DOMAIN d /\ i - Len(s) < j - Len(s)
          /\ t[i] = d[i - Len(s)] /\ t[j] = d[j - Len(s)]
      BY <1>1, <1>3, <1>7, <2>3
    <3> QED BY <3>1 DEF ListOK
  <2> QED BY <1>1, <1>3, <1>7, <2>1, <2>2, <2>3
<1>8. ListOK(t)
  BY <1>3, <1>7 DEF ListOK
<1>9. ASSUME NEW r
      PROVE  Listed(t, r) <=> Listed(s, r) \/ Listed(d, r)
  <2>1. ASSUME NEW i \in DOMAIN s, s[i] = r
        PROVE  Listed(t, r)
    <3>1. i \in DOMAIN t /\ t[i] = r
      BY <1>1, <1>3, <2>1
    <3> QED BY <3>1 DEF Listed
  <2>2. ASSUME NEW i \in DOMAIN d, d[i] = r
        PROVE  Listed(t, r)
    <3>1. PICK j \in 1 .. Len(s) + Len(d) : j = i + Len(s)
      BY <1>1
    <3>2. j \in DOMAIN t /\ t[j] = r
      BY <1>1, <1>3, <2>2, <3>1
    <3> QED BY <3>2 DEF Listed
  <2>3. ASSUME NEW i \in DOMAIN t, t[i] = r
        PROVE  Listed(s, r) \/ Listed(d, r)
    <3>1. CASE i <= Len(s)
      BY <1>1, <1>3, <2>3, <3>1 DEF Listed
    <3>2. CASE i > Len(s)
      <4>1. i - Len(s) \in DOMAIN d /\ d[i - Len(s)] = r
        BY <1>1, <1>3, <2>3, <3>2
      <4> QED BY <4>1 DEF Listed
    <3> QED BY <1>1, <1>3, <3>1, <3>2
  <2> QED BY <2>1, <2>2, <2>3 DEF Listed
<1>10. EndsAt(t, n)
  <2> SUFFICES ASSUME n # NoCursor, NEW i \in DOMAIN t PROVE ~Beyond(t[i], n)
    BY DEF EndsAt
  <2>1. CASE i <= Len(s)
    <3>1. t[i] = s[i] /\ i \in DOMAIN s
      BY <1>1, <1>3, <2>1
    <3>2. n.run \in DOMAIN rows /\ n.at = rows[n.run].at
      BY DEF CursorOK
    <3>3. Newer(s[i], n.run)
      BY <1>4, <3>1, <3>2, AcrossCursor
    <3>4. s[i] \in Nat /\ rows[s[i]].at \in Nat /\ n.run \in Nat /\ rows[n.run].at \in Nat
      BY <1>4, <3>1, <3>2, RowFacts
    <3> QED BY <3>1, <3>2, <3>3, <3>4 DEF Beyond, Newer
  <2>2. CASE i > Len(s)
    <3>1. i - Len(s) \in DOMAIN d /\ t[i] = d[i - Len(s)]
      BY <1>1, <1>3, <2>2
    <3> QED BY <3>1 DEF EndsAt
  <2> QED BY <1>1, <1>3, <2>1, <2>2
<1>11. \A i \in DOMAIN d : d[i] \notin ToSet(s)
  BY <1>4, <1>5 DEF ToSet
<1> QED BY <1>2, <1>8, <1>9, <1>10, <1>11

LEMMA DeliverInv ==
    ASSUME HistoryInv, GapInv, NEW q \in requests, Deliver(q)
    PROVE  HistoryInv' /\ GapInv'
<1>1. /\ q.answered /\ requests' = requests \ {q}
      /\ UNCHANGED <<rows, filter, newest, failed>>
  BY DEF Deliver
<1>2. PlacesStay /\ RowsOK' /\ RowsOK /\ AnswerOK(q) /\ CurrentOK(q)
  BY <1>1 DEF PlacesStay, HistoryInv, RowsOK
<1>3. /\ \A o \in requests' : AnswerOK(o)' /\ o.id <= newest'
      /\ \A o \in requests' : q.id = newest => o.id # newest
      /\ \A o1, o2 \in requests' : o1.id = o2.id => o1 = o2
  BY <1>1, OthersRemain
<1>4. /\ \A r, g : Matches(r, g)' <=> Matches(r, g)
      /\ \A r, k : Beyond(r, k)' <=> Beyond(r, k)
      /\ \A s : ListOK(s) => ListOK(s)'
      /\ \A k : CursorOK(k) => CursorOK(k)'
      /\ \A s, k : ListOK(s) /\ EndsAt(s, k) => EndsAt(s, k)'
  BY <1>1, <1>2, ListStays, CursorStays, EndsStays DEF Matches, Beyond
<1>5. CASE ~Used(q)
  <2>1. UNCHANGED <<shown, cursor, loaded, loading, steady>>
    BY <1>5 DEF Deliver
  <2>2. ScreenOK'
    BY <1>1, <1>2, <2>1, ScreenStays DEF HistoryInv
  <2>3. \A o \in requests' : CurrentOK(o)'
    BY <1>1, <2>1 DEF HistoryInv, CurrentOK
  <2>4. HistoryInv'
    BY <1>2, <1>3, <2>2, <2>3 DEF HistoryInv
  <2>5. GapInv'
    BY <1>1, <1>4, <2>1 DEF GapInv, Listed, Covers
  <2> QED BY <2>4, <2>5
<1>6. CASE Used(q)
  <2>1. q.id = newest /\ q.filter = filter /\ cursor' = q.next /\ loading' = FALSE
    BY <1>2, <1>6 DEF Deliver, Used, CurrentOK
  <2>2. \A o \in requests' : CurrentOK(o)'
    BY <1>1, <1>3, <2>1 DEF CurrentOK
  <2>3. /\ ListOK(q.data) /\ CursorOK(q.next) /\ EndsAt(q.data, q.next)
        /\ q.data \in Seq(Runs) /\ Len(q.data) \in Nat
    BY <1>2 DEF AnswerOK, Request
  <2>4. ASSUME NEW s, s = shown', ListOK(s), EndsAt(s, q.next),
               loaded' \in Nat, steady' \subseteq DOMAIN rows,
               ~failed => \A r \in steady' : Matches(r, filter),
               ~failed => \A r \in steady' :
                    Listed(s, r) \/ (q.next # NoCursor /\ Beyond(r, q.next))
        PROVE  HistoryInv' /\ GapInv'
    <3>1. ListOK(shown)' /\ CursorOK(cursor)' /\ EndsAt(shown, cursor)'
      BY <1>4, <2>1, <2>3, <2>4
    <3>2. ScreenOK'
      BY <1>1, <2>1, <2>4, <3>1 DEF HistoryInv, ScreenOK
    <3>3. HistoryInv'
      BY <1>2, <1>3, <2>2, <3>2 DEF HistoryInv
    <3>4. GapInv'
      BY <1>1, <1>3, <1>4, <2>1, <2>4 DEF GapInv, Listed
    <3> QED BY <3>3, <3>4
  <2>5. CASE q.cursor = NoCursor
    <3>1. shown' = q.data /\ loaded' = Len(q.data) /\ steady' = q.steady
      BY <1>6, <2>5 DEF Deliver
    <3>2. /\ q.steady \subseteq DOMAIN rows /\ \A r \in q.steady : Matches(r, filter)
          /\ Covers(q, q.steady)
      BY <1>1, <1>2, <2>1, <2>5 DEF AnswerOK
    <3>3. \A r \in q.steady : Listed(q.data, r) \/ (q.next # NoCursor /\ Beyond(r, q.next))
      BY <2>5, <3>2 DEF Covers, Beyond
    <3> QED BY <2>3, <2>4, <3>1, <3>2, <3>3
  <2>6. CASE q.cursor # NoCursor
    <3>1. shown' = shown \o NotShown(q.data) /\ loaded' = loaded + Len(q.data) /\ UNCHANGED steady
      BY <1>6, <2>6 DEF Deliver
    <3>2. PICK s, c : s = shown /\ c = cursor
      OBVIOUS
    <3>3. /\ c = q.cursor /\ c # NoCursor /\ CursorOK(c) /\ ListOK(s) /\ EndsAt(s, c)
          /\ \A i \in DOMAIN q.data : Beyond(q.data[i], c)
          /\ q.next # NoCursor => Beyond(q.next.run, c)
      BY <1>2, <2>1, <2>6, <3>2 DEF CurrentOK, AnswerOK, HistoryInv, ScreenOK
    <3>4. /\ ListOK(s \o q.data) /\ EndsAt(s \o q.data, q.next)
          /\ \A r : Listed(s \o q.data, r) <=> Listed(s, r) \/ Listed(q.data, r)
          /\ \A i \in DOMAIN q.data : q.data[i] \notin ToSet(s)
      BY <1>2, <2>3, <3>3, AppendedList
    <3>5. NotShown(q.data) = q.data
      BY <2>3, <3>2, <3>4, NothingDropped
    <3>6. shown' = s \o q.data
      BY <3>1, <3>2, <3>5
    <3>7. loaded' \in Nat /\ steady \subseteq DOMAIN rows
      BY <2>3, <3>1 DEF HistoryInv, ScreenOK
    <3>8. ASSUME ~failed
          PROVE  /\ \A r \in steady : Matches(r, filter)
                 /\ \A r \in steady : Listed(s \o q.data, r)
                                      \/ (q.next # NoCursor /\ Beyond(r, q.next))
      <4>1. /\ \A r \in steady : Matches(r, filter)
            /\ Covers(q, steady)
            /\ \A r \in steady : Listed(s, r) \/ Beyond(r, c)
        BY <1>1, <2>1, <2>6, <3>2, <3>8 DEF GapInv
      <4> QED BY <3>3, <3>4, <4>1 DEF Covers
    <3> QED BY <2>4, <3>1, <3>4, <3>6, <3>7, <3>8
  <2> QED BY <2>5, <2>6
<1> QED BY <1>5, <1>6

LEMMA HistoryNextInv ==
    HistoryInv /\ GapInv /\ [HistoryNext]_historyVars => HistoryInv' /\ GapInv'
<1> SUFFICES ASSUME HistoryInv, GapInv, [HistoryNext]_historyVars
             PROVE  HistoryInv' /\ GapInv'
  OBVIOUS
<1>1. CASE UNCHANGED historyVars
  <2>1. UNCHANGED <<rows, shown, cursor, filter, loading, loaded, newest, steady, requests, failed>>
    BY <1>1 DEF historyVars, screen
  <2>2. PlacesStay /\ RowsOK'
    BY <2>1 DEF PlacesStay, HistoryInv, RowsOK
  <2>3. ScreenOK'
    BY <2>1, <2>2, ScreenStays DEF HistoryInv
  <2>4. \A q \in requests' : AnswerOK(q)' /\ CurrentOK(q)'
    BY <2>1, SameAnswer DEF HistoryInv, CurrentOK
  <2>5. HistoryInv'
    BY <2>1, <2>2, <2>3, <2>4 DEF HistoryInv
  <2>6. GapInv'
    BY <2>1 DEF GapInv, Listed, Covers, Beyond, Matches
  <2> QED BY <2>5, <2>6
<1> QED
  BY <1>1, InsertInv, ChangeStatusInv, SendsInv, ServeInv, DeliverInv, FailInv DEF HistoryNext

-----------------------------------------------------------------------------
(* Theorems                                                                *)

\* Table, screen and requests fit together, whatever overlaps.
THEOREM HistoryInvariant == HistorySpec => [](HistoryInv /\ GapInv)
  BY HistoryInitInv, HistoryNextInv, PTL DEF HistorySpec

(***************************************************************************)
(* The rows on the screen are strictly in order, newest first and none of  *)
(* them twice, for every table, page size and number of requests: list_page*)
(* returns rows beyond the cursor only, and an answer that is used extends *)
(* the list which that cursor ends.                                        *)
(***************************************************************************)
THEOREM NewestFirstCorrect == HistorySpec => []NewestFirst
<1>1. HistoryInv => NewestFirst
  BY DEF HistoryInv, ScreenOK, ListOK, NewestFirst
<1> QED BY <1>1, HistoryInvariant, PTL

(***************************************************************************)
(* Until a request fails, paging skips no row: one that was there when the *)
(* top of the screen was read and has matched the filter since is shown or *)
(* lies beyond the cursor, however many rows are inserted above, between   *)
(* or below, with equal timestamps or clocks that lag.                     *)
(***************************************************************************)
THEOREM NoGapCorrect == HistorySpec => []NoGap
<1>1. HistoryInv /\ GapInv => NoGap
  <2> SUFFICES ASSUME HistoryInv, GapInv, ~failed, NEW r \in steady
               PROVE  r \in ToSet(shown) \/ (cursor # NoCursor /\ Beyond(r, cursor))
    BY DEF NoGap
  <2>1. Listed(shown, r) => r \in ToSet(shown)
    BY DEF Listed, ToSet
  <2> QED BY <2>1 DEF GapInv
<1> QED BY <1>1, HistoryInvariant, PTL

===============================================================================
