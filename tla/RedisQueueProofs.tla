--------------------------- MODULE RedisQueueProofs ---------------------------
(***************************************************************************)
(* Proofs about RedisQueue, for every set of runs and workers.             *)
(***************************************************************************)
EXTENDS RedisQueue, SequenceTheorems, TLAPS

-----------------------------------------------------------------------------
(* What the Redis list commands do to the runs of a list                   *)

\* The elements of a concatenation, by position.
LEMMA ConcatAt ==
    ASSUME NEW S, NEW a \in Seq(S), NEW b \in Seq(S)
    PROVE  /\ Len(a) \in Nat /\ Len(b) \in Nat
           /\ DOMAIN a = 1 .. Len(a) /\ DOMAIN b = 1 .. Len(b)
           /\ a \o b \in Seq(S)
           /\ Len(a \o b) = Len(a) + Len(b)
           /\ DOMAIN (a \o b) = 1 .. (Len(a) + Len(b))
           /\ \A i \in 1 .. Len(a) : (a \o b)[i] = a[i]
           /\ \A i \in (Len(a) + 1) .. (Len(a) + Len(b)) :
                i - Len(a) \in 1 .. Len(b) /\ (a \o b)[i] = b[i - Len(a)]
  BY ConcatProperties, LenProperties

\* LPUSH adds one run, and keeps a list free of repeats if the run is new.
LEMMA ConsJob ==
    ASSUME NEW list \in Seq(Envelope), NEW job \in Envelope
    PROVE  /\ Cons(job, list) \in Seq(Envelope)
           /\ RunsOf(Cons(job, list)) = RunsOf(list) \cup {job.run}
           /\ NoRepeat(list) /\ job.run \notin RunsOf(list) => NoRepeat(Cons(job, list))
<1> DEFINE new == Cons(job, list)
           n == Len(list)
<1>1. /\ n \in Nat
      /\ DOMAIN list = 1 .. n
      /\ new \in Seq(Envelope)
      /\ DOMAIN new = 1 .. (n + 1)
      /\ \A i \in 1 .. (n + 1) : new[i] = IF i = 1 THEN job ELSE list[i - 1]
  BY ConcatProperties, LenProperties DEF Cons
<1> HIDE DEF new, n
<1>2. RunsOf(new) = RunsOf(list) \cup {job.run}
  <2>1. ASSUME NEW i \in DOMAIN new
        PROVE  new[i].run \in RunsOf(list) \cup {job.run}
    BY <1>1 DEF RunsOf
  <2>2. ASSUME NEW i \in DOMAIN list
        PROVE  list[i].run \in RunsOf(new)
    <3>1. i + 1 \in DOMAIN new /\ new[i + 1] = list[i]
      BY <1>1
    <3> QED BY <3>1 DEF RunsOf
  <2>3. job.run \in RunsOf(new)
    BY <1>1 DEF RunsOf
  <2> QED BY <2>1, <2>2, <2>3 DEF RunsOf
<1>3. ASSUME NoRepeat(list), job.run \notin RunsOf(list)
      PROVE  NoRepeat(new)
  <2> SUFFICES ASSUME NEW i \in DOMAIN new, NEW j \in DOMAIN new,
                      new[i].run = new[j].run
               PROVE  i = j
    BY DEF NoRepeat
  <2>1. ASSUME NEW a \in DOMAIN new, a # 1
        PROVE  a - 1 \in DOMAIN list /\ new[a] = list[a - 1] /\ new[a].run # job.run
    BY <1>1, <1>3, <2>1 DEF RunsOf
  <2>2. new[1] = job
    BY <1>1
  <2>3. CASE i # 1 /\ j # 1
    <3>1. i - 1 = j - 1
      BY <1>3, <2>1, <2>3 DEF NoRepeat
    <3> QED BY <1>1, <3>1
  <2> QED BY <2>1, <2>2, <2>3
<1> QED BY <1>1, <1>2, <1>3 DEF new

\* RPOP removes the last run of a list.
LEMMA PopJob ==
    ASSUME NEW list \in Seq(Envelope), list # <<>>
    PROVE  /\ Front(list) \in Seq(Envelope)
           /\ Last(list) \in Envelope
           /\ RunsOf(list) = RunsOf(Front(list)) \cup {Last(list).run}
           /\ NoRepeat(list) =>
                NoRepeat(Front(list)) /\ Last(list).run \notin RunsOf(Front(list))
<1> DEFINE rest == Front(list)
<1>1. /\ Len(list) \in Nat \ {0}
      /\ DOMAIN list = 1 .. Len(list)
      /\ \A i \in 1 .. Len(list) : list[i] \in Envelope
  BY EmptySeq, LenProperties, ElementOfSeq
<1>2. /\ rest \in Seq(Envelope)
      /\ DOMAIN rest = 1 .. (Len(list) - 1)
      /\ \A i \in 1 .. (Len(list) - 1) : rest[i] = list[i]
  BY <1>1, SubSeqProperties, LenProperties DEF Front
<1>3. Last(list) = list[Len(list)]
  BY DEF Last
<1>4. RunsOf(list) = RunsOf(rest) \cup {Last(list).run}
  BY <1>1, <1>2, <1>3 DEF RunsOf
<1>5. ASSUME NoRepeat(list)
      PROVE  NoRepeat(rest) /\ Last(list).run \notin RunsOf(rest)
  BY <1>1, <1>2, <1>3, <1>5 DEF NoRepeat, RunsOf
<1> QED BY <1>1, <1>2, <1>3, <1>4, <1>5

\* LREM of a job that is in a list without repeats removes exactly its run.
LEMMA RemoveJob ==
    ASSUME NEW list \in Seq(Envelope), NoRepeat(list), NEW job \in ToSet(list)
    PROVE  /\ job \in Envelope
           /\ RemoveFirst(list, job) \in Seq(Envelope)
           /\ RunsOf(RemoveFirst(list, job)) = RunsOf(list) \ {job.run}
           /\ job.run \in RunsOf(list)
           /\ NoRepeat(RemoveFirst(list, job))
           /\ ToSet(RemoveFirst(list, job)) = ToSet(list) \ {job}
<1>1. PICK k \in 1 .. Len(list) : list[k] = job
  BY LenProperties DEF ToSet
<1>2. /\ Len(list) \in Nat
      /\ DOMAIN list = 1 .. Len(list)
      /\ \A i \in 1 .. Len(list) : list[i] \in Envelope
  BY LenProperties, ElementOfSeq
<1>3. \A i \in 1 .. Len(list) : list[i] = job => i = k
  BY <1>1, <1>2 DEF NoRepeat
<1>4. SelectInSeq(list, LAMBDA v : v = job) = k
  <2>1. {i \in 1 .. Len(list) : list[i] = job} = {k}
    BY <1>1, <1>3
  <2>2. Min({k}) = k
    BY <1>1, <1>2 DEF Min
  <2> QED BY <2>1, <2>2 DEF SelectInSeq
<1> DEFINE rest == RemoveFirst(list, job)
<1>5. rest = SubSeq(list, 1, k - 1) \o SubSeq(list, k + 1, Len(list))
  BY <1>1, <1>4 DEF RemoveFirst, RemoveAt
<1>6. /\ rest \in Seq(Envelope)
      /\ DOMAIN rest = 1 .. (Len(list) - 1)
      /\ \A i \in 1 .. (Len(list) - 1) : rest[i] = IF i < k THEN list[i] ELSE list[i + 1]
  <2> DEFINE a == SubSeq(list, 1, k - 1)
             b == SubSeq(list, k + 1, Len(list))
  <2>1. /\ a \in Seq(Envelope)
        /\ Len(a) = k - 1
        /\ \A i \in 1 .. (k - 1) : a[i] = list[i]
    <3>1. \A i \in 1 .. (k - 1) : list[i] \in Envelope
      BY <1>1, <1>2
    <3>2. /\ a \in Seq(Envelope)
          /\ Len(a) = IF 1 <= k - 1 THEN (k - 1) - 1 + 1 ELSE 0
          /\ \A i \in 1 .. (k - 1) - 1 + 1 : a[i] = list[1 + i - 1]
      BY <1>1, <3>1, SubSeqProperties
    <3> HIDE DEF a
    <3> QED BY <1>1, <3>2
  <2>2. /\ b \in Seq(Envelope)
        /\ Len(b) = Len(list) - k
        /\ \A i \in 1 .. (Len(list) - k) : b[i] = list[k + i]
    <3>1. \A i \in (k + 1) .. Len(list) : list[i] \in Envelope
      BY <1>1, <1>2
    <3>2. /\ b \in Seq(Envelope)
          /\ Len(b) = IF k + 1 <= Len(list) THEN Len(list) - (k + 1) + 1 ELSE 0
          /\ \A i \in 1 .. Len(list) - (k + 1) + 1 : b[i] = list[(k + 1) + i - 1]
      BY <1>1, <1>2, <3>1, SubSeqProperties
    <3> HIDE DEF b
    <3>3. Len(b) = Len(list) - k
      <4>1. Len(list) \in Nat /\ k \in 1 .. Len(list)
        BY <1>1, <1>2
      <4>2. (IF k + 1 <= Len(list) THEN Len(list) - (k + 1) + 1 ELSE 0) = Len(list) - k
        BY <4>1
      <4> QED BY <3>2, <4>2
    <3>4. ASSUME NEW i \in 1 .. (Len(list) - k)
          PROVE  b[i] = list[k + i]
      <4>1. i \in 1 .. Len(list) - (k + 1) + 1
        BY <1>1, <1>2
      <4>2. (k + 1) + i - 1 = k + i
        BY <1>1, <1>2
      <4> QED BY <3>2, <4>1, <4>2
    <3> QED BY <3>2, <3>3, <3>4
  <2>0. rest = a \o b
    BY <1>5
  <2> HIDE DEF a, b, rest
  <2>3. /\ rest \in Seq(Envelope)
        /\ Len(rest) = Len(list) - 1
        /\ \A i \in 1 .. (k - 1) : rest[i] = a[i]
        /\ \A i \in k .. (Len(list) - 1) : rest[i] = b[i - (k - 1)]
    <3>1. /\ a \o b \in Seq(Envelope)
          /\ Len(a \o b) = Len(a) + Len(b)
          /\ \A i \in 1 .. Len(a) : (a \o b)[i] = a[i]
          /\ \A i \in (Len(a) + 1) .. (Len(a) + Len(b)) : (a \o b)[i] = b[i - Len(a)]
      BY <2>1, <2>2, ConcatAt
    <3>2. /\ Len(a) = k - 1
          /\ Len(a) + Len(b) = Len(list) - 1
          /\ Len(a) + 1 = k
      <4>1. Len(list) \in Nat /\ k \in 1 .. Len(list)
        BY <1>1, <1>2
      <4>2. /\ (k - 1) + (Len(list) - k) = Len(list) - 1
            /\ (k - 1) + 1 = k
        BY <4>1
      <4> QED BY <2>1, <2>2, <4>2
    <3> QED BY <2>0, <3>1, <3>2
  <2>4. ASSUME NEW i \in 1 .. (Len(list) - 1)
        PROVE  rest[i] = IF i < k THEN list[i] ELSE list[i + 1]
    <3>1. CASE i < k
      BY <1>1, <1>2, <2>1, <2>3, <3>1
    <3>2. CASE i >= k
      <4>1. rest[i] = b[i - (k - 1)]
        BY <1>1, <1>2, <2>3, <3>2
      <4>2. b[i - (k - 1)] = list[k + (i - (k - 1))]
        BY <1>1, <1>2, <2>2, <3>2
      <4> QED BY <1>1, <1>2, <3>2, <4>1, <4>2
    <3> QED BY <1>1, <1>2, <3>1, <3>2
  <2> QED BY <2>3, <2>4, LenProperties
<1> HIDE DEF rest
<1>7. RunsOf(rest) = RunsOf(list) \ {job.run}
  <2>1. ASSUME NEW i \in DOMAIN rest
        PROVE  rest[i].run \in RunsOf(list) /\ rest[i].run # job.run
    BY <1>1, <1>2, <1>6 DEF RunsOf, NoRepeat
  <2>2. ASSUME NEW i \in DOMAIN list, list[i].run # job.run
        PROVE  list[i].run \in RunsOf(rest)
    <3>1. CASE i < k
      BY <1>1, <1>2, <1>6, <3>1 DEF RunsOf
    <3>2. CASE i > k
      <4>1. i - 1 \in DOMAIN rest /\ rest[i - 1] = list[i]
        BY <1>1, <1>2, <1>6, <3>2
      <4> QED BY <4>1 DEF RunsOf
    <3> QED BY <1>1, <1>2, <2>2, <3>1, <3>2
  <2> QED BY <2>1, <2>2 DEF RunsOf
<1>8. NoRepeat(rest)
  <2> SUFFICES ASSUME NEW i \in DOMAIN rest, NEW j \in DOMAIN rest,
                      rest[i].run = rest[j].run
               PROVE  i = j
    BY DEF NoRepeat
  <2> DEFINE at(m) == IF m < k THEN m ELSE m + 1
  <2>1. /\ at(i) \in DOMAIN list /\ rest[i] = list[at(i)]
        /\ at(j) \in DOMAIN list /\ rest[j] = list[at(j)]
    BY <1>1, <1>2, <1>6
  <2>2. at(i) = at(j)
    BY <2>1 DEF NoRepeat
  <2> QED BY <1>1, <1>2, <1>6, <2>2
<1>9. ToSet(rest) = ToSet(list) \ {job}
  <2>1. ASSUME NEW i \in DOMAIN rest
        PROVE  rest[i] \in ToSet(list) /\ rest[i] # job
    <3>1. rest[i].run # job.run
      BY <1>7 DEF RunsOf
    <3>2. \E m \in DOMAIN list : rest[i] = list[m]
      <4>1. i \in DOMAIN list /\ i + 1 \in DOMAIN list
        BY <1>1, <1>2, <1>6
      <4> QED BY <1>6, <4>1
    <3> QED BY <3>1, <3>2 DEF ToSet
  <2>2. ASSUME NEW i \in DOMAIN list, list[i] # job
        PROVE  list[i] \in ToSet(rest)
    <3>1. CASE i < k
      BY <1>1, <1>2, <1>6, <3>1 DEF ToSet
    <3>2. CASE i > k
      <4>1. i - 1 \in DOMAIN rest /\ rest[i - 1] = list[i]
        BY <1>1, <1>2, <1>6, <3>2
      <4> QED BY <4>1 DEF ToSet
    <3> QED BY <1>1, <1>2, <2>2, <3>1, <3>2
  <2>3. ToSet(rest) \subseteq ToSet(list) \ {job}
    BY <2>1 DEF ToSet
  <2>4. ToSet(list) \ {job} \subseteq ToSet(rest)
    BY <2>2 DEF ToSet
  <2> QED BY <2>3, <2>4
<1> QED BY <1>1, <1>2, <1>6, <1>7, <1>8, <1>9 DEF RunsOf, rest

\* Draining one list into another keeps every run, once if they share none.
LEMMA ConcatJobs ==
    ASSUME NEW front \in Seq(Envelope), NEW back \in Seq(Envelope)
    PROVE  /\ front \o back \in Seq(Envelope)
           /\ RunsOf(front \o back) = RunsOf(front) \cup RunsOf(back)
           /\ NoRepeat(front) /\ NoRepeat(back) /\ RunsOf(front) \cap RunsOf(back) = {}
                => NoRepeat(front \o back)
<1> DEFINE both == front \o back
           m == Len(front)
           n == Len(back)
<1>1. /\ both \in Seq(Envelope)
      /\ m \in Nat /\ n \in Nat
      /\ DOMAIN front = 1 .. m /\ DOMAIN back = 1 .. n
      /\ DOMAIN both = 1 .. (m + n)
      /\ \A i \in 1 .. m : both[i] = front[i]
      /\ \A i \in (m + 1) .. (m + n) : i - m \in 1 .. n /\ both[i] = back[i - m]
  BY ConcatAt
<1> HIDE DEF both, m, n
<1>2. RunsOf(both) = RunsOf(front) \cup RunsOf(back)
  <2>1. ASSUME NEW i \in DOMAIN both
        PROVE  both[i].run \in RunsOf(front) \cup RunsOf(back)
    <3>1. CASE i \in 1 .. m
      BY <1>1, <3>1 DEF RunsOf
    <3>2. CASE i \in (m + 1) .. (m + n)
      BY <1>1, <3>2 DEF RunsOf
    <3> QED BY <1>1, <3>1, <3>2
  <2>2. ASSUME NEW i \in DOMAIN front
        PROVE  front[i].run \in RunsOf(both)
    BY <1>1 DEF RunsOf
  <2>3. ASSUME NEW i \in DOMAIN back
        PROVE  back[i].run \in RunsOf(both)
    <3>1. m + i \in DOMAIN both /\ both[m + i] = back[i]
      BY <1>1
    <3> QED BY <3>1 DEF RunsOf
  <2> QED BY <2>1, <2>2, <2>3 DEF RunsOf
<1>3. ASSUME NoRepeat(front), NoRepeat(back), RunsOf(front) \cap RunsOf(back) = {}
      PROVE  NoRepeat(both)
  <2> SUFFICES ASSUME NEW i \in DOMAIN both, NEW j \in DOMAIN both, 
                      both[i].run = both[j].run
               PROVE  i = j
    BY DEF NoRepeat
  <2>1. CASE i <= m /\ j <= m
    BY <1>1, <1>3, <2>1 DEF NoRepeat
  <2>2. CASE i > m /\ j > m
    <3>1. /\ i - m \in DOMAIN back /\ both[i] = back[i - m]
          /\ j - m \in DOMAIN back /\ both[j] = back[j - m]
      BY <1>1, <2>2
    <3>2. i - m = j - m
      BY <1>3, <3>1 DEF NoRepeat
    <3> QED BY <1>1, <3>2
  <2>3. ASSUME NEW p \in DOMAIN both, NEW q \in DOMAIN both, p <= m, q > m
        PROVE  both[p].run # both[q].run
    <3>1. p \in DOMAIN front /\ both[p] = front[p]
      BY <1>1, <2>3
    <3>2. q - m \in DOMAIN back /\ both[q] = back[q - m]
      BY <1>1, <2>3
    <3>3. both[p].run \in RunsOf(front) /\ both[q].run \in RunsOf(back)
      BY <3>1, <3>2 DEF RunsOf
    <3>4. RunsOf(front) \cap RunsOf(back) = {}
      BY <1>3
    <3> QED BY <3>3, <3>4
  <2>4. CASE i <= m /\ j > m
    BY <2>3, <2>4
  <2>5. CASE i > m /\ j <= m
    BY <2>3, <2>5
  <2> QED BY <1>1, <2>1, <2>2, <2>4, <2>5
<1> QED BY <1>1, <1>2, <1>3 DEF both

\* The same commands, on the set of jobs of a list.
LEMMA JobSets ==
    ASSUME NEW list \in Seq(Envelope)
    PROVE  /\ ToSet(list) \subseteq Envelope
           /\ \A e \in ToSet(list) : e.run \in RunsOf(list)
           /\ \A job \in Envelope : ToSet(Cons(job, list)) = {job} \cup ToSet(list)
           /\ list # <<>> => /\ Last(list) \in ToSet(list)
                            /\ ToSet(list) = ToSet(Front(list)) \cup {Last(list)}
           /\ \A back \in Seq(Envelope) :
                ToSet(list \o back) = ToSet(list) \cup ToSet(back)
<1>1. /\ Len(list) \in Nat
      /\ DOMAIN list = 1 .. Len(list)
      /\ \A i \in 1 .. Len(list) : list[i] \in Envelope
  BY LenProperties, ElementOfSeq
<1>2. ToSet(list) \subseteq Envelope /\ \A e \in ToSet(list) : e.run \in RunsOf(list)
  BY <1>1 DEF ToSet, RunsOf
<1>3. ASSUME NEW front \in Seq(Envelope), NEW back \in Seq(Envelope)
      PROVE  ToSet(front \o back) = ToSet(front) \cup ToSet(back)
  <2> DEFINE both == front \o back
             m == Len(front)
             n == Len(back)
  <2>1. /\ m \in Nat /\ n \in Nat
        /\ DOMAIN front = 1 .. m /\ DOMAIN back = 1 .. n
        /\ DOMAIN both = 1 .. (m + n)
        /\ \A i \in 1 .. m : both[i] = front[i]
        /\ \A i \in (m + 1) .. (m + n) : i - m \in 1 .. n /\ both[i] = back[i - m]
    BY ConcatAt
  <2> HIDE DEF both, m, n
  <2>2. ASSUME NEW i \in DOMAIN both
        PROVE  both[i] \in ToSet(front) \cup ToSet(back)
    <3>1. CASE i \in 1 .. m
      BY <2>1, <3>1 DEF ToSet
    <3>2. CASE i \in (m + 1) .. (m + n)
      BY <2>1, <3>2 DEF ToSet
    <3> QED BY <2>1, <3>1, <3>2
  <2>3. ASSUME NEW i \in DOMAIN front
        PROVE  front[i] \in ToSet(both)
    BY <2>1 DEF ToSet
  <2>4. ASSUME NEW i \in DOMAIN back
        PROVE  back[i] \in ToSet(both)
    <3>1. m + i \in DOMAIN both /\ both[m + i] = back[i]
      <4>1. /\ m + i \in (m + 1) .. (m + n) /\ m + i \in 1 .. (m + n)
            /\ (m + i) - m = i
        BY <2>1
      <4>2. both[m + i] = back[(m + i) - m]
        BY <2>1, <4>1
      <4> QED BY <2>1, <4>1, <4>2
    <3> QED BY <3>1 DEF ToSet
  <2> QED BY <2>2, <2>3, <2>4 DEF ToSet, both
<1>4. ASSUME NEW job \in Envelope
      PROVE  ToSet(Cons(job, list)) = {job} \cup ToSet(list)
  <2>1. <<job>> \in Seq(Envelope) /\ ToSet(<<job>>) = {job}
    BY DEF ToSet
  <2> QED BY <1>3, <2>1 DEF Cons
<1>5. ASSUME list # <<>>
      PROVE  /\ Last(list) \in ToSet(list)
             /\ ToSet(list) = ToSet(Front(list)) \cup {Last(list)}
  <2>1. Len(list) \in Nat \ {0}
    BY <1>5, EmptySeq
  <2>2. /\ Front(list) \in Seq(Envelope)
        /\ DOMAIN Front(list) = 1 .. (Len(list) - 1)
        /\ \A i \in 1 .. (Len(list) - 1) : Front(list)[i] = list[i]
    BY <1>1, <2>1, SubSeqProperties, LenProperties DEF Front
  <2>3. Last(list) = list[Len(list)]
    BY DEF Last
  <2> QED BY <1>1, <2>1, <2>2, <2>3 DEF ToSet
<1>6. \A job \in Envelope : ToSet(Cons(job, list)) = {job} \cup ToSet(list)
  BY <1>4
<1>7. \A back \in Seq(Envelope) : ToSet(list \o back) = ToSet(list) \cup ToSet(back)
  BY <1>3
<1> QED BY <1>2, <1>5, <1>6, <1>7

\* The runs of a well-typed list are runs.
LEMMA RunsOfType ==
    ASSUME NEW list \in Seq(Envelope)
    PROVE  RunsOf(list) \subseteq Runs
<1>1. \A i \in DOMAIN list : list[i] \in Envelope
  BY LenProperties, ElementOfSeq
<1>2. \A e \in Envelope : e.run \in Runs
  BY DEF Envelope
<1> QED BY <1>1, <1>2 DEF RunsOf

-----------------------------------------------------------------------------
(* The invariant                                                           *)

\* The three parts are inductive together: typing makes the list lemmas
\* apply, and each of the other two needs the other across Acknowledge.
QueueInv == QueueTypeOK /\ DedupeMatchesJobs /\ OneJobPerRun

LEMMA QueueInitInv == QueueInit => QueueInv
<1> SUFFICES ASSUME QueueInit PROVE QueueInv
  OBVIOUS
<1> USE DEF QueueInit
<1>1. QueueTypeOK
  BY DEF QueueTypeOK
<1>2. RunsOf(<<>>) = {} /\ NoRepeat(<<>>)
  BY DEF RunsOf, NoRepeat
<1>3. \A w \in Workers : processing[w] = <<>>
  OBVIOUS
<1>4. DedupeMatchesJobs
  BY <1>2, <1>3 DEF DedupeMatchesJobs
<1>5. OneJobPerRun
  BY <1>2, <1>3 DEF OneJobPerRun
<1> QED BY <1>1, <1>4, <1>5 DEF QueueInv

(***************************************************************************)
(* The invariant seen from one worker: pending, its own list and the lists *)
(* of the others.  Every action but Enqueue changes pending and one        *)
(* worker's list at most, so it preserves the invariant if it preserves    *)
(* this view of that worker.                                               *)
(***************************************************************************)
View(w) ==
    /\ NoRepeat(pending)
    /\ NoRepeat(processing[w])
    /\ RunsOf(pending) \cap RunsOf(processing[w]) = {}
    /\ \A v \in Workers \ {w} :
        /\ RunsOf(processing[v]) \cap RunsOf(pending) = {}
        /\ RunsOf(processing[v]) \cap RunsOf(processing[w]) = {}
    /\ \A r \in Runs :
        r \in dedupe <=> \/ r \in RunsOf(pending)
                         \/ r \in RunsOf(processing[w])
                         \/ \E v \in Workers \ {w} : r \in RunsOf(processing[v])

LEMMA ViewOfInv ==
    ASSUME QueueInv, NEW w \in Workers
    PROVE  View(w)
<1>1. \A v \in Workers : /\ NoRepeat(processing[v])
                         /\ RunsOf(pending) \cap RunsOf(processing[v]) = {}
  BY DEF QueueInv, OneJobPerRun
<1>2. \A v \in Workers \ {w} : RunsOf(processing[v]) \cap RunsOf(processing[w]) = {}
  BY DEF QueueInv, OneJobPerRun
<1>3. DedupeMatchesJobs /\ NoRepeat(pending)
  BY DEF QueueInv, OneJobPerRun
<1> QED BY <1>1, <1>2, <1>3 DEF DedupeMatchesJobs, View

LEMMA InvOfView ==
    ASSUME QueueInv, QueueTypeOK', NEW w \in Workers, View(w)',
           \A v \in Workers \ {w} : processing'[v] = processing[v]
    PROVE  QueueInv'
<1>1. DedupeMatchesJobs'
  BY DEF DedupeMatchesJobs, View
<1>2. OneJobPerRun'
  BY DEF QueueInv, OneJobPerRun, View
<1> QED BY <1>1, <1>2 DEF QueueInv

LEMMA EnqueueInv ==
    ASSUME QueueInv, NEW r \in Runs, Enqueue(r)
    PROVE  QueueInv'
<1>1. CASE r \in dedupe
  BY <1>1 DEF Enqueue, QueueInv, QueueTypeOK, DedupeMatchesJobs, OneJobPerRun
<1>2. CASE r \notin dedupe
  <2> DEFINE job == [run |-> r, attempts |-> 0]
  <2>1. job \in Envelope /\ job.run = r
    BY MaxAttemptsAssumption DEF Envelope
  <2>2. /\ pending' = Cons(job, pending)
        /\ dedupe' = dedupe \cup {r}
        /\ UNCHANGED <<processing, registered, leased, scan>>
    BY <1>2 DEF Enqueue
  <2> HIDE DEF job
  <2>3. /\ r \notin RunsOf(pending)
        /\ \A w \in Workers : r \notin RunsOf(processing[w])
        /\ pending \in Seq(Envelope)
        /\ NoRepeat(pending)
    BY <1>2 DEF QueueInv, QueueTypeOK, DedupeMatchesJobs, OneJobPerRun
  <2>4. /\ pending' \in Seq(Envelope)
        /\ RunsOf(pending') = RunsOf(pending) \cup {r}
        /\ NoRepeat(pending')
    BY <2>1, <2>2, <2>3, ConsJob
  <2>5. QueueTypeOK'
    BY <2>2, <2>4 DEF QueueInv, QueueTypeOK
  <2>6. DedupeMatchesJobs'
    BY <2>2, <2>4 DEF QueueInv, DedupeMatchesJobs
  <2>7. OneJobPerRun'
    BY <2>2, <2>3, <2>4 DEF QueueInv, OneJobPerRun
  <2> QED BY <2>5, <2>6, <2>7 DEF QueueInv
<1> QED BY <1>1, <1>2

LEMMA ClaimInv ==
    ASSUME QueueInv, NEW w \in Workers, Claim(w)
    PROVE  QueueInv'
<1> DEFINE job == Last(pending)
<1>1. /\ pending # <<>>
      /\ pending' = Front(pending)
      /\ processing' = [processing EXCEPT ![w] = Cons(job, processing[w])]
      /\ UNCHANGED <<registered, leased, dedupe, scan>>
  BY DEF Claim
<1>2. View(w)
  BY ViewOfInv
<1>3. /\ pending \in Seq(Envelope)
      /\ processing \in [Workers -> Seq(Envelope)]
  BY DEF QueueInv, QueueTypeOK
<1>4. /\ pending' \in Seq(Envelope)
      /\ job \in Envelope
      /\ RunsOf(pending) = RunsOf(pending') \cup {job.run}
      /\ NoRepeat(pending')
      /\ job.run \notin RunsOf(pending')
  BY <1>1, <1>2, <1>3, PopJob DEF View
<1> HIDE DEF job
<1>5. /\ processing'[w] = Cons(job, processing[w])
      /\ \A v \in Workers \ {w} : processing'[v] = processing[v]
  BY <1>1, <1>3
<1>6. /\ processing'[w] \in Seq(Envelope)
      /\ RunsOf(processing'[w]) = RunsOf(processing[w]) \cup {job.run}
      /\ NoRepeat(processing'[w])
  <2>1. job.run \notin RunsOf(processing[w])
    BY <1>2, <1>4 DEF View
  <2>2. processing[w] \in Seq(Envelope) /\ NoRepeat(processing[w])
    BY <1>2, <1>3 DEF View
  <2> QED BY <1>4, <1>5, <2>1, <2>2, ConsJob
<1>7. QueueTypeOK'
  BY <1>1, <1>4, <1>6 DEF QueueInv, QueueTypeOK
<1>8. View(w)'
  BY <1>1, <1>2, <1>4, <1>5, <1>6 DEF View
<1> QED BY <1>5, <1>7, <1>8, InvOfView

LEMMA AcknowledgeInv ==
    ASSUME QueueInv, NEW w \in Workers, NEW job \in Envelope, Acknowledge(w, job)
    PROVE  QueueInv'
<1>1. CASE job \notin ToSet(processing[w])
  BY <1>1 DEF Acknowledge, QueueInv, QueueTypeOK, DedupeMatchesJobs, OneJobPerRun
<1>2. CASE job \in ToSet(processing[w])
  <2>1. /\ processing' = [processing EXCEPT ![w] = RemoveFirst(processing[w], job)]
        /\ dedupe' = dedupe \ {job.run}
        /\ UNCHANGED <<pending, registered, leased, scan>>
    BY <1>2 DEF Acknowledge
  <2>2. View(w) /\ processing \in [Workers -> Seq(Envelope)]
    BY ViewOfInv DEF QueueInv, QueueTypeOK
  <2>3. /\ processing'[w] = RemoveFirst(processing[w], job)
        /\ \A v \in Workers \ {w} : processing'[v] = processing[v]
    BY <2>1, <2>2
  <2>4. /\ processing'[w] \in Seq(Envelope)
        /\ RunsOf(processing'[w]) = RunsOf(processing[w]) \ {job.run}
        /\ job.run \in RunsOf(processing[w])
        /\ NoRepeat(processing'[w])
    BY <1>2, <2>2, <2>3, RemoveJob DEF View
  <2>5. QueueTypeOK'
    BY <2>1, <2>4 DEF QueueInv, QueueTypeOK
  <2>6. View(w)'
    BY <2>1, <2>2, <2>3, <2>4 DEF View
  <2> QED BY <2>3, <2>5, <2>6, InvOfView
<1> QED BY <1>1, <1>2

LEMMA RetryInv ==
    ASSUME QueueInv, NEW w \in Workers, NEW job \in Envelope,
           job.attempts + 1 < MaxAttempts, Retry(w, job)
    PROVE  QueueInv'
<1>1. CASE job \notin ToSet(processing[w])
  BY <1>1 DEF Retry, QueueInv, QueueTypeOK, DedupeMatchesJobs, OneJobPerRun
<1>2. CASE job \in ToSet(processing[w])
  <2> DEFINE retried == [job EXCEPT !.attempts = @ + 1]
  <2>1. /\ processing' = [processing EXCEPT ![w] = RemoveFirst(processing[w], job)]
        /\ pending' = Cons(retried, pending)
        /\ UNCHANGED <<registered, leased, dedupe, scan>>
    BY <1>2 DEF Retry
  <2>2. retried \in Envelope /\ retried.run = job.run
    BY MaxAttemptsAssumption DEF Envelope
  <2> HIDE DEF retried
  <2>3. /\ View(w)
        /\ pending \in Seq(Envelope)
        /\ processing \in [Workers -> Seq(Envelope)]
    BY ViewOfInv DEF QueueInv, QueueTypeOK
  <2>4. /\ processing'[w] = RemoveFirst(processing[w], job)
        /\ \A v \in Workers \ {w} : processing'[v] = processing[v]
    BY <2>1, <2>3
  <2>5. /\ processing'[w] \in Seq(Envelope)
        /\ RunsOf(processing'[w]) = RunsOf(processing[w]) \ {job.run}
        /\ job.run \in RunsOf(processing[w])
        /\ NoRepeat(processing'[w])
    BY <1>2, <2>3, <2>4, RemoveJob DEF View
  <2>6. /\ pending' \in Seq(Envelope)
        /\ RunsOf(pending') = RunsOf(pending) \cup {job.run}
        /\ NoRepeat(pending')
    <3>1. job.run \notin RunsOf(pending) /\ NoRepeat(pending)
      BY <2>3, <2>5 DEF View
    <3> QED BY <2>1, <2>2, <2>3, <3>1, ConsJob
  <2>7. QueueTypeOK'
    BY <2>1, <2>5, <2>6 DEF QueueInv, QueueTypeOK
  <2>8. View(w)'
    BY <2>1, <2>3, <2>4, <2>5, <2>6 DEF View
  <2> QED BY <2>4, <2>7, <2>8, InvOfView
<1> QED BY <1>1, <1>2

LEMMA RecoverInv ==
    ASSUME QueueInv, NEW v \in Workers, NEW w \in Workers, Recover(v, w)
    PROVE  QueueInv'
<1>0. scan' \in [Workers -> SUBSET Workers]
  BY DEF Recover, QueueInv, QueueTypeOK
<1>1. CASE w \in leased
  BY <1>0, <1>1 DEF Recover, QueueInv, QueueTypeOK, DedupeMatchesJobs, OneJobPerRun
<1>2. CASE w \notin leased
  <2>1. /\ pending' = processing[w] \o pending
        /\ processing' = [processing EXCEPT ![w] = <<>>]
        /\ registered' = registered \ {w}
        /\ UNCHANGED <<leased, dedupe>>
    BY <1>2 DEF Recover
  <2>2. /\ View(w)
        /\ pending \in Seq(Envelope)
        /\ processing \in [Workers -> Seq(Envelope)]
    BY ViewOfInv DEF QueueInv, QueueTypeOK
  <2>3. /\ processing'[w] = <<>>
        /\ \A u \in Workers \ {w} : processing'[u] = processing[u]
    BY <2>1, <2>2
  <2>4. /\ pending' \in Seq(Envelope)
        /\ RunsOf(pending') = RunsOf(processing[w]) \cup RunsOf(pending)
        /\ NoRepeat(pending')
    BY <2>1, <2>2, ConcatJobs DEF View
  <2>5. /\ processing'[w] \in Seq(Envelope)
        /\ RunsOf(processing'[w]) = {}
        /\ NoRepeat(processing'[w])
    BY <2>3 DEF RunsOf, NoRepeat
  <2>6. QueueTypeOK'
    BY <1>0, <2>1, <2>4, <2>5 DEF QueueInv, QueueTypeOK
  <2>7. View(w)'
    BY <2>1, <2>2, <2>3, <2>4, <2>5 DEF View
  <2> QED BY <2>3, <2>6, <2>7, InvOfView
<1> QED BY <1>1, <1>2

\* The actions that leave the four job-carrying keys alone.
LEMMA OtherInv ==
    ASSUME QueueInv, NEW w \in Workers,
           Heartbeat(w) \/ LeaseExpires(w) \/ ScanWorkers(w) \/ AbortScan(w)
    PROVE  QueueInv'
<1>1. UNCHANGED <<pending, processing, dedupe>>
  BY DEF Heartbeat, LeaseExpires, ScanWorkers, AbortScan
<1>2. QueueTypeOK'
  BY DEF QueueInv, QueueTypeOK, Heartbeat, LeaseExpires, ScanWorkers, AbortScan
<1> QED BY <1>1, <1>2 DEF QueueInv, DedupeMatchesJobs, OneJobPerRun

LEMMA QueueNextInv == QueueInv /\ [QueueNext]_queueVars => QueueInv'
<1> SUFFICES ASSUME QueueInv, [QueueNext]_queueVars PROVE QueueInv'
  OBVIOUS
<1>1. CASE UNCHANGED queueVars
  BY <1>1 DEF queueVars, QueueInv, QueueTypeOK, DedupeMatchesJobs, OneJobPerRun
<1>2. CASE \E r \in Runs : Enqueue(r)
  BY <1>2, EnqueueInv
<1>3. ASSUME NEW w \in Workers,
             Heartbeat(w) \/ LeaseExpires(w) \/ ScanWorkers(w) \/ AbortScan(w)
      PROVE  QueueInv'
  BY <1>3, OtherInv
<1>4. ASSUME NEW w \in Workers, Claim(w) PROVE QueueInv'
  BY <1>4, ClaimInv
<1>5. ASSUME NEW w \in Workers, NEW job \in Envelope, Acknowledge(w, job)
      PROVE  QueueInv'
  BY <1>5, AcknowledgeInv
<1>6. ASSUME NEW w \in Workers, NEW job \in Envelope,
             job.attempts + 1 < MaxAttempts, Retry(w, job)
      PROVE  QueueInv'
  BY <1>6, RetryInv
<1>7. ASSUME NEW w \in Workers, NEW v \in Workers, Recover(w, v)
      PROVE  QueueInv'
  BY <1>7, RecoverInv
<1> QED BY <1>1, <1>2, <1>3, <1>4, <1>5, <1>6, <1>7 DEF QueueNext

(***************************************************************************)
(* The queue keys are always well typed, agree with one another and hold   *)
(* one job per run at most, whatever the clients of the queue do.          *)
(***************************************************************************)
THEOREM QueueInvariant == QueueSpec => []QueueInv
<1>1. QueueInit => QueueInv
  BY QueueInitInv
<1>2. QueueInv /\ [QueueNext]_queueVars => QueueInv'
  BY QueueNextInv
<1> QED BY <1>1, <1>2, PTL DEF QueueSpec

\* Every queue key has its type in every reachable state.
THEOREM QueueTypeCorrect == QueueSpec => []QueueTypeOK
<1>1. QueueInv => QueueTypeOK
  BY DEF QueueInv
<1> QED BY <1>1, QueueInvariant, PTL

\* The deduplication set and the lists never disagree (enqueue, acknowledge).
THEOREM DedupeCorrect == QueueSpec => []DedupeMatchesJobs
<1>1. QueueInv => DedupeMatchesJobs
  BY DEF QueueInv
<1> QED BY <1>1, QueueInvariant, PTL

(***************************************************************************)
(* A job leaves the list of a worker whose lease exists before and after   *)
(* the step only by that worker's own acknowledge or retry of it, whatever *)
(* recovery runs at the same time.                                         *)
(***************************************************************************)
THEOREM LeaseProtectsCorrect == QueueSpec => LeaseProtectsJobs
<1> DEFINE Protected(w) ==
              w \in leased /\ w \in leased' =>
                \/ RunsOf(processing[w]) \subseteq RunsOf(processing'[w])
                \/ \E job \in ToSet(processing[w]) : Acknowledge(w, job) \/ Retry(w, job)
<1>1. ASSUME QueueInv, QueueNext, NEW w \in Workers
      PROVE  Protected(w)
  <2>1. processing \in [Workers -> Seq(Envelope)] /\ pending \in Seq(Envelope)
    BY <1>1 DEF QueueInv, QueueTypeOK
  <2>2. CASE processing'[w] = processing[w]
    BY <2>2
  <2>3. ASSUME NEW v \in Workers, Claim(v)
        PROVE  Protected(w)
    <3>1. CASE v # w
      BY <2>1, <2>2, <2>3, <3>1 DEF Claim
    <3>2. CASE v = w
      <4>1. pending # <<>> /\ processing'[w] = Cons(Last(pending), processing[w])
        BY <2>1, <2>3, <3>2 DEF Claim
      <4>2. Last(pending) \in Envelope /\ processing[w] \in Seq(Envelope)
        BY <2>1, <4>1, PopJob
      <4> QED BY <4>1, <4>2, ConsJob
    <3> QED BY <3>1, <3>2
  <2>4. ASSUME NEW v \in Workers, NEW job \in Envelope, Acknowledge(v, job) \/ Retry(v, job)
        PROVE  Protected(w)
    <3>1. CASE v # w \/ job \notin ToSet(processing[v])
      BY <2>1, <2>2, <2>4, <3>1 DEF Acknowledge, Retry
    <3>2. CASE v = w /\ job \in ToSet(processing[v])
      BY <2>4, <3>2
    <3> QED BY <3>1, <3>2
  <2>5. ASSUME NEW u \in Workers, NEW v \in Workers, Recover(u, v)
        PROVE  Protected(w)
    BY <2>1, <2>2, <2>5 DEF Recover
  <2>6. CASE UNCHANGED processing
    BY <2>2, <2>6
  <2>7. \/ UNCHANGED processing
        \/ \E v \in Workers :
            \/ Claim(v)
            \/ \E job \in Envelope : Acknowledge(v, job) \/ Retry(v, job)
            \/ \E u \in Workers : Recover(v, u)
    BY <1>1 DEF QueueNext, Enqueue, Heartbeat, LeaseExpires, ScanWorkers, AbortScan
  <2> QED BY <2>3, <2>4, <2>5, <2>6, <2>7
<1>2. QueueInv /\ [QueueNext]_queueVars => [\A w \in Workers : Protected(w)]_queueVars
  BY <1>1
<1> QED BY <1>2, QueueInvariant, PTL DEF QueueSpec, LeaseProtectsJobs

\* No interleaving of stale calls and recoveries gives a run a second job.
THEOREM OneJobCorrect == QueueSpec => []OneJobPerRun
<1>1. QueueInv => OneJobPerRun
  BY DEF QueueInv
<1> QED BY <1>1, QueueInvariant, PTL

=============================================================================
