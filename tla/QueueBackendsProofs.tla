-------------------------- MODULE QueueBackendsProofs --------------------------
(***************************************************************************)
(* Both backends of create_queue keep the promise of JobQueue, for every   *)
(* set of runs and workers: the refinement of the abstract queue, step by  *)
(* step.                                                                   *)
(***************************************************************************)
EXTENDS QueueBackends, RedisQueueProofs

-----------------------------------------------------------------------------
(* Jobs of the abstract queue                                              *)

\* An envelope in the hands of h.
JobOf(e, h) == [run |-> e.run, attempts |-> e.attempts, holder |-> h]

\* What either backend keeps in its lists; the bound on attempts is not needed.
Item == [run : Runs, attempts : Nat]

LEMMA EnvelopeIsItem == Envelope \subseteq Item
  BY MaxAttemptsAssumption DEF Envelope, Item

\* A job of the abstract queue determines the envelope and its holder.
LEMMA JobOfFacts ==
    /\ \A e, f \in Item : \A g, h : JobOf(e, g) = JobOf(f, h) => e = f /\ g = h
    /\ \A e, h : /\ JobOf(e, h).run = e.run
                 /\ JobOf(e, h).attempts = e.attempts
                 /\ JobOf(e, h).holder = h
    /\ \A e, g, h : [JobOf(e, g) EXCEPT !.holder = h] = JobOf(e, h)
    /\ \A h, S : HeldBy(h, S) = {JobOf(e, h) : e \in S}
  BY DEF JobOf, Item, HeldBy

\* The jobs of the Redis queue, member by member.
LEMMA InRedisJobs ==
    \A x : x \in RedisJobs <=>
        \/ \E e \in ToSet(pending) : x = JobOf(e, Nobody)
        \/ \E w \in Workers : \E e \in ToSet(processing[w]) : x = JobOf(e, w)
  BY JobOfFacts DEF RedisJobs

\* The deduplication set is the set of runs that have a job.
RedisKnows == dedupe = {j.run : j \in RedisJobs}

LEMMA KnownRuns == QueueInv => RedisKnows
<1> SUFFICES ASSUME QueueInv PROVE RedisKnows
  OBVIOUS
<1>1. /\ pending \in Seq(Envelope) /\ processing \in [Workers -> Seq(Envelope)]
      /\ dedupe \subseteq Runs
  BY DEF QueueInv, QueueTypeOK
<1>2. ASSUME NEW r \in dedupe
      PROVE  \E j \in RedisJobs : j.run = r
  <2>1. CASE r \in RunsOf(pending)
    <3>1. PICK i \in DOMAIN pending : pending[i].run = r
      BY <2>1 DEF RunsOf
    <3>2. JobOf(pending[i], Nobody) \in RedisJobs
      BY InRedisJobs DEF ToSet
    <3> QED BY <3>1, <3>2, JobOfFacts
  <2>2. ASSUME NEW w \in Workers, r \in RunsOf(processing[w])
        PROVE  \E j \in RedisJobs : j.run = r
    <3>1. PICK i \in DOMAIN processing[w] : processing[w][i].run = r
      BY <2>2 DEF RunsOf
    <3>2. JobOf(processing[w][i], w) \in RedisJobs
      BY InRedisJobs DEF ToSet
    <3> QED BY <3>1, <3>2, JobOfFacts
  <2> QED BY <1>1, <2>1, <2>2 DEF QueueInv, DedupeMatchesJobs
<1>3. ASSUME NEW j \in RedisJobs
      PROVE  j.run \in dedupe
  <2>1. ASSUME NEW e \in ToSet(pending), j = JobOf(e, Nobody)
        PROVE  j.run \in dedupe
    <3>1. e.run \in RunsOf(pending) /\ e.run \in Runs
      BY <1>1, JobSets, RunsOfType
    <3> QED BY <2>1, <3>1, JobOfFacts DEF QueueInv, DedupeMatchesJobs
  <2>2. ASSUME NEW w \in Workers, NEW e \in ToSet(processing[w]), j = JobOf(e, w)
        PROVE  j.run \in dedupe
    <3>1. e.run \in RunsOf(processing[w]) /\ e.run \in Runs
      BY <1>1, JobSets, RunsOfType
    <3> QED BY <2>2, <3>1, JobOfFacts DEF QueueInv, DedupeMatchesJobs
  <2> QED BY <2>1, <2>2, InRedisJobs
<1> QED BY <1>2, <1>3 DEF RedisKnows

-----------------------------------------------------------------------------
(* Every command of the Redis queue is one step of the abstract queue      *)

LEMMA EnqueueIsAccept ==
    ASSUME QueueInv, NEW r \in Runs, Enqueue(r)
    PROVE  \/ RedisJobs' = RedisJobs
           \/ /\ r \notin dedupe
              /\ RedisJobs' = RedisJobs
                    \cup {[run |-> r, attempts |-> 0, holder |-> Nobody]}
<1>1. CASE r \in dedupe
  BY <1>1 DEF Enqueue, RedisJobs
<1>2. CASE r \notin dedupe
  <2> DEFINE new == [run |-> r, attempts |-> 0]
  <2>1. new \in Envelope /\ JobOf(new, Nobody) = [run |-> r, attempts |-> 0, holder |-> Nobody]
    BY MaxAttemptsAssumption DEF Envelope, JobOf
  <2>2. pending' = Cons(new, pending) /\ UNCHANGED processing
    BY <1>2 DEF Enqueue
  <2> HIDE DEF new
  <2>3. ToSet(pending') = {new} \cup ToSet(pending)
    BY <2>1, <2>2, JobSets DEF QueueInv, QueueTypeOK
  <2>4. RedisJobs' = RedisJobs \cup {JobOf(new, Nobody)}
    BY <2>2, <2>3, JobOfFacts DEF RedisJobs
  <2> QED BY <1>2, <2>1, <2>4
<1> QED BY <1>1, <1>2

LEMMA ClaimIsTake ==
    ASSUME QueueInv, NEW w \in Workers, Claim(w)
    PROVE  \E j \in RedisJobs :
                /\ j.holder = Nobody
                /\ RedisJobs' = (RedisJobs \ {j}) \cup {[j EXCEPT !.holder = w]}
<1> DEFINE e == Last(pending)
           j == JobOf(e, Nobody)
<1>1. /\ pending \in Seq(Envelope) /\ processing \in [Workers -> Seq(Envelope)]
      /\ NoRepeat(pending)
  BY DEF QueueInv, QueueTypeOK, OneJobPerRun
<1>2. /\ pending # <<>> /\ pending' = Front(pending)
      /\ processing'[w] = Cons(e, processing[w])
      /\ \A v \in Workers \ {w} : processing'[v] = processing[v]
  BY <1>1 DEF Claim
<1>3. /\ e \in Envelope /\ e \in ToSet(pending)
      /\ ToSet(pending) = ToSet(pending') \cup {e}
      /\ e \notin ToSet(pending')
  <2>1. /\ e \in Envelope /\ Front(pending) \in Seq(Envelope)
        /\ e.run \notin RunsOf(Front(pending))
    BY <1>1, <1>2, PopJob
  <2>2. e \in ToSet(pending) /\ ToSet(pending) = ToSet(Front(pending)) \cup {e}
    BY <1>1, <1>2, JobSets
  <2>3. \A f \in ToSet(Front(pending)) : f.run \in RunsOf(Front(pending))
    BY <2>1, JobSets
  <2> QED BY <1>2, <2>1, <2>2, <2>3
<1>4. ToSet(processing'[w]) = {e} \cup ToSet(processing[w])
  BY <1>1, <1>2, <1>3, JobSets
<1>5. /\ ToSet(pending) \subseteq Item
      /\ \A v \in Workers : ToSet(processing[v]) \subseteq Item
  BY <1>1, JobSets, EnvelopeIsItem
<1> HIDE DEF e
<1>6. j \in RedisJobs /\ j.holder = Nobody /\ [j EXCEPT !.holder = w] = JobOf(e, w)
  BY <1>3, InRedisJobs, JobOfFacts
<1> HIDE DEF j
<1>7. ASSUME NEW x
      PROVE  x \in RedisJobs' <=> x \in (RedisJobs \ {j}) \cup {JobOf(e, w)}
  <2>1. x \in RedisJobs' <=>
            \/ \E f \in ToSet(pending') : x = JobOf(f, Nobody)
            \/ \E v \in Workers : \E f \in ToSet(processing'[v]) : x = JobOf(f, v)
    BY JobOfFacts DEF RedisJobs
  <2>2. (\E f \in ToSet(pending') : x = JobOf(f, Nobody))
            <=> (\E f \in ToSet(pending) : x = JobOf(f, Nobody)) /\ x # j
    BY <1>3, <1>5, JobOfFacts DEF j
  <2>3. (\E v \in Workers : \E f \in ToSet(processing'[v]) : x = JobOf(f, v))
            <=> \/ x = JobOf(e, w)
                \/ \E v \in Workers : \E f \in ToSet(processing[v]) : x = JobOf(f, v)
    BY <1>2, <1>4
  <2>4. (\E v \in Workers : \E f \in ToSet(processing[v]) : x = JobOf(f, v)) => x # j
    BY JobOfFacts, HoldersAssumption DEF j
  <2> QED BY <2>1, <2>2, <2>3, <2>4, InRedisJobs
<1>8. RedisJobs' = (RedisJobs \ {j}) \cup {JobOf(e, w)}
  BY <1>7
<1> QED BY <1>6, <1>8

\* LREM by the holder takes exactly the job out, whatever else it does.
LEMMA SettledJob ==
    ASSUME QueueInv, NEW w \in Workers, NEW e \in ToSet(processing[w]),
           processing' = [processing EXCEPT ![w] = RemoveFirst(@, e)],
           NEW P, ToSet(pending') = ToSet(pending) \cup P
    PROVE  /\ JobOf(e, w) \in RedisJobs
           /\ JobOf(e, w).holder # Nobody
           /\ RedisJobs' = (RedisJobs \ {JobOf(e, w)}) \cup HeldBy(Nobody, P)
<1>1. /\ pending \in Seq(Envelope) /\ processing \in [Workers -> Seq(Envelope)]
      /\ NoRepeat(processing[w])
  BY DEF QueueInv, QueueTypeOK, OneJobPerRun
<1>2. /\ ToSet(processing'[w]) = ToSet(processing[w]) \ {e}
      /\ \A v \in Workers \ {w} : processing'[v] = processing[v]
  BY <1>1, RemoveJob
<1>3. \A v \in Workers : ToSet(processing[v]) \subseteq Item
  BY <1>1, JobSets, EnvelopeIsItem
<1>4. JobOf(e, w) \in RedisJobs /\ JobOf(e, w).holder # Nobody
  BY InRedisJobs, JobOfFacts, HoldersAssumption
<1>5. ASSUME NEW x
      PROVE  x \in RedisJobs' <=> x \in (RedisJobs \ {JobOf(e, w)}) \cup HeldBy(Nobody, P)
  <2>1. x \in RedisJobs' <=>
            \/ \E f \in ToSet(pending') : x = JobOf(f, Nobody)
            \/ \E v \in Workers : \E f \in ToSet(processing'[v]) : x = JobOf(f, v)
    BY JobOfFacts DEF RedisJobs
  <2>2. (\E f \in ToSet(pending') : x = JobOf(f, Nobody))
            <=> (\E f \in ToSet(pending) : x = JobOf(f, Nobody)) \/ x \in HeldBy(Nobody, P)
    BY JobOfFacts
  <2>3. (\E v \in Workers : \E f \in ToSet(processing'[v]) : x = JobOf(f, v))
            <=> /\ x # JobOf(e, w)
                /\ \E v \in Workers : \E f \in ToSet(processing[v]) : x = JobOf(f, v)
    <3>1. ASSUME NEW v \in Workers, NEW f \in ToSet(processing'[v])
          PROVE  f \in ToSet(processing[v]) /\ JobOf(f, v) # JobOf(e, w)
      BY <1>2, <1>3, JobOfFacts
    <3>2. ASSUME NEW v \in Workers, NEW f \in ToSet(processing[v]), JobOf(f, v) # JobOf(e, w)
          PROVE  f \in ToSet(processing'[v])
      BY <1>2, <3>2
    <3> QED BY <3>1, <3>2
  <2>4. (\E f \in ToSet(pending) : x = JobOf(f, Nobody)) => x # JobOf(e, w)
    BY <1>4, JobOfFacts
  <2> QED BY <2>1, <2>2, <2>3, <2>4, InRedisJobs
<1> QED BY <1>4, <1>5

LEMMA AcknowledgeIsFinish ==
    ASSUME QueueInv, NEW w \in Workers, NEW e \in Envelope, Acknowledge(w, e)
    PROVE  \/ RedisJobs' = RedisJobs
           \/ \E j \in RedisJobs : j.holder # Nobody /\ RedisJobs' = RedisJobs \ {j}
<1>1. CASE e \notin ToSet(processing[w])
  BY <1>1 DEF Acknowledge, RedisJobs
<1>2. CASE e \in ToSet(processing[w])
  <2>1. /\ processing' = [processing EXCEPT ![w] = RemoveFirst(@, e)]
        /\ ToSet(pending') = ToSet(pending) \cup {}
    BY <1>2 DEF Acknowledge
  <2>2. HeldBy(Nobody, {}) = {}
    BY DEF HeldBy
  <2>3. /\ JobOf(e, w) \in RedisJobs
        /\ JobOf(e, w).holder # Nobody
        /\ RedisJobs' = (RedisJobs \ {JobOf(e, w)}) \cup HeldBy(Nobody, {})
    BY <1>2, <2>1, SettledJob
  <2>4. RedisJobs' = RedisJobs \ {JobOf(e, w)}
    BY <2>2, <2>3
  <2> QED BY <2>3, <2>4
<1> QED BY <1>1, <1>2

LEMMA RetryIsTryAgain ==
    ASSUME QueueInv, NEW w \in Workers, NEW e \in Envelope,
           e.attempts + 1 < MaxAttempts, Retry(w, e)
    PROVE  \/ RedisJobs' = RedisJobs
           \/ \E j \in RedisJobs :
                /\ j.holder # Nobody
                /\ RedisJobs' = (RedisJobs \ {j}) \cup
                        {[run |-> j.run, attempts |-> j.attempts + 1, holder |-> Nobody]}
<1>1. CASE e \notin ToSet(processing[w])
  BY <1>1 DEF Retry, RedisJobs
<1>2. CASE e \in ToSet(processing[w])
  <2> DEFINE retried == [e EXCEPT !.attempts = @ + 1]
  <2>1. /\ processing' = [processing EXCEPT ![w] = RemoveFirst(@, e)]
        /\ pending' = Cons(retried, pending)
    BY <1>2 DEF Retry
  <2>2. retried \in Envelope /\ retried.run = e.run /\ retried.attempts = e.attempts + 1
    BY MaxAttemptsAssumption DEF Envelope
  <2> HIDE DEF retried
  <2>3. ToSet(pending') = ToSet(pending) \cup {retried}
    BY <2>1, <2>2, JobSets DEF QueueInv, QueueTypeOK
  <2>4. HeldBy(Nobody, {retried}) =
            {[run |-> JobOf(e, w).run, attempts |-> JobOf(e, w).attempts + 1,
              holder |-> Nobody]}
    BY <2>2 DEF HeldBy, JobOf
  <2> QED BY <1>2, <2>1, <2>3, <2>4, SettledJob
<1> QED BY <1>1, <1>2

LEMMA RecoverIsGiveBack ==
    ASSUME QueueInv, NEW v \in Workers, NEW w \in Workers, Recover(v, w)
    PROVE  \/ RedisJobs' = RedisJobs
           \/ RedisJobs' =
                {[j EXCEPT !.holder = IF @ = w THEN Nobody ELSE @] : j \in RedisJobs}
<1>1. CASE w \in leased
  BY <1>1 DEF Recover, RedisJobs
<1>2. CASE w \notin leased
  <2>1. /\ pending \in Seq(Envelope) /\ processing \in [Workers -> Seq(Envelope)]
        /\ processing[w] \in Seq(Envelope)
    BY DEF QueueInv, QueueTypeOK
  <2>2. /\ pending' = processing[w] \o pending
        /\ processing'[w] = <<>>
        /\ \A u \in Workers \ {w} : processing'[u] = processing[u]
    BY <1>2, <2>1 DEF Recover
  <2>3. /\ ToSet(pending') = ToSet(processing[w]) \cup ToSet(pending)
        /\ ToSet(<<>>) = {}
    <3>1. ToSet(processing[w] \o pending) = ToSet(processing[w]) \cup ToSet(pending)
      BY <2>1, JobSets
    <3>2. ToSet(<<>>) = {}
      BY DEF ToSet
    <3> QED BY <2>2, <3>1, <3>2
  <2> DEFINE back(j) == [j EXCEPT !.holder = IF @ = w THEN Nobody ELSE @]
  <2>4. \A e, h : back(JobOf(e, h)) = JobOf(e, IF h = w THEN Nobody ELSE h)
    BY DEF JobOf
  <2> HIDE DEF back
  <2>5. ASSUME NEW x \in RedisJobs'
        PROVE  \E j \in RedisJobs : x = back(j)
    <3>1. \/ \E e \in ToSet(pending') : x = JobOf(e, Nobody)
          \/ \E u \in Workers : \E e \in ToSet(processing'[u]) : x = JobOf(e, u)
      BY <2>5, JobOfFacts DEF RedisJobs
    <3>2. ASSUME NEW e \in ToSet(pending), x = JobOf(e, Nobody)
          PROVE  \E j \in RedisJobs : x = back(j)
      <4>1. JobOf(e, Nobody) \in RedisJobs
        BY InRedisJobs
      <4> QED BY <2>4, <3>2, <4>1
    <3>3. ASSUME NEW e \in ToSet(processing[w]), x = JobOf(e, Nobody)
          PROVE  \E j \in RedisJobs : x = back(j)
      <4>1. JobOf(e, w) \in RedisJobs
        BY InRedisJobs
      <4> QED BY <2>4, <3>3, <4>1
    <3>4. ASSUME NEW u \in Workers \ {w}, NEW e \in ToSet(processing[u]), x = JobOf(e, u)
          PROVE  \E j \in RedisJobs : x = back(j)
      <4>1. JobOf(e, u) \in RedisJobs
        BY InRedisJobs
      <4> QED BY <2>4, <3>4, <4>1
    <3> QED BY <2>2, <2>3, <3>1, <3>2, <3>3, <3>4
  <2>6. ASSUME NEW j \in RedisJobs
        PROVE  back(j) \in RedisJobs'
    <3>1. \A x : (\/ \E e \in ToSet(pending') : x = JobOf(e, Nobody)
                  \/ \E u \in Workers : \E e \in ToSet(processing'[u]) : x = JobOf(e, u))
                 => x \in RedisJobs'
      BY JobOfFacts DEF RedisJobs
    <3>2. ASSUME NEW e \in ToSet(pending), j = JobOf(e, Nobody)
          PROVE  back(j) \in RedisJobs'
      <4>1. back(j) = JobOf(e, Nobody)
        BY <2>4, <3>2
      <4> QED BY <2>3, <3>1, <4>1
    <3>3. ASSUME NEW e \in ToSet(processing[w]), j = JobOf(e, w)
          PROVE  back(j) \in RedisJobs'
      <4>1. back(j) = JobOf(e, Nobody)
        BY <2>4, <3>3
      <4> QED BY <2>3, <3>1, <4>1
    <3>4. ASSUME NEW u \in Workers \ {w}, NEW e \in ToSet(processing[u]), j = JobOf(e, u)
          PROVE  back(j) \in RedisJobs'
      <4>1. back(j) = JobOf(e, u)
        BY <2>4, <3>4
      <4> QED BY <2>2, <3>1, <4>1
    <3> QED BY <3>2, <3>3, <3>4, InRedisJobs
  <2>7. RedisJobs' = {back(j) : j \in RedisJobs}
    BY <2>5, <2>6
  <2> QED BY <2>7 DEF back
<1> QED BY <1>1, <1>2

\* The step of the promise that a command of the Redis queue takes.
LEMMA RedisKeepsPromise ==
    ASSUME QueueInv, RedisKnows, RedisKnows', QueueNext,
           backend = "redis", backend' = "redis"
    PROVE  [Promise!PromiseNext]_Promise!promiseVars
<1>1. dedupe = {j.run : j \in RedisJobs} /\ dedupe' = {j.run : j \in RedisJobs'}
  BY DEF RedisKnows
<1>2. CASE RedisJobs' = RedisJobs
  BY <1>1, <1>2 DEF Promise!promiseVars
<1>3. ASSUME NEW r \in Runs, Enqueue(r)
      PROVE  [Promise!PromiseNext]_Promise!promiseVars
  BY <1>1, <1>2, <1>3, EnqueueIsAccept DEF Promise!PromiseNext, Promise!Accept
<1>4. ASSUME NEW w \in Workers, Claim(w)
      PROVE  Promise!PromiseNext
  BY <1>1, <1>4, ClaimIsTake DEF Promise!PromiseNext, Promise!Take
<1>5. ASSUME NEW w \in Workers, NEW e \in Envelope, Acknowledge(w, e)
      PROVE  [Promise!PromiseNext]_Promise!promiseVars
  BY <1>1, <1>2, <1>5, AcknowledgeIsFinish DEF Promise!PromiseNext, Promise!Finish
<1>6. ASSUME NEW w \in Workers, NEW e \in Envelope, e.attempts + 1 < MaxAttempts, Retry(w, e)
      PROVE  [Promise!PromiseNext]_Promise!promiseVars
  BY <1>1, <1>2, <1>6, RetryIsTryAgain DEF Promise!PromiseNext, Promise!TryAgain
<1>7. ASSUME NEW v \in Workers, NEW w \in Workers, Recover(v, w)
      PROVE  [Promise!PromiseNext]_Promise!promiseVars
  BY <1>1, <1>2, <1>7, RecoverIsGiveBack DEF Promise!PromiseNext, Promise!GiveBack
<1>8. ASSUME NEW w \in Workers,
             Heartbeat(w) \/ LeaseExpires(w) \/ ScanWorkers(w) \/ AbortScan(w)
      PROVE  RedisJobs' = RedisJobs
  BY <1>8 DEF Heartbeat, LeaseExpires, ScanWorkers, AbortScan, RedisJobs
<1> QED BY <1>2, <1>3, <1>4, <1>5, <1>6, <1>7, <1>8 DEF QueueNext
-----------------------------------------------------------------------------
(* The queue in memory                                                     *)

LEMMA PutItem ==
    ASSUME NEW list \in Seq(Item), NEW job \in Item
    PROVE  /\ Append(list, job) \in Seq(Item)
           /\ ToSet(Append(list, job)) = ToSet(list) \cup {job}
           /\ RunsOf(Append(list, job)) = RunsOf(list) \cup {job.run}
           /\ NoRepeat(list) /\ job.run \notin RunsOf(list) => NoRepeat(Append(list, job))
<1> DEFINE new == Append(list, job)
           n == Len(list)
<1>1. /\ n \in Nat
      /\ DOMAIN list = 1 .. n
      /\ new \in Seq(Item)
      /\ DOMAIN new = 1 .. (n + 1)
      /\ \A i \in 1 .. n : new[i] = list[i]
      /\ new[n + 1] = job
  BY AppendProperties, LenProperties
<1> HIDE DEF new, n
<1>2. \A i \in 1 .. (n + 1) : i \in 1 .. n \/ i = n + 1
  BY <1>1
<1>3. 1 .. n \subseteq 1 .. (n + 1) /\ n + 1 \in 1 .. (n + 1)
  BY <1>1
<1>4. ToSet(new) = ToSet(list) \cup {job}
  BY <1>1, <1>2, <1>3 DEF ToSet
<1>5. RunsOf(new) = RunsOf(list) \cup {job.run}
  BY <1>1, <1>2, <1>3 DEF RunsOf
<1>6. ASSUME NoRepeat(list), job.run \notin RunsOf(list)
      PROVE  NoRepeat(new)
  <2>1. \A i \in 1 .. n : new[i].run # job.run
    BY <1>1, <1>6 DEF RunsOf
  <2> QED BY <1>1, <1>2, <1>6, <2>1 DEF NoRepeat
<1> QED BY <1>1, <1>4, <1>5, <1>6 DEF new

LEMMA GetItem ==
    ASSUME NEW list \in Seq(Item), list # <<>>
    PROVE  /\ Head(list) \in Item /\ Head(list) \in ToSet(list)
           /\ Tail(list) \in Seq(Item)
           /\ ToSet(list) = ToSet(Tail(list)) \cup {Head(list)}
           /\ RunsOf(list) = RunsOf(Tail(list)) \cup {Head(list).run}
           /\ NoRepeat(list) =>
                NoRepeat(Tail(list)) /\ Head(list).run \notin RunsOf(Tail(list))
<1> DEFINE rest == Tail(list)
           n == Len(list)
<1>1. /\ n \in Nat \ {0}
      /\ DOMAIN list = 1 .. n
      /\ Head(list) = list[1] /\ list[1] \in Item
      /\ rest \in Seq(Item)
      /\ DOMAIN rest = 1 .. (n - 1)
      /\ \A i \in 1 .. (n - 1) : rest[i] = list[i + 1]
  BY HeadTailProperties, LenProperties, EmptySeq, ElementOfSeq
<1> HIDE DEF rest, n
<1>2. 1 \in 1 .. n /\ \A i \in 1 .. (n - 1) : i + 1 \in 1 .. n /\ i + 1 # 1
  BY <1>1
<1>3. ASSUME NEW i \in 1 .. n, i # 1
      PROVE  \E k \in 1 .. (n - 1) : i = k + 1
  <2>1. i - 1 \in 1 .. (n - 1) /\ i = (i - 1) + 1
    BY <1>1, <1>3
  <2> QED BY <2>1
<1>4. ToSet(list) = ToSet(rest) \cup {Head(list)}
  <2>1. ASSUME NEW i \in 1 .. n
        PROVE  list[i] \in ToSet(rest) \cup {Head(list)}
    <3>1. CASE i = 1
      BY <1>1, <3>1
    <3>2. CASE i # 1
      <4>1. PICK k \in 1 .. (n - 1) : i = k + 1
        BY <1>3, <3>2
      <4>2. k \in DOMAIN rest /\ rest[k] = list[i]
        BY <1>1, <4>1
      <4> QED BY <4>2 DEF ToSet
    <3> QED BY <3>1, <3>2
  <2>2. ASSUME NEW k \in 1 .. (n - 1)
        PROVE  rest[k] \in ToSet(list)
    <3>1. PICK i \in DOMAIN list : rest[k] = list[i]
      BY <1>1, <1>2
    <3> QED BY <3>1 DEF ToSet
  <2>3. Head(list) \in ToSet(list)
    BY <1>1, <1>2 DEF ToSet
  <2> QED BY <1>1, <2>1, <2>2, <2>3 DEF ToSet
<1>5. RunsOf(list) = RunsOf(rest) \cup {Head(list).run}
  <2>1. ASSUME NEW i \in 1 .. n
        PROVE  list[i].run \in RunsOf(rest) \cup {Head(list).run}
    <3>1. CASE i = 1
      BY <1>1, <3>1
    <3>2. CASE i # 1
      <4>1. PICK k \in 1 .. (n - 1) : i = k + 1
        BY <1>3, <3>2
      <4>2. k \in DOMAIN rest /\ rest[k] = list[i]
        BY <1>1, <4>1
      <4> QED BY <4>2 DEF RunsOf
    <3> QED BY <3>1, <3>2
  <2>2. ASSUME NEW k \in 1 .. (n - 1)
        PROVE  rest[k].run \in RunsOf(list)
    <3>1. PICK i \in DOMAIN list : rest[k] = list[i]
      BY <1>1, <1>2
    <3> QED BY <3>1 DEF RunsOf
  <2>3. Head(list).run \in RunsOf(list)
    BY <1>1, <1>2 DEF RunsOf
  <2> QED BY <1>1, <2>1, <2>2, <2>3 DEF RunsOf
<1>6. ASSUME NoRepeat(list)
      PROVE  NoRepeat(rest) /\ Head(list).run \notin RunsOf(rest)
  <2>1. ASSUME NEW k \in 1 .. (n - 1), NEW m \in 1 .. (n - 1), rest[k].run = rest[m].run
        PROVE  k = m
    <3>1. /\ k + 1 \in DOMAIN list /\ m + 1 \in DOMAIN list
          /\ list[k + 1].run = list[m + 1].run
      <4>1. rest[k] = list[k + 1] /\ rest[m] = list[m + 1]
        BY <1>1
      <4> QED BY <1>1, <1>2, <2>1, <4>1
    <3>2. k + 1 = m + 1
      BY <1>6, <3>1 DEF NoRepeat
    <3> QED BY <1>1, <3>2
  <2>2. ASSUME NEW k \in 1 .. (n - 1)
        PROVE  rest[k].run # Head(list).run
    <3>1. list[k + 1].run # list[1].run
      BY <1>1, <1>2, <1>6 DEF NoRepeat
    <3> QED BY <1>1, <3>1
  <2> QED BY <1>1, <2>1, <2>2 DEF NoRepeat, RunsOf
<1>7. Head(list) \in ToSet(list)
  BY <1>4
<1> QED BY <1>1, <1>4, <1>5, <1>6, <1>7 DEF rest

\* The items of a list have their runs in it.
LEMMA ItemRuns ==
    ASSUME NEW list \in Seq(Item)
    PROVE  /\ ToSet(list) \subseteq Item
           /\ RunsOf(list) = {e.run : e \in ToSet(list)}
<1>1. \A i \in DOMAIN list : list[i] \in Item
  BY LenProperties, ElementOfSeq
<1> QED BY <1>1 DEF ToSet, RunsOf

(***************************************************************************)
(* acknowledge and retry believe their caller, so the ids and the jobs     *)
(* agree only as long as nothing is in hand twice or also in the queue.    *)
(***************************************************************************)
MemInv ==
    /\ memQueue \in Seq(Item)
    /\ hand \subseteq Item
    /\ NoRepeat(memQueue)
    /\ \A e, f \in hand : e.run = f.run => e = f
    /\ \A e \in hand : e.run \notin RunsOf(memQueue)
    /\ runIds = RunsOf(memQueue) \cup {e.run : e \in hand}

LEMMA MemInitInv == MemoryInit => MemInv
<1>1. <<>> \in Seq(Item) /\ RunsOf(<<>>) = {} /\ NoRepeat(<<>>)
  BY DEF RunsOf, NoRepeat
<1> QED BY <1>1 DEF MemoryInit, MemInv

LEMMA MemNextInv ==
    ASSUME MemInv, [MemoryNext]_memVars
    PROVE  MemInv'
<1> USE DEF MemInv
<1>1. ASSUME NEW r \in Runs, MemEnqueue(r)
      PROVE  MemInv'
  <2> DEFINE new == [run |-> r, attempts |-> 0]
  <2>1. new \in Item /\ new.run = r
    BY DEF Item
  <2>2. memQueue' = Append(memQueue, new) /\ r \notin runIds
        /\ runIds' = runIds \cup {r} /\ hand' = hand
    BY <1>1 DEF MemEnqueue
  <2> HIDE DEF new
  <2>3. /\ memQueue' \in Seq(Item) /\ NoRepeat(memQueue')
        /\ RunsOf(memQueue') = RunsOf(memQueue) \cup {r}
    BY <2>1, <2>2, PutItem
  <2> QED BY <2>2, <2>3
<1>2. CASE MemDequeue
  <2> DEFINE job == Head(memQueue)
  <2>1. /\ memQueue # <<>> /\ memQueue' = Tail(memQueue)
        /\ hand' = hand \cup {job} /\ runIds' = runIds
    BY <1>2 DEF MemDequeue
  <2>2. /\ job \in Item /\ memQueue' \in Seq(Item) /\ NoRepeat(memQueue')
        /\ RunsOf(memQueue) = RunsOf(memQueue') \cup {job.run}
        /\ job.run \notin RunsOf(memQueue')
    BY <2>1, GetItem
  <2> HIDE DEF job
  <2> QED BY <2>1, <2>2
<1>3. ASSUME NEW job \in hand, MemAcknowledge(job)
      PROVE  MemInv'
  BY <1>3 DEF MemAcknowledge
<1>4. ASSUME NEW job \in hand, MemRetry(job)
      PROVE  MemInv'
  <2> DEFINE again == [job EXCEPT !.attempts = @ + 1]
  <2>1. again \in Item /\ again.run = job.run
    BY DEF Item
  <2>2. /\ memQueue' = Append(memQueue, again) /\ hand' = hand \ {job}
        /\ runIds' = runIds
    BY <1>4 DEF MemRetry
  <2> HIDE DEF again
  <2>3. /\ memQueue' \in Seq(Item) /\ NoRepeat(memQueue')
        /\ RunsOf(memQueue') = RunsOf(memQueue) \cup {job.run}
    BY <2>1, <2>2, PutItem
  <2> QED BY <2>2, <2>3
<1>5. CASE MemProcessEnds
  BY <1>5, MemInitInv DEF MemProcessEnds, MemoryInit, RunsOf, NoRepeat
<1>6. CASE UNCHANGED memVars
  BY <1>6 DEF memVars
<1> QED BY <1>1, <1>2, <1>3, <1>4, <1>5, <1>6 DEF MemoryNext

\* The ids of the queue in memory are the runs that have a job.
MemoryKnows == runIds = {j.run : j \in MemoryJobs}

LEMMA MemoryKnownRuns == MemInv => MemoryKnows
<1> SUFFICES ASSUME MemInv PROVE MemoryKnows
  OBVIOUS
<1>1. RunsOf(memQueue) = {e.run : e \in ToSet(memQueue)}
  BY ItemRuns DEF MemInv
<1>2. MemoryJobs = {JobOf(e, Nobody) : e \in ToSet(memQueue)} \cup {JobOf(e, Process) : e \in hand}
  BY JobOfFacts DEF MemoryJobs
<1>3. {j.run : j \in MemoryJobs} = {e.run : e \in ToSet(memQueue)} \cup {e.run : e \in hand}
  BY <1>2, JobOfFacts
<1> QED BY <1>1, <1>3 DEF MemInv, MemoryKnows

\* The step of the promise that a method of the queue in memory takes.
LEMMA MemoryKeepsPromise ==
    ASSUME MemInv, MemoryKnows, MemoryKnows', MemoryNext,
           backend = "memory", backend' = "memory"
    PROVE  Promise!PromiseNext
<1>1. runIds' = {j.run : j \in MemoryJobs'} /\ runIds = {j.run : j \in MemoryJobs}
  BY DEF MemoryKnows
<1>2. \A x : x \in MemoryJobs <=> \/ \E e \in ToSet(memQueue) : x = JobOf(e, Nobody)
                                  \/ \E e \in hand : x = JobOf(e, Process)
  BY JobOfFacts DEF MemoryJobs
<1>3. \A x : x \in MemoryJobs' <=> \/ \E e \in ToSet(memQueue') : x = JobOf(e, Nobody)
                                   \/ \E e \in hand' : x = JobOf(e, Process)
  BY JobOfFacts DEF MemoryJobs
<1>4. memQueue \in Seq(Item) /\ hand \subseteq Item /\ ToSet(memQueue) \subseteq Item
  BY ItemRuns DEF MemInv
<1>5. Process # Nobody /\ \A e, f : JobOf(e, Nobody) # JobOf(f, Process)
  BY JobOfFacts, HoldersAssumption
<1>6. ASSUME NEW r \in Runs, MemEnqueue(r)
      PROVE  Promise!PromiseNext
  <2> DEFINE new == [run |-> r, attempts |-> 0]
  <2>1. new \in Item /\ JobOf(new, Nobody) = [run |-> r, attempts |-> 0, holder |-> Nobody]
    BY DEF Item, JobOf
  <2>2. memQueue' = Append(memQueue, new) /\ hand' = hand /\ r \notin runIds
    BY <1>6 DEF MemEnqueue
  <2> HIDE DEF new
  <2>3. ToSet(memQueue') = ToSet(memQueue) \cup {new}
    BY <1>4, <2>1, <2>2, PutItem
  <2>4. MemoryJobs' = MemoryJobs \cup {JobOf(new, Nobody)}
    BY <1>2, <1>3, <2>2, <2>3
  <2> QED BY <1>1, <2>1, <2>2, <2>4 DEF Promise!PromiseNext, Promise!Accept
<1>7. ASSUME MemDequeue
      PROVE  Promise!PromiseNext
  <2>1. PICK job \in Item : /\ job = Head(memQueue) /\ job \in ToSet(memQueue)
                            /\ ToSet(memQueue) = ToSet(memQueue') \cup {job}
                            /\ job \notin ToSet(memQueue')
                            /\ hand' = hand \cup {job}
    <3> DEFINE job == Head(memQueue)
    <3>1. /\ memQueue # <<>> /\ memQueue' = Tail(memQueue)
          /\ hand' = hand \cup {job} /\ NoRepeat(memQueue)
      BY <1>7 DEF MemDequeue, MemInv
    <3>2. /\ job \in Item /\ job \in ToSet(memQueue)
          /\ memQueue' \in Seq(Item)
          /\ ToSet(memQueue) = ToSet(memQueue') \cup {job}
          /\ job.run \notin RunsOf(memQueue')
      BY <1>4, <3>1, GetItem
    <3>3. job \notin ToSet(memQueue')
      <4>1. RunsOf(memQueue') = {e.run : e \in ToSet(memQueue')}
        BY <3>2, ItemRuns
      <4> HIDE DEF job
      <4> QED BY <3>2, <4>1
    <3> QED BY <3>1, <3>2, <3>3
  <2>2. ASSUME NEW x
        PROVE  x \in MemoryJobs' <=>
                    x \in (MemoryJobs \ {JobOf(job, Nobody)}) \cup {JobOf(job, Process)}
    <3>1. (\E e \in ToSet(memQueue') : x = JobOf(e, Nobody)) <=>
                (\E e \in ToSet(memQueue) : x = JobOf(e, Nobody)) /\ x # JobOf(job, Nobody)
      BY <1>4, <2>1, JobOfFacts
    <3>2. (\E e \in hand' : x = JobOf(e, Process)) <=>
                (\E e \in hand : x = JobOf(e, Process)) \/ x = JobOf(job, Process)
      BY <2>1
    <3> QED BY <1>2, <1>3, <1>5, <3>1, <3>2
  <2>3. MemoryJobs' = (MemoryJobs \ {JobOf(job, Nobody)}) \cup {JobOf(job, Process)}
    BY <2>2
  <2>4. /\ JobOf(job, Nobody) \in MemoryJobs
        /\ JobOf(job, Nobody).holder = Nobody
        /\ [JobOf(job, Nobody) EXCEPT !.holder = Process] = JobOf(job, Process)
    BY <1>2, <2>1, JobOfFacts
  <2> QED BY <1>1, <2>3, <2>4 DEF Promise!PromiseNext, Promise!Take
<1>8. ASSUME NEW job \in hand, NEW P,
             hand' = hand \ {job}, ToSet(memQueue') = ToSet(memQueue) \cup P
      PROVE  /\ JobOf(job, Process) \in MemoryJobs
             /\ JobOf(job, Process).holder # Nobody
             /\ MemoryJobs' = (MemoryJobs \ {JobOf(job, Process)})
                                \cup {JobOf(e, Nobody) : e \in P}
  <2>1. JobOf(job, Process) \in MemoryJobs /\ JobOf(job, Process).holder # Nobody
    BY <1>2, <1>5, JobOfFacts
  <2>2. ASSUME NEW x
        PROVE  x \in MemoryJobs' <=> x \in (MemoryJobs \ {JobOf(job, Process)})
                                            \cup {JobOf(e, Nobody) : e \in P}
    <3>1. (\E e \in hand' : x = JobOf(e, Process)) <=>
                (\E e \in hand : x = JobOf(e, Process)) /\ x # JobOf(job, Process)
      BY <1>4, <1>8, JobOfFacts
    <3>2. (\E e \in ToSet(memQueue') : x = JobOf(e, Nobody)) <=>
                \/ \E e \in ToSet(memQueue) : x = JobOf(e, Nobody)
                \/ x \in {JobOf(e, Nobody) : e \in P}
      BY <1>8
    <3> QED BY <1>2, <1>3, <1>5, <3>1, <3>2
  <2> QED BY <2>1, <2>2
<1>9. ASSUME NEW job \in hand, MemAcknowledge(job)
      PROVE  Promise!PromiseNext
  <2>1. hand' = hand \ {job} /\ ToSet(memQueue') = ToSet(memQueue) \cup {}
    BY <1>9 DEF MemAcknowledge
  <2>2. MemoryJobs' = MemoryJobs \ {JobOf(job, Process)}
    <3>1. MemoryJobs' = (MemoryJobs \ {JobOf(job, Process)})
                            \cup {JobOf(e, Nobody) : e \in {}}
      BY <1>8, <2>1, <1>9
    <3>2. {JobOf(e, Nobody) : e \in {}} = {}
      OBVIOUS
    <3> QED BY <3>1, <3>2
  <2>3. JobOf(job, Process) \in MemoryJobs /\ JobOf(job, Process).holder # Nobody
    BY <1>8, <2>1
  <2> QED BY <1>1, <2>2, <2>3 DEF Promise!PromiseNext, Promise!Finish
<1>10. ASSUME NEW job \in hand, MemRetry(job)
       PROVE  Promise!PromiseNext
  <2> DEFINE again == [job EXCEPT !.attempts = @ + 1]
             old == JobOf(job, Process)
  <2>1. again \in Item /\ again.run = job.run /\ again.attempts = job.attempts + 1
    BY <1>4 DEF Item
  <2>2. memQueue' = Append(memQueue, again) /\ hand' = hand \ {job}
    BY <1>10 DEF MemRetry
  <2> HIDE DEF again
  <2>3. ToSet(memQueue') = ToSet(memQueue) \cup {again}
    BY <1>4, <2>1, <2>2, PutItem
  <2>4. JobOf(again, Nobody) =
            [run |-> old.run, attempts |-> old.attempts + 1, holder |-> Nobody]
    BY <2>1 DEF JobOf
  <2> HIDE DEF old
  <2>5. /\ old \in MemoryJobs /\ old.holder # Nobody
        /\ MemoryJobs' = (MemoryJobs \ {old}) \cup {JobOf(again, Nobody)}
    <3>1. /\ old \in MemoryJobs /\ old.holder # Nobody
          /\ MemoryJobs' = (MemoryJobs \ {old}) \cup {JobOf(e, Nobody) : e \in {again}}
      BY <1>8, <1>10, <2>2, <2>3 DEF old
    <3>2. {JobOf(e, Nobody) : e \in {again}} = {JobOf(again, Nobody)}
      OBVIOUS
    <3> QED BY <3>1, <3>2
  <2> QED BY <1>1, <2>4, <2>5 DEF Promise!PromiseNext, Promise!TryAgain
<1>11. ASSUME MemProcessEnds
       PROVE  Promise!PromiseNext
  <2>1. ToSet(<<>>) = {}
    BY DEF ToSet
  <2>2. MemoryJobs' = {}
    BY <1>3, <1>11, <2>1 DEF MemProcessEnds
  <2> QED BY <1>1, <2>2 DEF Promise!PromiseNext, Promise!Lose
<1> QED BY <1>6, <1>7, <1>9, <1>10, <1>11 DEF MemoryNext

-----------------------------------------------------------------------------
(* The refinement                                                          *)

BackendInv ==
    /\ QueueInv
    /\ MemInv
    /\ backend \in {"memory", "redis"}

(***************************************************************************)
(* Whichever backend create_queue returns, and for every set of runs and   *)
(* workers and every retry limit, each of its steps is one step of the     *)
(* abstract queue or none: a run is refused exactly while it has a job,    *)
(* and a job is taken by one consumer, finished or tried again only by     *)
(* its holder, given back as it was, and lost only with the process of a   *)
(* queue in memory.                                                        *)
(***************************************************************************)
THEOREM BackendsKeepPromise == BackendsSpec => KeepsPromise
<1>1. BackendsInit => BackendInv
  BY QueueInitInv, MemInitInv DEF BackendsInit, BackendInv
<1>2. BackendInv /\ [BackendsNext]_backendVars => BackendInv'
  <2> SUFFICES ASSUME BackendInv, [BackendsNext]_backendVars PROVE BackendInv'
    OBVIOUS
  <2>1. /\ [QueueNext]_queueVars /\ [MemoryNext]_memVars /\ backend' = backend
    <3>1. CASE backend = "redis" /\ QueueNext /\ UNCHANGED <<memVars, backend>>
      BY <3>1
    <3>2. CASE backend = "memory" /\ MemoryNext /\ UNCHANGED <<queueVars, backend>>
      BY <3>2
    <3>3. CASE UNCHANGED backendVars
      BY <3>3 DEF backendVars, queueVars, memVars
    <3> QED BY <3>1, <3>2, <3>3 DEF BackendsNext
  <2>2. QueueInv'
    BY <2>1, QueueNextInv DEF BackendInv
  <2>3. MemInv'
    BY <2>1, MemNextInv DEF BackendInv
  <2> QED BY <2>1, <2>2, <2>3 DEF BackendInv
<1>3. BackendInv => RedisKnows /\ MemoryKnows
  BY KnownRuns, MemoryKnownRuns DEF BackendInv
<1>4. BackendsInit => Promise!PromiseInit
  <2>1. ToSet(<<>>) = {} /\ \A h : HeldBy(h, {}) = {}
    BY DEF ToSet, HeldBy
  <2>2. ASSUME BackendsInit
        PROVE  RedisJobs = {} /\ MemoryJobs = {}
    <3>1. /\ pending = <<>> /\ \A w \in Workers : processing[w] = <<>>
          /\ memQueue = <<>> /\ hand = {}
      BY <2>2 DEF BackendsInit, QueueInit, MemoryInit
    <3>2. RedisJobs = {}
      BY <2>1, <3>1 DEF RedisJobs
    <3> QED BY <2>1, <3>1, <3>2 DEF MemoryJobs
  <2> QED BY <2>2 DEF BackendsInit, QueueInit, MemoryInit, Promise!PromiseInit
<1>5. /\ BackendInv /\ RedisKnows /\ MemoryKnows
      /\ RedisKnows' /\ MemoryKnows'
      /\ [BackendsNext]_backendVars
      => [Promise!PromiseNext]_Promise!promiseVars
  <2> SUFFICES ASSUME BackendInv, RedisKnows, MemoryKnows, RedisKnows', MemoryKnows',
                      [BackendsNext]_backendVars
               PROVE  [Promise!PromiseNext]_Promise!promiseVars
    OBVIOUS
  <2>1. CASE backend = "redis" /\ QueueNext /\ UNCHANGED <<memVars, backend>>
    BY <2>1, RedisKeepsPromise DEF BackendInv
  <2>2. CASE backend = "memory" /\ MemoryNext /\ UNCHANGED <<queueVars, backend>>
    BY <2>2, MemoryKeepsPromise DEF BackendInv
  <2>3. CASE UNCHANGED backendVars
    <3>1. RedisJobs' = RedisJobs /\ MemoryJobs' = MemoryJobs
      BY <2>3 DEF backendVars, RedisJobs, MemoryJobs
    <3> QED BY <2>3, <3>1 DEF backendVars, Promise!promiseVars
  <2> QED BY <2>1, <2>2, <2>3 DEF BackendsNext
<1> QED BY <1>1, <1>2, <1>3, <1>4, <1>5, PTL
        DEF BackendsSpec, KeepsPromise, Promise!PromiseSpec


=============================================================================
