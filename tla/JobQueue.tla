------------------------------- MODULE JobQueue -------------------------------
(***************************************************************************)
(* What the AnalysisQueue protocol (queue.py) promises to the API and the  *)
(* workers, whichever backend create_queue returns: a run has at most one  *)
(* job, and is refused while it has one; a job waits, is taken by one      *)
(* consumer, and then is finished, tried again with one more attempt, or   *)
(* given back as it was.  No job appears from nowhere, changes hands while *)
(* it is taken, or is dropped, except that a queue which is not durable    *)
(* loses everything with its process.                                      *)
(***************************************************************************)
EXTENDS Naturals

CONSTANTS
    Runs,       \* run ids
    Consumers,  \* who may take a job
    Nobody      \* the holder of a job that waits

VARIABLES
    jobs,       \* the jobs of the queue: [run, attempts, holder]
    known,      \* the runs that enqueue() refuses
    durable     \* the queue survives its process

promiseVars == <<jobs, known, durable>>

PromiseInit == jobs = {} /\ known = {} /\ durable \in BOOLEAN

\* enqueue() returned True.
Accept(r) ==
    /\ r \notin known
    /\ jobs' = jobs \cup {[run |-> r, attempts |-> 0, holder |-> Nobody]}

\* dequeue() returned j to c.
Take(j, c) ==
    /\ j.holder = Nobody
    /\ jobs' = (jobs \ {j}) \cup {[j EXCEPT !.holder = c]}

\* acknowledge() by the consumer that holds j.
Finish(j) ==
    /\ j.holder # Nobody
    /\ jobs' = jobs \ {j}

\* retry() by the consumer that holds j.
TryAgain(j) ==
    /\ j.holder # Nobody
    /\ jobs' = (jobs \ {j})
          \cup {[run |-> j.run, attempts |-> j.attempts + 1, holder |-> Nobody]}

\* recover_orphaned(): the jobs of one consumer wait again.
GiveBack(c) ==
    jobs' = {[j EXCEPT !.holder = IF @ = c THEN Nobody ELSE @] : j \in jobs}

\* The process of a queue in memory ends.
Lose == ~durable /\ jobs' = {}

PromiseNext ==
    /\ known' = {j.run : j \in jobs'}
    /\ UNCHANGED durable
    /\ \/ \E r \in Runs : Accept(r)
       \/ \E j \in jobs : \/ \E c \in Consumers : Take(j, c)
                          \/ Finish(j)
                          \/ TryAgain(j)
       \/ \E c \in Consumers : GiveBack(c)
       \/ Lose

PromiseSpec == PromiseInit /\ [][PromiseNext]_promiseVars

=============================================================================
