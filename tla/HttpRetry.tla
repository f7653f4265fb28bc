------------------------------- MODULE HttpRetry -------------------------------
(***************************************************************************)
(* request_with_retry (http_retry.py): one call, the replies it may get    *)
(* and the waiting in between.  Every GitHub and OpenAI request of the     *)
(* pipeline goes through it.  Time is counted in units of which one second *)
(* has several, so that a jitter is a whole number of them; a network      *)
(* round trip takes no time, which is the worst case for "too early".      *)
(***************************************************************************)
EXTENDS Naturals

CONSTANTS
    MaxTries,        \* policy.max_attempts
    BaseDelay,       \* policy.base_delay_seconds
    MaxDelay,        \* policy.max_delay_seconds
    JitterPercent,   \* policy.jitter_ratio
    SecondaryDelay,  \* the 60 seconds after a 403 that names no instant
    AskedDelays,     \* what a Retry-After or x-ratelimit-reset header may ask for
    NoDelay          \* there is no such header, or it cannot be parsed

\* RetryPolicy.__post_init__.
ASSUME PolicyAssumption ==
    /\ MaxTries \in Nat \ {0}
    /\ BaseDelay \in Nat /\ MaxDelay \in Nat /\ SecondaryDelay \in Nat
    /\ JitterPercent \in 0 .. 100
    /\ AskedDelays \subseteq Nat
    /\ NoDelay \notin Nat

\* Arithmetic the proof system has no rule for: powers of two are naturals.
ASSUME PowerAssumption == \A n \in 0 .. MaxTries : 2 ^ n \in Nat

Idempotent == {"GET", "HEAD", "OPTIONS", "PUT", "DELETE"}
Methods == Idempotent \cup {"POST", "PATCH"}

(***************************************************************************)
(* Replies: "transient" 408 and 5xx; "limited" 429; "quota" 429 with a     *)
(* billing code; "forbidden" 403 with signs of a rate limit; "final"       *)
(* everything else, success or not.                                        *)
(***************************************************************************)
Replies == {"transient", "limited", "quota", "forbidden", "final"}

VARIABLES
    method,      \* the HTTP method of the call
    retry403,    \* retry_rate_limited_403: TRUE from GitHub, FALSE from the LLM
    attempt,     \* the loop variable
    phase,       \* "send", "sleep", or how the call ended
    delay,       \* the delay handed to sleep
    clock,       \* time slept so far
    notBefore,   \* earliest instant the server asked to be called again
    unknown      \* a reply got lost: the request may have been carried out

retryVars == <<method, retry403, attempt, phase, delay, clock, notBefore, unknown>>

RetryTypeOK ==
    /\ method \in Methods
    /\ retry403 \in BOOLEAN
    /\ attempt \in 1 .. MaxTries
    /\ phase \in {"send", "sleep", "returned", "raised"}
    /\ delay \in Nat
    /\ clock \in Nat
    /\ notBefore \in Nat
    /\ unknown \in BOOLEAN

RetryInit ==
    /\ method \in Methods
    /\ retry403 \in BOOLEAN
    /\ attempt = 1
    /\ phase = "send"
    /\ delay = 0
    /\ clock = 0
    /\ notBefore = 0
    /\ unknown = FALSE

-----------------------------------------------------------------------------

AtMost(d, bound) == IF d <= bound THEN d ELSE bound
Jitter(d) == 0 .. (d * JitterPercent) \div 100

\* _backoff_delay: every value the jitter can produce.
BackoffDelays ==
    LET d == AtMost(BaseDelay * 2 ^ (attempt - 1), MaxDelay) IN
    {AtMost(d + j, MaxDelay) : j \in Jitter(d)}

\* Mutant: a delay beyond the bound is cut down to it.
ResponseDelaysCut(reply, asked) ==
    IF asked # NoDelay
    THEN {AtMost(asked + j, MaxDelay) : j \in Jitter(BaseDelay)}
    ELSE BackoffDelays

\* Mutant: the jitter is added after the bound was applied.
ResponseDelaysUnbounded(reply, asked) ==
    IF asked # NoDelay
    THEN {asked + j : j \in Jitter(BaseDelay)}
    ELSE BackoffDelays

\* _response_delay: the empty set stands for None, do not retry.
ResponseDelays(reply, asked) ==
    IF asked # NoDelay
    THEN {AtMost(asked + j, MaxDelay) : j \in {k \in Jitter(BaseDelay) : asked <= MaxDelay}}
    ELSE IF reply = "forbidden"
    THEN {d \in {SecondaryDelay} : MaxDelay >= SecondaryDelay}
    ELSE BackoffDelays

\* _retry_reason is not None.
Retryable(reply) ==
    \/ reply \in {"transient", "limited"}
    \/ reply = "forbidden" /\ retry403

\* Mutant: a lost reply is retried whatever the method.
RetryableLossAlways == attempt < MaxTries

\* A TransportError is retried.
RetryableLoss == attempt < MaxTries /\ method \in Idempotent

SleepFor(delays) ==
    /\ phase' = "sleep"
    /\ delay' \in delays

End(how) ==
    /\ phase' = how
    /\ UNCHANGED delay

Lost ==
    /\ phase = "send"
    /\ unknown' = TRUE
    /\ \/ RetryableLoss /\ SleepFor(BackoffDelays)
       \/ ~RetryableLoss /\ End("raised")
    /\ UNCHANGED <<method, retry403, attempt, clock, notBefore>>

Replied(reply, asked) ==
    /\ phase = "send"
    /\ notBefore' = IF asked = NoDelay THEN notBefore ELSE clock + asked
    /\ LET delays == ResponseDelays(reply, asked) IN
        \/ Retryable(reply) /\ attempt < MaxTries /\ SleepFor(delays)
        \/ /\ ~Retryable(reply) \/ attempt = MaxTries \/ delays = {}
           /\ End("returned")
    /\ UNCHANGED <<method, retry403, attempt, clock, unknown>>

Awake ==
    /\ phase = "sleep"
    /\ clock' = clock + delay
    /\ attempt' = attempt + 1
    /\ phase' = "send"
    /\ UNCHANGED <<method, retry403, delay, notBefore, unknown>>

RetryNext ==
    \/ Lost
    \/ \E reply \in Replies, asked \in AskedDelays \cup {NoDelay} :
        Replied(reply, asked)
    \/ Awake

RetrySpec == RetryInit /\ [][RetryNext]_retryVars

-----------------------------------------------------------------------------
(* Properties                                                              *)

(***************************************************************************)
(* The server is never called earlier than the Retry-After or reset header *)
(* of its last answer allows: a longer wait than the policy permits ends   *)
(* the call, it is not cut short.                                          *)
(***************************************************************************)
NeverEarly == phase = "send" => clock >= notBefore

(***************************************************************************)
(* A call sleeps for max_attempts - 1 maximal delays at most, whatever the *)
(* headers ask and however the jitter falls: the bound D-018 relies on to  *)
(* keep a call within worker lease and SLO.                                *)
(***************************************************************************)
BoundedWait ==
    /\ clock <= (attempt - 1) * MaxDelay
    /\ phase = "sleep" => clock + delay <= attempt * MaxDelay

(***************************************************************************)
(* A POST or PATCH whose reply was lost is not sent again: the caller sees *)
(* the exception, and nothing is done twice behind its back.               *)
(***************************************************************************)
LostWriteIsNotRepeated == unknown /\ method \notin Idempotent => phase = "raised"

=============================================================================
