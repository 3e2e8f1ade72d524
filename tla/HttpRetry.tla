----------------------------- MODULE HttpRetry -----------------------------
(***************************************************************************)
(* One fetch of a provider resource: RetryingHttpFetcher                   *)
(* (src/app/providers/http.py).  The server may answer an attempt late,    *)
(* with an error, with a body that breaks off or never ends.  Times are    *)
(* whole units; an attempt takes up to MaxAttemptTime of them.             *)
(***************************************************************************)
EXTENDS Integers, FiniteSetsExt

CONSTANTS
    MaxAttempts,    \* HttpPolicy.max_attempts
    MaxElapsed,     \* max_elapsed_seconds
    BaseBackoff,    \* base_backoff_seconds
    MaxBackoff,     \* max_backoff_seconds
    MaxBytes,       \* max_response_bytes
    RetryAfters,    \* seconds that a Retry-After header may ask for
    NoRetryAfter,   \* none, or one that cannot be understood
    MaxAttemptTime, \* bound on the time an attempt takes
    MaxChunk,       \* bound on the bytes that arrive at once
    MaxBody         \* bound on the bytes a server sends

ASSUME RetryAssumption ==
    /\ {MaxAttempts, MaxBytes, MaxChunk} \subseteq Nat \ {0}
    /\ {MaxElapsed, BaseBackoff, MaxBackoff, MaxAttemptTime, MaxBody} \subseteq Nat
    /\ RetryAfters \subseteq Nat /\ NoRetryAfter \notin RetryAfters

VARIABLES
    phase,       \* where fetch() is
    attempt,     \* its loop variable
    elapsed,     \* time since it started
    retryAfter,  \* retry_after in the context of the error at hand
    delay,       \* the delay it sleeps
    slept,       \* sum of the delays so far
    body         \* bytes buffered, and the attempts they came from

vars == <<phase, attempt, elapsed, retryAfter, delay, slept, body>>

Ended == {"returned", "permanent", "too_large", "unclassified", "exhausted", "over_budget"}

NoBody == [size |-> 0, from |-> {}]

FetchTypeOK ==
    /\ phase \in {"waiting", "reading", "deciding", "sleeping"} \cup Ended
    /\ attempt \in 1..MaxAttempts
    /\ elapsed \in Nat
    /\ retryAfter \in RetryAfters \cup {NoRetryAfter}
    /\ delay \in 0..MaxBackoff
    /\ slept \in Nat
    /\ body \in [size : 0..MaxBody, from : SUBSET (1..MaxAttempts)]

Init ==
    /\ phase = "waiting"
    /\ attempt = 1
    /\ elapsed = 0
    /\ retryAfter = NoRetryAfter
    /\ delay = 0
    /\ slept = 0
    /\ body = NoBody

-----------------------------------------------------------------------------
(***************************************************************************)
(* _attempt.                                                               *)
(***************************************************************************)
\* The attempt ends in a TransientProviderError.
Transient(after, t) ==
    /\ phase' = "deciding"
    /\ elapsed' = elapsed + t
    /\ retryAfter' = after
    /\ UNCHANGED <<attempt, delay, slept, body>>

\* A status that is retried, with or without Retry-After.
RetryStatus(t) ==
    /\ phase = "waiting"
    /\ \E after \in RetryAfters \cup {NoRetryAfter} : Transient(after, t)

\* A timeout or a network error, before or in the middle of the body.
TransportFailure(t) ==
    /\ phase \in {"waiting", "reading"}
    /\ Transient(NoRetryAfter, t)

\* A redirect, a status that is not retried, a Content-Length that is no number.
PermanentResponse ==
    /\ phase = "waiting"
    /\ phase' = "permanent"
    /\ UNCHANGED <<attempt, elapsed, retryAfter, delay, slept, body>>

\* A protocol error, such as a body that breaks off, is neither of the two
\* exceptions _attempt translates: it leaves fetch as it is.
ProtocolError ==
    /\ phase \in {"waiting", "reading"}
    /\ phase' = "unclassified"
    /\ UNCHANGED <<attempt, elapsed, retryAfter, delay, slept, body>>

\* Content-Length announces more than is accepted.
DeclaredTooLarge ==
    /\ phase = "waiting"
    /\ phase' = "too_large"
    /\ UNCHANGED <<attempt, elapsed, retryAfter, delay, slept, body>>

\* Faulty variant: what an earlier attempt received is kept.
ResumeBody ==
    /\ phase = "waiting"
    /\ phase' = "reading"
    /\ UNCHANGED <<attempt, elapsed, retryAfter, delay, slept, body>>

StartBody ==
    /\ phase = "waiting"
    /\ phase' = "reading"
    /\ body' = NoBody
    /\ UNCHANGED <<attempt, elapsed, retryAfter, delay, slept>>

\* Faulty variant: the size is only looked at when the body is complete.
NeverTooLarge(size) == FALSE

TooLarge(size) == size > MaxBytes

\* A chunk is buffered before the size is looked at.
ReadChunk(n) ==
    /\ phase = "reading"
    /\ body.size + n <= MaxBody
    /\ body' = [size |-> body.size + n, from |-> body.from \cup {attempt}]
    /\ phase' = IF TooLarge(body.size + n) THEN "too_large" ELSE "reading"
    /\ UNCHANGED <<attempt, elapsed, retryAfter, delay, slept>>

EndBody(t) ==
    /\ phase = "reading"
    /\ phase' = "returned"
    /\ elapsed' = elapsed + t
    /\ UNCHANGED <<attempt, retryAfter, delay, slept, body>>

-----------------------------------------------------------------------------
(***************************************************************************)
(* fetch.                                                                  *)
(***************************************************************************)
\* _retry_delay: Retry-After up to the maximum, or backoff with full jitter.
Delays ==
    IF retryAfter # NoRetryAfter THEN {Min({retryAfter, MaxBackoff})}
    ELSE 0..Min({BaseBackoff * 2^(attempt - 1), MaxBackoff})

Exhausted == attempt >= MaxAttempts

\* Faulty variant: the delay to come is not counted.
OverBudgetAlready(d) == elapsed > MaxElapsed

OverBudget(d) == elapsed + d > MaxElapsed

GiveUp ==
    /\ phase = "deciding"
    /\ \/ Exhausted /\ phase' = "exhausted"
       \/ ~Exhausted /\ (\E d \in Delays : OverBudget(d)) /\ phase' = "over_budget"
    /\ UNCHANGED <<attempt, elapsed, retryAfter, delay, slept, body>>

Sleep(d) ==
    /\ phase = "deciding"
    /\ ~Exhausted
    /\ d \in Delays
    /\ ~OverBudget(d)
    /\ phase' = "sleeping"
    /\ delay' = d
    /\ slept' = slept + d
    /\ UNCHANGED <<attempt, elapsed, retryAfter, body>>

\* Faulty variant: the attempt is not counted.
WakeUncounted ==
    /\ phase = "sleeping"
    /\ phase' = "waiting"
    /\ elapsed' = elapsed + delay
    /\ delay' = 0
    /\ UNCHANGED <<attempt, retryAfter, slept, body>>

Wake ==
    /\ phase = "sleeping"
    /\ phase' = "waiting"
    /\ elapsed' = elapsed + delay
    /\ delay' = 0
    /\ attempt' = attempt + 1
    /\ UNCHANGED <<retryAfter, slept, body>>

Next ==
    \/ \E t \in 0..MaxAttemptTime : RetryStatus(t) \/ TransportFailure(t) \/ EndBody(t)
    \/ PermanentResponse \/ ProtocolError \/ DeclaredTooLarge \/ StartBody
    \/ \E n \in 1..MaxChunk : ReadChunk(n)
    \/ GiveUp \/ Wake
    \/ \E d \in 0..MaxBackoff : Sleep(d)

Spec == Init /\ [][Next]_vars

\* Each wait ends: the client has connect and read timeouts, a sleep is timed.
FairSpec == Spec /\ WF_vars(Next)

-----------------------------------------------------------------------------
(***************************************************************************)
(* Properties.                                                             *)
(***************************************************************************)
\* The time spent waiting between attempts never exceeds the budget, whatever
\* delays the server asks for and however long the attempts take; and none of
\* the later attempts starts after the budget is used up.
BudgetKept ==
    /\ slept <= MaxElapsed
    /\ attempt > 1 /\ phase = "waiting" => elapsed <= MaxElapsed

\* A server that ignores its Content-Length cannot make the fetcher buffer more
\* than one chunk beyond the limit, and no such payload is returned.
BufferBounded ==
    /\ body.size <= MaxBytes + MaxChunk
    /\ phase = "returned" => body.size <= MaxBytes

\* The payload is that of one attempt: what a broken transfer left behind is
\* not mixed with the response that follows it.
PayloadOfOneAttempt == phase = "returned" => body.from \subseteq {attempt}

\* Every fetch returns or raises, also when each attempt fails without delay.
FetchEnds == <>(phase \in Ended)
=============================================================================
