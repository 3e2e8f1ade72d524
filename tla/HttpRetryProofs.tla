-------------------------- MODULE HttpRetryProofs --------------------------
(***************************************************************************)
(* What a fetch can cost, for every policy and whatever the server does.   *)
(***************************************************************************)
EXTENDS HttpRetry, TLAPS

\* Time slept is part of the time elapsed, and a delay is only slept if it ends
\* within the budget; the bytes at hand are those of the current attempt.
RetryInv ==
    /\ phase \in {"waiting", "reading", "deciding", "sleeping"} \cup Ended
    /\ attempt \in 1..MaxAttempts
    /\ elapsed \in Nat
    /\ delay \in Nat
    /\ slept \in Nat
    /\ body \in [size : Nat, from : SUBSET Nat]
    /\ slept <= MaxElapsed
    /\ phase = "sleeping" => slept <= elapsed + delay /\ elapsed + delay <= MaxElapsed
                             /\ attempt < MaxAttempts
    /\ phase # "sleeping" => slept <= elapsed
    /\ attempt > 1 /\ phase = "waiting" => elapsed <= MaxElapsed
    /\ body.size <= MaxBytes + MaxChunk
    /\ phase = "reading" => body.size <= MaxBytes /\ body.from \subseteq {attempt}
    /\ phase = "returned" => body.size <= MaxBytes /\ body.from \subseteq {attempt}

LEMMA InitRetry == Init => RetryInv
  BY RetryAssumption DEF Init, RetryInv, NoBody, Ended

LEMMA NextRetry == RetryInv /\ [Next]_vars => RetryInv'
<1> SUFFICES ASSUME RetryInv, [Next]_vars PROVE RetryInv'
  OBVIOUS
<1> USE RetryAssumption DEF Ended
<1>1. ASSUME NEW t \in 0..MaxAttemptTime, RetryStatus(t) PROVE RetryInv'
  BY <1>1 DEF RetryInv, RetryStatus, Transient
<1>2. ASSUME NEW t \in 0..MaxAttemptTime, TransportFailure(t) PROVE RetryInv'
  BY <1>2 DEF RetryInv, TransportFailure, Transient
<1>3. ASSUME NEW t \in 0..MaxAttemptTime, EndBody(t) PROVE RetryInv'
  BY <1>3 DEF RetryInv, EndBody
<1>4. CASE PermanentResponse \/ ProtocolError \/ DeclaredTooLarge
  BY <1>4 DEF RetryInv, PermanentResponse, ProtocolError, DeclaredTooLarge
<1>5. CASE StartBody
  BY <1>5 DEF RetryInv, StartBody, NoBody
<1>6. ASSUME NEW n \in 1..MaxChunk, ReadChunk(n) PROVE RetryInv'
  BY <1>6 DEF RetryInv, ReadChunk, TooLarge
<1>7. CASE GiveUp
  BY <1>7 DEF RetryInv, GiveUp
<1>8. ASSUME NEW d \in 0..MaxBackoff, Sleep(d) PROVE RetryInv'
  BY <1>8 DEF RetryInv, Sleep, Exhausted, OverBudget
<1>9. CASE Wake
  BY <1>9 DEF RetryInv, Wake
<1>10. CASE UNCHANGED vars
  BY <1>10 DEF RetryInv, vars
<1> QED
  BY <1>1, <1>2, <1>3, <1>4, <1>5, <1>6, <1>7, <1>8, <1>9, <1>10 DEF Next

\* The inductive invariant of a fetch holds throughout, whatever the server does.
THEOREM RetryInvariance == Spec => []RetryInv
  BY InitRetry, NextRetry, PTL DEF Spec

\* No fetch waits longer between its attempts than the policy's time budget,
\* nor starts a later attempt after it.
THEOREM BudgetIsKept == Spec => []BudgetKept
<1>1. RetryInv => BudgetKept
  BY DEF RetryInv, BudgetKept
<1> QED
  BY <1>1, RetryInvariance, PTL

\* No fetch buffers more than one chunk beyond max_response_bytes.
THEOREM BufferIsBounded == Spec => []BufferBounded
<1>1. RetryInv => BufferBounded
  BY RetryAssumption DEF RetryInv, BufferBounded
<1> QED
  BY <1>1, RetryInvariance, PTL

\* No fetch returns a payload put together from several attempts.
THEOREM PayloadIsOfOneAttempt == Spec => []PayloadOfOneAttempt
<1>1. RetryInv => PayloadOfOneAttempt
  BY DEF RetryInv, PayloadOfOneAttempt
<1> QED
  BY <1>1, RetryInvariance, PTL
=============================================================================
