------------------------------- MODULE Policy -------------------------------
(***************************************************************************)
(* What becomes of a delivery attempt: the verdict on a vendor's answer    *)
(* (app/delivery/classifier.py) and the wait before the next attempt       *)
(* (app/delivery/backoff.py), as operators.  Time is in whole ticks; the   *)
(* jittered delay, a real number in the code, is rounded up to the tick at *)
(* which the worker can first see the row due.                             *)
(***************************************************************************)
EXTENDS Integers, Sequences

CONSTANTS
    BackoffTable,       \* _BACKOFF_SECONDS
    RateLimitDelay      \* minimum_retry_seconds of a 429

ASSUME PolicyAssumption ==
    /\ BackoffTable \in Seq(Nat \ {0})
    /\ BackoffTable # <<>>
    /\ RateLimitDelay \in Nat

StatusCodes == 100..999

\* classify_response; "throttled" is the retry with a minimum.  1xx, 3xx and
\* what lies beyond 5xx are retried like 5xx.
ClassifyResponse(code) ==
    CASE code \in 200..299         -> "ok"
      [] code = 429                -> "throttled"
      [] code \in 400..499 \ {429} -> "rejected"
      [] OTHER                     -> "failed"

\* classify_exception: whatever the request raises is retried.
ClassifyException == "failed"

\* The verdicts an attempt can end with.
Results == {ClassifyResponse(code) : code \in StatusCodes} \cup {ClassifyException}

Greater(x, y) == IF x < y THEN y ELSE x

\* base_delay_seconds: the last entry serves all further attempts.
BaseDelay(k) ==
    BackoffTable[IF k <= Len(BackoffTable) THEN k ELSE Len(BackoffTable)]

\* base * (1 + uniform(-0.2, 0.2)), in ticks rounded up.
Jittered(base) == {d \in 1..2 * base : 4 * base <= 5 * d /\ 5 * (d - 1) < 6 * base}

\* compute_next_retry_at, after k attempts: at least the 429 minimum.
RetryDelays(k, result) ==
    {Greater(d, IF result = "throttled" THEN RateLimitDelay ELSE 0) :
        d \in Jittered(BaseDelay(k))}
=============================================================================
