--------------------------- MODULE DeliveryProofs ---------------------------
(***************************************************************************)
(* Theorems about Delivery, for every set of rows, vendors and processes   *)
(* and every value of the settings the assumptions admit.                  *)
(***************************************************************************)
EXTENDS Delivery, FiniteSetTheorems, TLAPS

-----------------------------------------------------------------------------
(* Verdicts and waits, for every backoff table and every 429 minimum.      *)

\* The verdicts are four, and the two a delivery is given without an answer
\* are among them.
LEMMA ResultsKnown ==
  /\ Results \subseteq {"ok", "rejected", "throttled", "failed"}
  /\ {"rejected", "failed"} \subseteq Results
<1>1. \A code \in StatusCodes :
         ClassifyResponse(code) \in {"ok", "rejected", "throttled", "failed"}
  BY DEF ClassifyResponse
<1>2. ClassifyResponse(400) = "rejected" /\ 400 \in StatusCodes
  BY DEF ClassifyResponse, StatusCodes
<1> QED
  BY <1>1, <1>2 DEF Results, ClassifyException

LEMMA BaseDelayType ==
  ASSUME NEW k \in Nat \ {0}
  PROVE  BaseDelay(k) \in Nat \ {0}
<1>1. Len(BackoffTable) \in Nat \ {0}
  BY PolicyAssumption
<1>2. \A i \in 1..Len(BackoffTable) : BackoffTable[i] \in Nat \ {0}
  BY PolicyAssumption
<1> QED
  BY <1>1, <1>2 DEF BaseDelay

LEMMA RetryDelaysType ==
  ASSUME NEW k \in Nat \ {0}, NEW result
  PROVE  RetryDelays(k, result) \subseteq Nat \ {0}
<1>1. Jittered(BaseDelay(k)) \subseteq Nat \ {0}
  BY BaseDelayType DEF Jittered
<1> QED
  BY <1>1, PolicyAssumption DEF RetryDelays, Greater

\* backoff.py, compute_next_retry_at: a retry always has a time to wait for,
\* never the present one, at most a fifth above the table (rounded up) and,
\* after a 429, not before the minimum has passed.
THEOREM RetryWaits ==
  ASSUME NEW k \in Nat \ {0}, NEW result \in Results
  PROVE  /\ RetryDelays(k, result) # {}
         /\ \A d \in RetryDelays(k, result) :
               /\ d > 0
               /\ result = "throttled" => d >= RateLimitDelay
               /\ 5 * (d - 1) < 6 * BaseDelay(k) \/ d = RateLimitDelay
<1> DEFINE b == BaseDelay(k)
<1>1. b \in Nat \ {0}
  BY BaseDelayType
<1>2. b \in Jittered(b)
  BY <1>1 DEF Jittered
<1>3. RetryDelays(k, result) # {}
  BY <1>2 DEF RetryDelays
<1>4. ASSUME NEW d \in RetryDelays(k, result)
      PROVE  /\ d > 0
             /\ result = "throttled" => d >= RateLimitDelay
             /\ 5 * (d - 1) < 6 * b \/ d = RateLimitDelay
  <2>1. PICK e \in Jittered(b) :
           d = Greater(e, IF result = "throttled" THEN RateLimitDelay ELSE 0)
    BY DEF RetryDelays
  <2>2. e \in Nat \ {0} /\ 5 * (e - 1) < 6 * b
    BY <1>1 DEF Jittered
  <2> QED
    BY <2>1, <2>2, PolicyAssumption DEF Greater
<1> QED
  BY <1>3, <1>4

\* backoff.py, _BACKOFF_SECONDS with JITTER_RATIO: as long as the table grows
\* by at least one half from entry to entry (it grows fourfold), the jitter
\* never makes a later attempt's wait shorter than an earlier one's.
THEOREM DelaysGrow ==
  ASSUME \A i, j \in 1..Len(BackoffTable) :
            i < j => 3 * BackoffTable[i] <= 2 * BackoffTable[j],
         NEW k \in Nat \ {0}, NEW l \in Nat \ {0},
         k < l, k < Len(BackoffTable),
         NEW d \in Jittered(BaseDelay(k)), NEW e \in Jittered(BaseDelay(l))
  PROVE  d <= e
<1>1. Len(BackoffTable) \in Nat
  BY PolicyAssumption
<1>2. BaseDelay(k) \in Nat \ {0} /\ BaseDelay(l) \in Nat \ {0}
  BY BaseDelayType
<1>3. 3 * BaseDelay(k) <= 2 * BaseDelay(l)
  <2>1. CASE l <= Len(BackoffTable)
    BY <1>1, <2>1 DEF BaseDelay
  <2>2. CASE ~(l <= Len(BackoffTable))
    BY <1>1, <2>2 DEF BaseDelay
  <2> QED
    BY <2>1, <2>2
<1>4. d \in Int /\ e \in Int /\ 5 * (d - 1) < 6 * BaseDelay(k) /\ 4 * BaseDelay(l) <= 5 * e
  BY <1>2 DEF Jittered
<1> QED
  BY <1>2, <1>3, <1>4

-----------------------------------------------------------------------------
(* The breaker's operators keep a record a coherent record.                *)

LEMMA FreshIsBreaker == FreshBreaker \in Breaker /\ Coherent(FreshBreaker)
  BY BreakerAssumption DEF FreshBreaker, Breaker, Coherent

LEMMA RefreshBreaker ==
  ASSUME NEW b \in Breaker
  PROVE  /\ Refresh(b) \in Breaker
         /\ Coherent(b) => Coherent(Refresh(b))
  BY BreakerAssumption DEF Refresh, Breaker, Coherent

LEMMA AllowBreaker ==
  ASSUME NEW b \in Breaker
  PROVE  /\ AfterAllow(b) \in Breaker
         /\ Coherent(b) => Coherent(AfterAllow(b))
<1>1. Refresh(b) \in Breaker /\ (Coherent(b) => Coherent(Refresh(b)))
  BY RefreshBreaker
<1> DEFINE r == Refresh(b)
<1>2. AfterAllow(b) = [r EXCEPT !.probe = (r.state = "HALF_OPEN")]
  BY DEF AfterAllow
<1> HIDE DEF r
<1>3. r \in Breaker /\ (Coherent(b) => Coherent(r))
  BY <1>1 DEF r
<1> QED
  BY <1>2, <1>3 DEF Breaker, Coherent

LEMMA FailureBreaker ==
  ASSUME NEW b \in Breaker
  PROVE  /\ RecordFailure(b) \in Breaker
         /\ Coherent(b) => Coherent(RecordFailure(b))
<1> DEFINE f == Saturate(b.failures + 1)
           trips == b.state = "HALF_OPEN" \/ f >= Threshold
           r == [state    |-> IF trips THEN "OPEN" ELSE b.state,
                 failures |-> f,
                 cooldown |-> IF trips THEN OpenDuration ELSE b.cooldown,
                 probe    |-> FALSE]
<1>1. RecordFailure(b) = r
  BY DEF RecordFailure
<1>2. f \in 0..Threshold /\ (b.failures = Threshold => f = Threshold)
  BY BreakerAssumption DEF Saturate, Breaker
<1>3. r \in Breaker
  BY <1>2, BreakerAssumption DEF Breaker
<1>4. Coherent(b) => Coherent(r)
  BY <1>2, BreakerAssumption DEF Breaker, Coherent
<1> QED
  BY <1>1, <1>3, <1>4

LEMMA RecordedBreaker ==
  ASSUME NEW b \in Breaker, NEW final
  PROVE  /\ Recorded(b, final) \in Breaker
         /\ Coherent(b) => Coherent(Recorded(b, final))
  BY FreshIsBreaker, FailureBreaker DEF Recorded, RecordSuccess

LEMMA AgeBreaker ==
  ASSUME NEW b \in Breaker
  PROVE  /\ Age(b) \in Breaker
         /\ Coherent(b) => Coherent(Age(b))
  BY BreakerAssumption DEF Age, Breaker, Coherent

-----------------------------------------------------------------------------
(* Types.                                                                  *)

\* What the SELECT returns is a sequence of due rows.
LEMMA BatchRows ==
  ASSUME NEW s \in DueBatches
  PROVE  s \in Seq(Notifications)
<1>1. IsFiniteSet(Due)
  BY FS_Subset, DeliveryAssumption DEF Due
<1>2. Cardinality(Due) \in Nat
  BY <1>1, FS_CardinalityType
<1>3. Lesser(BatchSize, Cardinality(Due)) \in Nat
  BY <1>2, DeliveryAssumption DEF Lesser
<1>4. PICK k \in Nat : s \in [1..k -> Notifications]
  BY <1>3 DEF DueBatches, Due
<1> QED
  BY <1>4

LEMMA DelayType ==
  ASSUME NEW k \in 1..MaxAttempts, NEW result, NEW d \in RetryDelays(k, result)
  PROVE  d \in Nat
  BY DeliveryAssumption, RetryDelaysType

\* _apply_outcome keeps the types, and changes nothing but the row, the
\* task and the vendor's breaker record.
LEMMA OutcomeType ==
  ASSUME TypeOK, NEW w \in Workers, NEW n \in Notifications,
         NEW k \in 1..MaxAttempts, NEW result,
         ApplyOutcome(w, n, k, result)
  PROVE  /\ status' \in [Notifications -> Statuses]
         /\ attempts' \in [Notifications -> Nat]
         /\ wait' \in [Notifications -> Int]
         /\ task' \in [Workers -> [Notifications -> {"none", "queued", "sending"}]]
         /\ reply' \in [Workers -> [Notifications -> Results \cup {"none"}]]
         /\ snap' \in [Workers -> [Notifications -> Nat]]
         /\ breaker' \in [Workers -> [Providers -> Breaker]]
<1> DEFINE final == Decide(result, k)
           p == ProviderOf[n]
<1>1. p \in Providers /\ breaker[w][p] \in Breaker
  BY DeliveryAssumption DEF TypeOK
<1>2. Refresh(Recorded(breaker[w][p], final)) \in Breaker
  BY <1>1, RecordedBreaker, RefreshBreaker
<1>3. breaker' = [breaker EXCEPT ![w][p] = Refresh(Recorded(breaker[w][p], final))]
  BY DEF ApplyOutcome
<1>4. breaker' \in [Workers -> [Providers -> Breaker]]
  BY <1>1, <1>2, <1>3 DEF TypeOK
<1>5. Persist(n, k, final, result) /\ EndTask(w, n)
  BY DEF ApplyOutcome
<1>6. final \in {"SUCCEEDED", "DEAD_LETTER", "RETRY"}
  BY DEF Decide
<1>7. /\ status' \in [Notifications -> Statuses]
      /\ attempts' \in [Notifications -> Nat]
  <2>1. attempts' = [attempts EXCEPT ![n] = k] /\ k \in Nat
    BY <1>5, DeliveryAssumption DEF Persist
  <2>2. status' = [status EXCEPT ![n] = IF final = "RETRY" THEN "PENDING" ELSE final]
    BY <1>5 DEF Persist
  <2> QED
    BY <1>6, <2>1, <2>2 DEF TypeOK, Statuses
<1>8. wait' \in [Notifications -> Int]
  <2>1. CASE final = "RETRY"
    <3>1. PICK d \in RetryDelays(k, result) : wait' = [wait EXCEPT ![n] = d]
      BY <1>5, <2>1 DEF Persist
    <3> QED
      BY <3>1, DelayType DEF TypeOK
  <2>2. CASE final # "RETRY"
    BY <1>5, <2>2 DEF Persist, TypeOK
  <2> QED
    BY <2>1, <2>2
<1>9. /\ task' \in [Workers -> [Notifications -> {"none", "queued", "sending"}]]
      /\ reply' \in [Workers -> [Notifications -> Results \cup {"none"}]]
      /\ snap' \in [Workers -> [Notifications -> Nat]]
  BY <1>5 DEF EndTask, TypeOK
<1> QED
  BY <1>4, <1>7, <1>8, <1>9

LEMMA TypeInit == Init => TypeOK
  BY FreshIsBreaker DEF Init, TypeOK, Statuses

\* What holds of a row while it is dispatched: its attempts are in range and
\* read afresh, and an answer is kept for the request that is under way.
Underway ==
    /\ \A n \in Notifications : status[n] \notin Terminal => attempts[n] < MaxAttempts
    /\ \A w \in Workers, n \in Notifications :
          /\ task[w][n] # "none" => status[n] = "IN_FLIGHT"
          /\ reply[w][n] # "none" => task[w][n] = "sending"
          /\ reply[w][n] = "ok" => accepted[n]
    /\ SnapshotFresh

LEMMA NextAttempt ==
  ASSUME TypeOK, Underway, NEW w \in Workers, NEW n \in Notifications,
         task[w][n] # "none"
  PROVE  /\ attempts[n] + 1 \in 1..MaxAttempts
         /\ task[w][n] = "sending" => snap[w][n] = attempts[n] + 1
<1>1. status[n] = "IN_FLIGHT"
  BY DEF Underway
<1>2. attempts[n] \in Nat /\ attempts[n] < MaxAttempts
  BY <1>1 DEF Underway, Terminal, TypeOK
<1> QED
  BY <1>2, DeliveryAssumption DEF Underway, SnapshotFresh

\* A row that ends unsent was IN_FLIGHT, so its outcome is stored.
LEMMA UnsentApplies ==
  ASSUME Underway, NEW w \in Workers, NEW n \in Notifications, NEW result,
         task[w][n] # "none", EndUnsent(w, n, result)
  PROVE  MayWrite(w) /\ ApplyOutcome(w, n, attempts[n] + 1, result)
  BY DEF Underway, EndUnsent

LEMMA PutBackType ==
  ASSUME TypeOK, NEW n \in Notifications, PutBack(n)
  PROVE  /\ status' \in [Notifications -> Statuses]
         /\ attempts' \in [Notifications -> Nat]
         /\ wait' \in [Notifications -> Int]
<1>1. CASE UNCHANGED <<status, wait>>
  BY <1>1 DEF PutBack, TypeOK
<1>2. CASE /\ status' = [status EXCEPT ![n] = IF status[n] = "IN_FLIGHT" THEN "PENDING" ELSE status[n]]
           /\ wait' = [wait EXCEPT ![n] = 0]
  <2>1. status[n] \in Statuses /\ "PENDING" \in Statuses
    BY DEF TypeOK, Statuses
  <2> QED
    BY <1>2, <2>1 DEF PutBack, TypeOK
<1> QED
  BY <1>1, <1>2 DEF PutBack

LEMMA EndTaskType ==
  ASSUME TypeOK, NEW w \in Workers, NEW n \in Notifications, EndTask(w, n)
  PROVE  /\ task' \in [Workers -> [Notifications -> {"none", "queued", "sending"}]]
         /\ reply' \in [Workers -> [Notifications -> Results \cup {"none"}]]
         /\ snap' \in [Workers -> [Notifications -> Nat]]
  BY DEF EndTask, TypeOK

LEMMA TypeNext ==
  ASSUME TypeOK, Underway, [Next]_vars
  PROVE  TypeOK'
<1> USE DEF table, process, history
<1>1. CASE UNCHANGED vars
  BY <1>1 DEF vars, TypeOK
<1>2. CASE Clock
  <2>1. breaker' \in [Workers -> [Providers -> Breaker]]
    BY <1>2, AgeBreaker DEF Clock, TypeOK
  <2>2. wait' \in [Notifications -> Int]
    BY <1>2, DeliveryAssumption DEF Clock, TypeOK
  <2> QED
    BY <1>2, <2>1, <2>2 DEF Clock, TypeOK
<1>3. ASSUME NEW n \in Notifications, Submit(n)
      PROVE  TypeOK'
  BY <1>3 DEF Submit, TypeOK, Statuses
<1>4. ASSUME NEW w \in Workers, TickSelect(w)
      PROVE  TypeOK'
  <2>1. PICK s \in DueBatches : rows' = [rows EXCEPT ![w] = s]
    BY <1>4 DEF TickSelect
  <2>2. s \in Seq(Notifications)
    BY BatchRows
  <2> QED
    BY <1>4, <2>1, <2>2 DEF TickSelect, TypeOK
<1>5. ASSUME NEW w \in Workers, ClaimRow(w)
      PROVE  TypeOK'
  <2> DEFINE n == Head(rows[w])
             p == ProviderOf[n]
             b == breaker[w][p]
  <2>1. /\ rows[w] \in Seq(Notifications) /\ rows[w] # <<>>
        /\ n \in Notifications /\ Tail(rows[w]) \in Seq(Notifications)
    BY <1>5 DEF ClaimRow, TypeOK
  <2>2. p \in Providers /\ b \in Breaker
    BY <2>1, DeliveryAssumption DEF TypeOK
  <2>3. AfterAllow(b) \in Breaker /\ Refresh(b) \in Breaker
    BY <2>2, AllowBreaker, RefreshBreaker
  <2>4. breaker' = [breaker EXCEPT ![w][p] = IF Allows(b) THEN AfterAllow(b) ELSE Refresh(b)]
    BY <1>5 DEF ClaimRow
  <2>5. breaker' \in [Workers -> [Providers -> Breaker]]
    BY <2>2, <2>3, <2>4 DEF TypeOK
  <2>6. claimed' \in [Workers -> SUBSET Notifications]
    BY <1>5, <2>1 DEF ClaimRow, TypeOK
  <2> QED
    BY <1>5, <2>1, <2>5, <2>6 DEF ClaimRow, TypeOK
<1>6. ASSUME NEW w \in Workers, ClaimCommit(w)
      PROVE  TypeOK'
  BY <1>6 DEF ClaimCommit, TypeOK, Statuses
<1>7. ASSUME NEW w \in Workers, TickDone(w)
      PROVE  TypeOK'
  BY <1>7 DEF TickDone, TypeOK
<1>8. ASSUME NEW w \in Workers, NEW n \in Notifications, DispatchBegin(w, n)
      PROVE  TypeOK'
  <2>1. CASE status[n] = "IN_FLIGHT"
    <3>1. /\ task' = [task EXCEPT ![w][n] = "sending"]
          /\ reply' = reply
          /\ snap' = [snap EXCEPT ![w][n] = attempts[n] + 1]
          /\ calls' = [calls EXCEPT ![n] = calls[n] + 1]
      BY <1>8, <2>1 DEF DispatchBegin
    <3>2. attempts[n] + 1 \in Nat /\ calls[n] + 1 \in Nat
      BY DEF TypeOK
    <3>3. /\ task' \in [Workers -> [Notifications -> {"none", "queued", "sending"}]]
          /\ reply' \in [Workers -> [Notifications -> Results \cup {"none"}]]
          /\ snap' \in [Workers -> [Notifications -> Nat]]
          /\ calls' \in [Notifications -> Nat]
      BY <3>1, <3>2 DEF TypeOK
    <3> QED
      BY <1>8, <3>3 DEF DispatchBegin, TypeOK
  <2>2. CASE status[n] # "IN_FLIGHT"
    BY <1>8, <2>2, EndTaskType DEF DispatchBegin, TypeOK
  <2> QED
    BY <2>1, <2>2
<1>9. ASSUME NEW w \in Workers, NEW n \in Notifications, DispatchUndeliverable(w, n)
      PROVE  TypeOK'
  <2>1. attempts[n] + 1 \in 1..MaxAttempts
    BY <1>9, NextAttempt DEF DispatchUndeliverable
  <2>2. ApplyOutcome(w, n, attempts[n] + 1, "rejected")
    BY <1>9, UnsentApplies DEF DispatchUndeliverable
  <2> QED
    BY <1>9, <2>1, <2>2, OutcomeType DEF DispatchUndeliverable, TypeOK
<1>10. ASSUME NEW w \in Workers, NEW n \in Notifications, DispatchEnd(w, n)
       PROVE  TypeOK'
  <2>1. task[w][n] = "sending"
    BY <1>10 DEF DispatchEnd, Underway
  <2>2. snap[w][n] \in 1..MaxAttempts
    BY <2>1, NextAttempt
  <2> QED
    BY <1>10, <2>2, OutcomeType DEF DispatchEnd, TypeOK
<1>11. ASSUME NEW w \in Workers, ClaimFails(w)
       PROVE  TypeOK'
  <2>1. breaker' \in [Workers -> [Providers -> Breaker]]
    <3>1. CASE rows[w] = <<>>
      BY <1>11, <3>1 DEF ClaimFails, TypeOK
    <3>2. CASE rows[w] # <<>>
      <4> DEFINE p == ProviderOf[Head(rows[w])]
      <4>1. Head(rows[w]) \in Notifications
        BY <3>2 DEF TypeOK
      <4>2. p \in Providers /\ breaker[w][p] \in Breaker
        BY <4>1, DeliveryAssumption DEF TypeOK
      <4>3. AfterAllow(breaker[w][p]) \in Breaker
        BY <4>2, AllowBreaker
      <4>4. breaker' = [breaker EXCEPT ![w][p] = AfterAllow(breaker[w][p])]
        BY <1>11, <3>2 DEF ClaimFails
      <4> QED
        BY <4>2, <4>3, <4>4 DEF TypeOK
    <3> QED
      BY <3>1, <3>2
  <2> QED
    <3>1. faults' \in Nat /\ restarts' \in Nat
      BY <1>11 DEF ClaimFails, Fault, TypeOK
    <3>2. /\ claimed' = [claimed EXCEPT ![w] = {}]
          /\ rows' = [rows EXCEPT ![w] = <<>>]
          /\ tick' = [tick EXCEPT ![w] = "idle"]
          /\ UNCHANGED <<status, attempts, wait, proc, task, reply, snap, calls, accepted>>
      BY <1>11 DEF ClaimFails
    <3> QED
      BY <2>1, <3>1, <3>2 DEF TypeOK
<1>12. ASSUME NEW w \in Workers, NEW n \in Notifications, SnapshotFails(w, n)
       PROVE  TypeOK'
  <2>1. faults' \in Nat
    BY <1>12 DEF SnapshotFails, Fault, TypeOK
  <2> QED
    BY <1>12, <2>1, PutBackType, EndTaskType DEF SnapshotFails, TypeOK
<1>13. ASSUME NEW w \in Workers, NEW n \in Notifications, PersistFails(w, n)
       PROVE  TypeOK'
  <2> DEFINE p == ProviderOf[n]
             b == breaker[w][p]
  <2>1. p \in Providers /\ b \in Breaker
    BY DeliveryAssumption DEF TypeOK
  <2> DEFINE final == Decide(reply[w][n], snap[w][n])
  <2>2. \/ breaker' = [breaker EXCEPT ![w][p] = Recorded(b, final)]
        \/ breaker' = [breaker EXCEPT ![w][p] = RecordFailure(b)]
    BY <1>13 DEF PersistFails
  <2>4. Recorded(b, final) \in Breaker /\ RecordFailure(b) \in Breaker
    BY <2>1, RecordedBreaker, FailureBreaker
  <2>5. breaker' \in [Workers -> [Providers -> Breaker]]
    <3>1. PICK c \in Breaker : breaker' = [breaker EXCEPT ![w][p] = c]
      BY <2>2, <2>4
    <3> QED
      BY <2>1, <3>1 DEF TypeOK
  <2>6. faults' \in Nat /\ PutBack(n) /\ EndTask(w, n)
    BY <1>13 DEF PersistFails, Fault, TypeOK
  <2> QED
    BY <1>13, <2>5, <2>6, PutBackType, EndTaskType DEF PersistFails, TypeOK
<1>14. ASSUME NEW w \in Workers, Vanish(w), faults' = faults, restarts' \in Nat
       PROVE  TypeOK'
  BY <1>14, FreshIsBreaker DEF Vanish, TypeOK
<1>15. ASSUME NEW w \in Workers, Crash(w) \/ Exit(w)
       PROVE  TypeOK'
  BY <1>14, <1>15 DEF Crash, Exit, Restart, TypeOK
<1>16. ASSUME NEW w \in Workers, Stop(w) \/ Start(w)
       PROVE  TypeOK'
  <2>1. restarts' \in Nat /\ faults' = faults
    BY <1>16 DEF Stop, Start, Restart, TypeOK
  <2>2. \E x \in {"up", "stopping"} : proc' = [proc EXCEPT ![w] = x]
    BY <1>16 DEF Stop, Start
  <2> QED
    BY <1>16, <2>1, <2>2 DEF Stop, Start, TypeOK
<1>17. ASSUME NEW w \in Workers, NEW n \in Notifications, DispatchClosed(w, n)
       PROVE  TypeOK'
  <2>1. attempts[n] + 1 \in 1..MaxAttempts
    BY <1>17, NextAttempt DEF DispatchClosed
  <2>2. CASE EndUnsent(w, n, IF Undeliverable(n) THEN "rejected" ELSE "failed")
    <3>1. ApplyOutcome(w, n, attempts[n] + 1, IF Undeliverable(n) THEN "rejected" ELSE "failed")
      BY <1>17, <2>2, UnsentApplies DEF DispatchClosed
    <3> QED
      BY <1>17, <2>1, <3>1, OutcomeType DEF DispatchClosed, TypeOK
  <2>3. CASE EndTask(w, n) /\ UNCHANGED <<table, breaker>>
    BY <1>17, <2>3, EndTaskType DEF DispatchClosed, TypeOK
  <2> QED
    BY <1>17, <2>2, <2>3 DEF DispatchClosed
<1>18. ASSUME NEW w \in Workers, NEW p \in Providers, PollProvider(w, p)
       PROVE  TypeOK'
  BY <1>18, RefreshBreaker DEF PollProvider, TypeOK
<1>19. ASSUME NEW w \in Workers, NEW n \in Notifications, RequestEnds(w, n)
       PROVE  TypeOK'
  <2>1. PICK result \in Results :
            /\ reply' = [reply EXCEPT ![w][n] = result]
            /\ accepted' = [accepted EXCEPT ![n] = accepted[n] \/ result = "ok"]
    BY <1>19 DEF RequestEnds
  <2>2. accepted' \in [Notifications -> BOOLEAN]
    BY <2>1, Zenon DEF TypeOK
  <2>3. reply' \in [Workers -> [Notifications -> Results \cup {"none"}]]
    BY <2>1 DEF TypeOK
  <2> QED
    BY <1>19, <2>2, <2>3 DEF RequestEnds, TypeOK
<1> QED
  BY <1>1, <1>2, <1>3, <1>4, <1>5, <1>6, <1>7, <1>8, <1>9, <1>10, <1>11, <1>12,
     <1>13, <1>15, <1>16, <1>17, <1>18, <1>19
  DEF Next, Work

-----------------------------------------------------------------------------
(* The two ways a delivery ends, seen from the table.                      *)

Ends(w, n) ==
    /\ task[w][n] # "none"
    /\ EndTask(w, n)
    /\ UNCHANGED <<tick, claimed, accepted, restarts>>

\* An outcome is stored.
Settled(w, n) ==
    /\ Ends(w, n)
    /\ MayWrite(w)
    /\ attempts' = [attempts EXCEPT ![n] = @ + 1]
    /\ \E verdict \in {"PENDING", "SUCCEEDED", "DEAD_LETTER"} :
          /\ verdict = "PENDING" => attempts[n] + 1 < MaxAttempts
          /\ verdict = "SUCCEEDED" => accepted[n]
          /\ reply[w][n] = "ok" => verdict = "SUCCEEDED"
          /\ status' = [status EXCEPT ![n] = verdict]
    /\ UNCHANGED <<calls, faults>>

\* No outcome is stored: the row is put back or stays IN_FLIGHT.
GivenUp(w, n) ==
    /\ Ends(w, n)
    /\ \/ status' = status
       \/ MayWrite(w) /\ status' = [status EXCEPT ![n] = "PENDING"]
    /\ UNCHANGED <<attempts, calls>>
    /\ \/ faults' = faults + 1
       \/ faults' = faults /\ task[w][n] = "queued" /\ proc[w] = "stopping" /\ status' = status

LEMMA OutcomeSettles ==
  ASSUME TypeOK, Underway, NEW w \in Workers, NEW n \in Notifications,
         NEW result \in Results, task[w][n] # "none", MayWrite(w),
         ApplyOutcome(w, n, attempts[n] + 1, result),
         result = "ok" => accepted[n], reply[w][n] \in {"none", result},
         UNCHANGED <<tick, claimed, calls, accepted, faults, restarts>>
  PROVE  Settled(w, n)
<1> DEFINE k == attempts[n] + 1
           final == Decide(result, k)
<1>1. Persist(n, k, final, result) /\ EndTask(w, n)
  BY DEF ApplyOutcome
<1>2. k \in 1..MaxAttempts
  BY NextAttempt
<1>3. /\ final \in {"RETRY", "SUCCEEDED", "DEAD_LETTER"}
      /\ final = "RETRY" => k < MaxAttempts
      /\ final = "SUCCEEDED" <=> result = "ok"
  BY <1>2, DeliveryAssumption DEF Decide
<1>4. /\ attempts' = [attempts EXCEPT ![n] = k]
      /\ status' = [status EXCEPT ![n] = IF final = "RETRY" THEN "PENDING" ELSE final]
  BY <1>1 DEF Persist
<1>5. PICK verdict \in {"PENDING", "SUCCEEDED", "DEAD_LETTER"} :
          /\ verdict = "PENDING" => k < MaxAttempts
          /\ verdict = "SUCCEEDED" => accepted[n]
          /\ reply[w][n] = "ok" => verdict = "SUCCEEDED"
          /\ status' = [status EXCEPT ![n] = verdict]
  <2> DEFINE v == IF final = "RETRY" THEN "PENDING" ELSE final
  <2> HIDE DEF final
  <2>1. /\ v \in {"PENDING", "SUCCEEDED", "DEAD_LETTER"}
        /\ v = "PENDING" => k < MaxAttempts
        /\ v = "SUCCEEDED" => accepted[n]
        /\ reply[w][n] = "ok" => v = "SUCCEEDED"
    BY <1>3
  <2>2. status' = [status EXCEPT ![n] = v]
    BY <1>4
  <2> QED
    BY <2>1, <2>2
<1> QED
  BY <1>1, <1>4, <1>5 DEF Settled, Ends

LEMMA UndeliverableSettles ==
  ASSUME TypeOK, Underway, NEW w \in Workers, NEW n \in Notifications,
         DispatchUndeliverable(w, n)
  PROVE  Settled(w, n)
<1>1. /\ task[w][n] = "queued"
      /\ UNCHANGED <<tick, claimed, calls, accepted, faults, restarts>>
  BY DEF DispatchUndeliverable, history
<1>2. MayWrite(w) /\ ApplyOutcome(w, n, attempts[n] + 1, "rejected")
  BY <1>1, UnsentApplies DEF DispatchUndeliverable
<1>3. reply[w][n] = "none"
  BY <1>1 DEF Underway
<1> QED
  BY <1>1, <1>2, <1>3, OutcomeSettles, ResultsKnown

LEMMA DispatchEndSettles ==
  ASSUME TypeOK, Underway, NEW w \in Workers, NEW n \in Notifications,
         DispatchEnd(w, n)
  PROVE  Settled(w, n)
<1>1. /\ reply[w][n] # "none" /\ MayWrite(w)
      /\ ApplyOutcome(w, n, snap[w][n], reply[w][n])
      /\ UNCHANGED <<tick, claimed, calls, accepted, faults, restarts>>
  BY DEF DispatchEnd, history
<1>2. /\ task[w][n] = "sending" /\ reply[w][n] \in Results
      /\ reply[w][n] = "ok" => accepted[n]
  BY <1>1 DEF Underway, TypeOK
<1>3. snap[w][n] = attempts[n] + 1
  BY <1>2, NextAttempt
<1> QED
  BY <1>1, <1>2, <1>3, OutcomeSettles

LEMMA PutBackGivesUp ==
  ASSUME TypeOK, Underway, NEW w \in Workers, NEW n \in Notifications,
         SnapshotFails(w, n) \/ PersistFails(w, n)
  PROVE  GivenUp(w, n) /\ faults' = faults + 1
<1>1. /\ task[w][n] # "none" /\ MayWrite(w) /\ PutBack(n) /\ EndTask(w, n)
      /\ faults' = faults + 1
      /\ UNCHANGED <<tick, claimed, calls, accepted, restarts>>
  BY DEF SnapshotFails, PersistFails, Underway, Fault, history
<1>2. status[n] = "IN_FLIGHT"
  BY <1>1 DEF Underway
<1>3. attempts' = attempts
  BY <1>1 DEF PutBack
<1>4. status' = status \/ status' = [status EXCEPT ![n] = "PENDING"]
  BY <1>1, <1>2 DEF PutBack
<1> QED
  BY <1>1, <1>3, <1>4 DEF GivenUp, Ends

LEMMA ClosedEnds ==
  ASSUME TypeOK, Underway, NEW w \in Workers, NEW n \in Notifications,
         DispatchClosed(w, n)
  PROVE  Settled(w, n) \/ GivenUp(w, n)
<1>1. /\ task[w][n] = "queued" /\ proc[w] = "stopping"
      /\ UNCHANGED <<tick, claimed, calls, accepted, faults, restarts>>
  BY DEF DispatchClosed, history
<1>2. CASE EndUnsent(w, n, IF Undeliverable(n) THEN "rejected" ELSE "failed")
  <2>1. PICK result \in Results :
            /\ result # "ok" /\ MayWrite(w)
            /\ ApplyOutcome(w, n, attempts[n] + 1, result)
    BY <1>1, <1>2, UnsentApplies, ResultsKnown
  <2>2. reply[w][n] = "none"
    BY <1>1 DEF Underway
  <2> QED
    BY <1>1, <2>1, <2>2, OutcomeSettles
<1>3. CASE EndTask(w, n) /\ UNCHANGED <<table, breaker>>
  BY <1>1, <1>3 DEF GivenUp, Ends, table
<1> QED
  BY <1>2, <1>3 DEF DispatchClosed

-----------------------------------------------------------------------------
(* Who holds a row: the inductive invariant behind OneDispatcher,          *)
(* ClaimIsolated and SnapshotFresh.                                        *)

Hands ==
    /\ OneDispatcher
    /\ ClaimIsolated
    /\ Underway
    /\ \A w \in Workers, n \in Notifications :
          task[w][n] # "none" => tick[w] = "dispatching"

LEMMA HandsInit == Init => Hands
  BY DeliveryAssumption
  DEF Init, Hands, OneDispatcher, Holders, ClaimIsolated, Underway,
      SnapshotFresh, Terminal, MayWrite

\* A delivery that ends leaves every other delivery and claim alone.
LEMMA EndKeepsHands ==
  ASSUME TypeOK, Hands, NEW w \in Workers, NEW n \in Notifications,
         Ends(w, n),
         \/ Settled(w, n)
         \/ GivenUp(w, n)
  PROVE  Hands'
<1>1. /\ task' = [task EXCEPT ![w][n] = "none"]
      /\ reply' = [reply EXCEPT ![w][n] = "none"]
      /\ snap' = [snap EXCEPT ![w][n] = 0]
      /\ task[w][n] # "none"
      /\ UNCHANGED <<tick, claimed, accepted>>
  BY DEF Ends, EndTask
<1>2. \A v \in Workers, m \in Notifications :
          task'[v][m] # "none" => /\ m # n
                                  /\ task'[v][m] = task[v][m]
                                  /\ snap'[v][m] = snap[v][m]
  BY <1>1 DEF Hands, OneDispatcher, Holders, TypeOK
<1>2a. \A v \in Workers, m \in Notifications :
          reply'[v][m] # "none" => reply'[v][m] = reply[v][m] /\ task'[v][m] = task[v][m]
  BY <1>1 DEF TypeOK
<1>3. \A m \in Notifications :
          m # n => status'[m] = status[m] /\ attempts'[m] = attempts[m]
  BY DEF Settled, GivenUp, TypeOK
<1>4. status'[n] \notin Terminal => attempts'[n] < MaxAttempts
  <2>1. attempts[n] < MaxAttempts
    BY <1>1 DEF Hands, Underway, Terminal
  <2>2. CASE Settled(w, n)
    BY <2>2 DEF Settled, Terminal, TypeOK
  <2>3. CASE GivenUp(w, n)
    BY <2>1, <2>3 DEF GivenUp
  <2> QED
    BY <2>2, <2>3
<1>5. Underway'
  BY <1>1, <1>2, <1>2a, <1>3, <1>4 DEF Hands, Underway, SnapshotFresh
<1>6. OneDispatcher'
  BY <1>2, <1>3 DEF Hands, OneDispatcher, Holders
<1>7. ClaimIsolated'
  <2>1. CASE status' = status
    BY <1>1, <2>1 DEF Hands, ClaimIsolated, MayWrite
  <2>2. CASE status' # status
    <3>1. MayWrite(w)
      BY <2>2 DEF Settled, GivenUp
    <3>2. tick[w] = "dispatching"
      BY <1>1 DEF Hands
    <3>3. \A v \in Workers : claimed[v] = {}
      BY <3>1, <3>2 DEF Hands, ClaimIsolated, MayWrite
    <3> QED
      BY <1>1, <3>3 DEF ClaimIsolated
  <2> QED
    BY <2>1, <2>2
<1> QED
  BY <1>1, <1>2, <1>5, <1>6, <1>7 DEF Hands

\* Steps that touch neither rows nor deliveries nor claims.
LEMMA QuietKeepsHands ==
  ASSUME Hands, UNCHANGED <<status, attempts, tick, claimed, task, reply, snap, accepted>>
  PROVE  Hands'
  BY DEF Hands, OneDispatcher, Holders, ClaimIsolated, Underway,
         SnapshotFresh, MayWrite

\* Everything a process had in memory disappears.
LEMMA VanishKeepsHands ==
  ASSUME TypeOK, Hands, NEW w \in Workers, Vanish(w)
  PROVE  Hands'
<1>1. /\ UNCHANGED <<status, attempts, accepted>>
      /\ \A v \in Workers, m \in Notifications :
            reply'[v][m] # "none" => /\ v # w /\ reply'[v][m] = reply[v][m]
                                     /\ task'[v][m] = task[v][m]
      /\ \A v \in Workers, m \in Notifications :
            task'[v][m] # "none" => /\ v # w
                                    /\ task'[v][m] = task[v][m]
                                    /\ snap'[v][m] = snap[v][m]
      /\ \A v \in Workers : v # w => tick'[v] = tick[v] /\ claimed'[v] = claimed[v]
      /\ claimed'[w] = {}
  BY DEF Vanish, TypeOK, table, history
<1>2. OneDispatcher'
  BY <1>1 DEF Hands, OneDispatcher, Holders
<1>3. ClaimIsolated'
  BY <1>1 DEF Hands, ClaimIsolated, MayWrite
<1>4. Underway'
  BY <1>1 DEF Hands, Underway, SnapshotFresh
<1> QED
  BY <1>1, <1>2, <1>3, <1>4 DEF Hands

\* The commit: rows that were PENDING, hence nobody's, become w's.
LEMMA CommitKeepsHands ==
  ASSUME TypeOK, Hands, NEW w \in Workers, ClaimCommit(w)
  PROVE  Hands'
<1>1. /\ tick[w] = "claiming"
      /\ status' = [m \in Notifications |->
                       IF m \in claimed[w] THEN "IN_FLIGHT" ELSE status[m]]
      /\ task' = [task EXCEPT ![w] = [m \in Notifications |->
                     IF m \in claimed[w] THEN "queued" ELSE "none"]]
      /\ tick' = [tick EXCEPT ![w] = IF claimed[w] = {} THEN "idle" ELSE "dispatching"]
      /\ claimed' = [claimed EXCEPT ![w] = {}]
      /\ UNCHANGED <<attempts, reply, snap, accepted>>
  BY DEF ClaimCommit, history
<1>2. \A m \in claimed[w] :
         /\ m \in Notifications /\ status[m] = "PENDING"
         /\ \A v \in Workers : task[v][m] = "none"
  <2> SUFFICES ASSUME NEW m \in claimed[w]
               PROVE  /\ m \in Notifications /\ status[m] = "PENDING"
                      /\ \A v \in Workers : task[v][m] = "none"
    OBVIOUS
  <2>1. m \in Notifications
    BY DEF TypeOK
  <2>2. status[m] = "PENDING"
    BY DEF Hands, ClaimIsolated
  <2> QED
    BY <2>1, <2>2 DEF Hands, Underway
<1>3. \A v \in Workers, m \in Notifications :
         task'[v][m] # "none" =>
            \/ v = w /\ m \in claimed[w] /\ task'[v][m] = "queued"
            \/ v # w /\ m \notin claimed[w] /\ task'[v][m] = task[v][m]
  BY <1>1, <1>2 DEF TypeOK
<1>4. \A m \in Notifications :
         status'[m] = IF m \in claimed[w] THEN "IN_FLIGHT" ELSE status[m]
  BY <1>1
<1>5. OneDispatcher'
  BY <1>3, <1>4 DEF Hands, OneDispatcher, Holders
<1>6. ClaimIsolated'
  <2>1. \A v \in Workers : claimed'[v] # {} => v # w /\ claimed'[v] = claimed[v] /\ tick'[v] = tick[v]
    BY <1>1 DEF TypeOK
  <2>2. \A v \in Workers : claimed'[v] # {} => claimed[w] = {}
    BY <2>1 DEF Hands, ClaimIsolated, MayWrite
  <2>3. \A v \in Workers : claimed'[v] # {} =>
           \A u \in Workers \ {v} : claimed'[u] = {}
    BY <1>1, <2>1 DEF Hands, ClaimIsolated, MayWrite, TypeOK
  <2>4. \A v \in Workers : \A m \in claimed'[v] : status'[m] = "PENDING"
    <3> SUFFICES ASSUME NEW v \in Workers, NEW m \in claimed'[v]
                 PROVE  status'[m] = "PENDING"
      OBVIOUS
    <3>1. claimed[w] = {} /\ m \in claimed[v]
      BY <2>1, <2>2
    <3>2. m \in Notifications
      BY <3>1 DEF TypeOK
    <3>3. status[m] = "PENDING"
      BY <3>1 DEF Hands, ClaimIsolated
    <3> QED
      BY <1>4, <3>1, <3>2, <3>3
  <2> QED
    BY <2>1, <2>3, <2>4 DEF Hands, ClaimIsolated, MayWrite
<1>7. Underway'
  <2>1. \A m \in Notifications : status'[m] \notin Terminal => status[m] \notin Terminal
    BY <1>2, <1>4 DEF Terminal
  <2>2. \A v \in Workers, m \in Notifications :
           reply'[v][m] # "none" => task'[v][m] = "sending" /\ accepted' = accepted
    <3> SUFFICES ASSUME NEW v \in Workers, NEW m \in Notifications, reply[v][m] # "none"
                 PROVE  task'[v][m] = "sending" /\ accepted' = accepted
      BY <1>1
    <3>1. task[v][m] = "sending"
      BY DEF Hands, Underway
    <3>2. v # w
      BY <1>1, <3>1 DEF Hands
    <3> QED
      BY <1>1, <3>1, <3>2 DEF TypeOK
  <2> QED
    BY <1>1, <1>3, <1>4, <2>1, <2>2 DEF Hands, Underway, SnapshotFresh
<1>8. \A v \in Workers, m \in Notifications : task'[v][m] # "none" => tick'[v] = "dispatching"
  BY <1>1, <1>3 DEF Hands, TypeOK
<1> QED
  BY <1>5, <1>6, <1>7, <1>8 DEF Hands

LEMMA HandsNext ==
  ASSUME TypeOK, Hands, [Next]_vars
  PROVE  Hands'
<1> USE DEF table, process, history
<1>0. Underway
  BY DEF Hands
<1>1. CASE UNCHANGED vars
  BY <1>1, QuietKeepsHands DEF vars
<1>2. CASE Clock
  BY <1>2, QuietKeepsHands DEF Clock
<1>3. ASSUME NEW n \in Notifications, Submit(n)
      PROVE  Hands'
  <2>1. /\ status[n] = "absent" /\ status' = [status EXCEPT ![n] = "PENDING"]
        /\ UNCHANGED <<attempts, tick, claimed, task, reply, snap, accepted>>
    BY <1>3 DEF Submit
  <2>2. \A m \in Notifications : status'[m] = IF m = n THEN "PENDING" ELSE status[m]
    BY <2>1 DEF TypeOK
  <2>3. OneDispatcher'
    BY <2>1, <2>2 DEF Hands, OneDispatcher, Holders
  <2>4. ClaimIsolated'
    BY <2>1, <2>2 DEF Hands, ClaimIsolated, MayWrite, TypeOK
  <2>5. Underway'
    BY <2>1, <2>2 DEF Hands, Underway, SnapshotFresh, Terminal
  <2> QED
    BY <2>1, <2>3, <2>4, <2>5 DEF Hands
<1>4. ASSUME NEW w \in Workers, TickSelect(w) \/ TickDone(w)
      PROVE  Hands'
  <2>1. /\ UNCHANGED <<status, attempts, claimed, task, reply, snap, accepted>>
        /\ \E x \in {"idle", "claiming"} : tick' = [tick EXCEPT ![w] = x]
    BY <1>4 DEF TickSelect, TickDone
  <2>2. tick[w] # "claiming" /\ \A n \in Notifications : task[w][n] = "none"
    BY <1>4 DEF TickSelect, TickDone, Hands
  <2>3. OneDispatcher' /\ Underway'
    BY <2>1 DEF Hands, OneDispatcher, Holders, Underway, SnapshotFresh
  <2>4. \A v \in Workers : v # w => tick'[v] = tick[v]
    BY <2>1 DEF TypeOK
  <2>5. ClaimIsolated'
    BY <2>1, <2>2, <2>4 DEF Hands, ClaimIsolated, MayWrite
  <2> QED
    BY <2>1, <2>2, <2>3, <2>4, <2>5 DEF Hands
<1>5. ASSUME NEW w \in Workers, ClaimRow(w)
      PROVE  Hands'
  <2> DEFINE n == Head(rows[w])
             taken == Allows(breaker[w][ProviderOf[n]]) /\ status[n] = "PENDING"
  <2>1. /\ UNCHANGED <<status, attempts, tick, task, reply, snap, accepted>>
        /\ tick[w] = "claiming"
        /\ claimed' = [claimed EXCEPT ![w] = IF taken THEN claimed[w] \cup {n} ELSE claimed[w]]
        /\ taken => MayWrite(w)
    BY <1>5 DEF ClaimRow
  <2>2. OneDispatcher' /\ Underway'
    BY <2>1 DEF Hands, OneDispatcher, Holders, Underway, SnapshotFresh
  <2>3. CASE ~taken
    <3>1. claimed' = claimed
      BY <2>1, <2>3 DEF TypeOK
    <3> QED
      BY <2>1, <3>1, QuietKeepsHands
  <2>4. CASE taken
    <3>1. /\ claimed'[w] = claimed[w] \cup {n}
          /\ \A v \in Workers : v # w => claimed'[v] = {}
      BY <2>1, <2>4 DEF TypeOK, MayWrite
    <3>2. ClaimIsolated'
      BY <2>1, <2>4, <3>1 DEF Hands, ClaimIsolated, MayWrite
    <3> QED
      BY <2>1, <2>2, <3>2 DEF Hands
  <2> QED
    BY <2>3, <2>4
<1>6. ASSUME NEW w \in Workers, ClaimCommit(w)
      PROVE  Hands'
  BY <1>6, CommitKeepsHands
<1>7. ASSUME NEW w \in Workers, NEW n \in Notifications, DispatchBegin(w, n)
      PROVE  Hands'
  <2>1. /\ task[w][n] = "queued" /\ status[n] = "IN_FLIGHT"
        /\ task' = [task EXCEPT ![w][n] = "sending"]
        /\ snap' = [snap EXCEPT ![w][n] = attempts[n] + 1]
        /\ UNCHANGED <<status, attempts, tick, claimed, reply, accepted>>
    BY <1>7 DEF DispatchBegin, Hands, Underway
  <2>2. \A v \in Workers, m \in Notifications :
           /\ task'[v][m] # "none" => task[v][m] # "none"
           /\ v = w /\ m = n => task'[v][m] = "sending" /\ snap'[v][m] = attempts[n] + 1
           /\ ~(v = w /\ m = n) => task'[v][m] = task[v][m] /\ snap'[v][m] = snap[v][m]
    BY <2>1 DEF TypeOK
  <2>3. OneDispatcher'
    BY <2>1, <2>2 DEF Hands, OneDispatcher, Holders
  <2>4. Underway'
    BY <2>1, <2>2 DEF Hands, Underway, SnapshotFresh
  <2>5. ClaimIsolated'
    BY <2>1 DEF Hands, ClaimIsolated, MayWrite
  <2> QED
    BY <2>1, <2>2, <2>3, <2>4, <2>5 DEF Hands
<1>8. ASSUME NEW w \in Workers, NEW n \in Notifications,
             Settled(w, n) \/ GivenUp(w, n)
      PROVE  Hands'
  BY <1>8, EndKeepsHands DEF Settled, GivenUp
<1>9. ASSUME NEW w \in Workers, NEW n \in Notifications,
             \/ DispatchUndeliverable(w, n) \/ DispatchEnd(w, n)
             \/ SnapshotFails(w, n) \/ PersistFails(w, n) \/ DispatchClosed(w, n)
      PROVE  Hands'
  BY <1>0, <1>8, <1>9, UndeliverableSettles, DispatchEndSettles, PutBackGivesUp, ClosedEnds
<1>10. ASSUME NEW w \in Workers, ClaimFails(w)
       PROVE  Hands'
  <2>1. /\ UNCHANGED <<status, attempts, task, reply, snap, accepted>>
        /\ tick[w] = "claiming"
        /\ tick' = [tick EXCEPT ![w] = "idle"]
        /\ claimed' = [claimed EXCEPT ![w] = {}]
    BY <1>10 DEF ClaimFails
  <2>2. /\ claimed'[w] = {}
        /\ \A v \in Workers : v # w => tick'[v] = tick[v] /\ claimed'[v] = claimed[v]
    BY <2>1 DEF TypeOK
  <2>3. OneDispatcher' /\ Underway'
    BY <2>1 DEF Hands, OneDispatcher, Holders, Underway, SnapshotFresh
  <2>4. ClaimIsolated'
    BY <2>1, <2>2 DEF Hands, ClaimIsolated, MayWrite
  <2> QED
    BY <2>1, <2>2, <2>3, <2>4 DEF Hands
<1>11. ASSUME NEW w \in Workers, Crash(w) \/ Exit(w)
       PROVE  Hands'
  BY <1>11, VanishKeepsHands DEF Crash, Exit
<1>12. ASSUME NEW w \in Workers, Stop(w) \/ Start(w)
       PROVE  Hands'
  BY <1>12, QuietKeepsHands DEF Stop, Start
<1>13. ASSUME NEW w \in Workers, NEW p \in Providers, PollProvider(w, p)
       PROVE  Hands'
  BY <1>13, QuietKeepsHands DEF PollProvider
<1>14. ASSUME NEW w \in Workers, NEW n \in Notifications, RequestEnds(w, n)
       PROVE  Hands'
  <2>1. PICK result \in Results :
           /\ reply' = [reply EXCEPT ![w][n] = result]
           /\ accepted' = [accepted EXCEPT ![n] = accepted[n] \/ result = "ok"]
    BY <1>14 DEF RequestEnds
  <2>2. /\ task[w][n] = "sending"
        /\ UNCHANGED <<status, attempts, tick, claimed, task, snap>>
    BY <1>14 DEF RequestEnds
  <2>3. /\ \A m \in Notifications : accepted[m] => accepted'[m]
        /\ result = "ok" => accepted'[n]
    BY <2>1, Zenon DEF TypeOK
  <2>4. \A v \in Workers, m \in Notifications :
           reply'[v][m] = IF v = w /\ m = n THEN result ELSE reply[v][m]
    BY <2>1 DEF TypeOK
  <2>5. Underway'
    BY <2>2, <2>3, <2>4 DEF Hands, Underway, SnapshotFresh
  <2>6. OneDispatcher' /\ ClaimIsolated'
    BY <2>2 DEF Hands, OneDispatcher, Holders, ClaimIsolated, MayWrite
  <2> QED
    BY <2>2, <2>5, <2>6 DEF Hands
<1> QED
  BY <1>1, <1>2, <1>3, <1>4, <1>5, <1>6, <1>7, <1>9, <1>10, <1>11, <1>12, <1>13, <1>14
  DEF Next, Work

THEOREM CoreInvariant == Spec => [](TypeOK /\ Hands)
<1>1. Init => TypeOK /\ Hands
  BY TypeInit, HandsInit
<1>2. TypeOK /\ Hands /\ [Next]_vars => TypeOK' /\ Hands'
  BY TypeNext, HandsNext DEF Hands
<1> QED
  BY <1>1, <1>2, PTL DEF Spec

\* The columns, locals and breaker records hold values of the code's types:
\* attempts never leaves the range the backoff table is asked for.
THEOREM TypeCorrect == Spec => []TypeOK
  BY CoreInvariant, PTL

\* Any number of processes on one table: a row being dispatched belongs to
\* exactly one of them (worker.py's compare-and-set and put back).
THEOREM OneDispatcherCorrect == Spec => []OneDispatcher
<1>1. Hands => OneDispatcher
  BY DEF Hands
<1> QED
  BY <1>1, CoreInvariant, PTL

\* What one claim loop has updated, no other process has or sees.
THEOREM ClaimIsolatedCorrect == Spec => []ClaimIsolated
<1>1. Hands => ClaimIsolated
  BY DEF Hands
<1> QED
  BY <1>1, CoreInvariant, PTL

\* The attempts_after that dispatch carries across its HTTP call is never
\* stale (dispatcher.py's read in _claim_snapshot, write in _persist_*).
THEOREM SnapshotFreshCorrect == Spec => []SnapshotFresh
<1>1. Hands => SnapshotFresh
  BY DEF Hands, Underway
<1> QED
  BY <1>1, CoreInvariant, PTL

-----------------------------------------------------------------------------
(* The accounts: requests against attempts, acceptances against outcomes,  *)
(* and the reasons a row may be left behind.                               *)

\* A request is uncounted only while it is under way or was cut off.
Uncounted(n) ==
    IF status[n] = "IN_FLIGHT" /\ \A w \in Workers : task[w][n] # "queued" THEN 1 ELSE 0

Accounts ==
    /\ \A n \in Notifications : attempts[n] <= MaxAttempts
    /\ \A n \in Notifications : calls[n] <= attempts[n] + faults + Uncounted(n)
    /\ \A w \in Workers : proc[w] = "stopping" => restarts > 0
    /\ AcceptedIsFinal
    /\ NoOrphan

LEMMA AccountsInit == Init => Accounts
  BY DeliveryAssumption
  DEF Init, Accounts, Uncounted, AcceptedIsFinal, NoOrphan, Orphaned

\* Steps that touch neither rows nor deliveries.
LEMMA QuietKeepsAccounts ==
  ASSUME TypeOK, Accounts, UNCHANGED <<status, attempts, task, reply, calls, accepted>>,
         faults' \in Nat, restarts' \in Nat, faults' >= faults, restarts' >= restarts,
         \A w \in Workers : proc'[w] = "stopping" => restarts' > 0
  PROVE  Accounts'
<1>1. \A n \in Notifications : Uncounted(n)' = Uncounted(n) /\ Orphaned(n)' = Orphaned(n)
  BY DEF Uncounted, Orphaned, Holders
<1>2. \A n \in Notifications : calls'[n] <= attempts'[n] + faults' + Uncounted(n)'
  <2>1. \A n \in Notifications : Uncounted(n) \in Nat
    BY DEF Uncounted
  <2> QED
    BY <1>1, <2>1 DEF Accounts, TypeOK
<1>3. AcceptedIsFinal' /\ NoOrphan'
  BY <1>1 DEF Accounts, AcceptedIsFinal, NoOrphan, Holders, TypeOK
<1> QED
  BY <1>2, <1>3 DEF Accounts

LEMMA SettledKeepsAccounts ==
  ASSUME TypeOK, Hands, Accounts, NEW w \in Workers, NEW n \in Notifications,
         Settled(w, n), proc' = proc
  PROVE  Accounts'
<1>1. /\ task' = [task EXCEPT ![w][n] = "none"] /\ task[w][n] # "none"
      /\ reply' = [reply EXCEPT ![w][n] = "none"]
      /\ attempts' = [attempts EXCEPT ![n] = attempts[n] + 1]
      /\ UNCHANGED <<calls, accepted, faults, restarts>>
  BY DEF Settled, Ends, EndTask
<1>2. PICK verdict \in {"PENDING", "SUCCEEDED", "DEAD_LETTER"} :
          /\ verdict = "SUCCEEDED" => accepted[n]
          /\ reply[w][n] = "ok" => verdict = "SUCCEEDED"
          /\ status' = [status EXCEPT ![n] = verdict]
  BY DEF Settled
<1>3. status[n] = "IN_FLIGHT" /\ attempts[n] < MaxAttempts
  BY <1>1 DEF Hands, Underway, Terminal
<1>4. \A m \in Notifications :
         m # n => /\ status'[m] = status[m] /\ attempts'[m] = attempts[m]
                  /\ \A v \in Workers : /\ task'[v][m] = task[v][m]
                                         /\ reply'[v][m] = reply[v][m]
  BY <1>1, <1>2 DEF TypeOK
<1>5. status'[n] = verdict /\ attempts'[n] = attempts[n] + 1
  BY <1>1, <1>2 DEF TypeOK
<1>6. \A m \in Notifications : attempts'[m] <= MaxAttempts
  <2>1. attempts[n] \in Nat /\ MaxAttempts \in Nat
    BY DeliveryAssumption DEF TypeOK
  <2>2. attempts'[n] <= MaxAttempts
    BY <1>3, <1>5, <2>1
  <2> QED
    BY <1>4, <2>2 DEF Accounts
<1>7. \A m \in Notifications : calls'[m] <= attempts'[m] + faults' + Uncounted(m)'
  <2>1. calls'[n] <= attempts'[n] + faults' + Uncounted(n)'
    <3>1. Uncounted(n) \in {0, 1} /\ Uncounted(n)' \in {0, 1}
      BY DEF Uncounted
    <3>2. calls[n] \in Nat /\ attempts[n] \in Nat /\ faults \in Nat
      BY DEF TypeOK
    <3>3. calls[n] <= attempts[n] + faults + Uncounted(n)
      BY DEF Accounts
    <3> QED
      BY <1>1, <1>5, <3>1, <3>2, <3>3
  <2>2. \A m \in Notifications : m # n => Uncounted(m)' = Uncounted(m)
    BY <1>4 DEF Uncounted
  <2> QED
    BY <1>1, <1>4, <2>1, <2>2 DEF Accounts
<1>8. AcceptedIsFinal'
  <2>1. status'[n] = "SUCCEEDED" => accepted'[n]
    BY <1>1, <1>2, <1>5
  <2>2. accepted[n] /\ faults = 0 => status'[n] = "SUCCEEDED"
    BY <1>1, <1>2, <1>3, <1>5 DEF Accounts, AcceptedIsFinal, Holders
  <2> QED
    BY <1>1, <1>4, <2>1, <2>2 DEF Accounts, AcceptedIsFinal, Holders
<1>9. NoOrphan'
  BY <1>1, <1>4, <1>5 DEF Accounts, NoOrphan, Orphaned, Holders
<1> QED
  BY <1>1, <1>6, <1>7, <1>8, <1>9 DEF Accounts

LEMMA GivenUpKeepsAccounts ==
  ASSUME TypeOK, Hands, Accounts, NEW w \in Workers, NEW n \in Notifications,
         GivenUp(w, n), proc' = proc
  PROVE  Accounts'
<1>1. /\ task' = [task EXCEPT ![w][n] = "none"] /\ task[w][n] # "none"
      /\ reply' = [reply EXCEPT ![w][n] = "none"]
      /\ UNCHANGED <<attempts, calls, accepted, restarts>>
      /\ status' = status \/ status' = [status EXCEPT ![n] = "PENDING"]
  BY DEF GivenUp, Ends, EndTask
<1>2. status[n] = "IN_FLIGHT"
  BY <1>1 DEF Hands, Underway
<1>3. \/ faults' = faults + 1
      \/ /\ faults' = faults /\ status' = status /\ restarts > 0
         /\ task[w][n] = "queued"
  BY DEF GivenUp, Accounts
<1>4. /\ status'[n] \in {"IN_FLIGHT", "PENDING"}
      /\ \A m \in Notifications :
            m # n => /\ status'[m] = status[m]
                     /\ \A v \in Workers : /\ task'[v][m] = task[v][m]
                                            /\ reply'[v][m] = reply[v][m]
  BY <1>1, <1>2 DEF TypeOK
<1>5. \A m \in Notifications : calls'[m] <= attempts'[m] + faults' + Uncounted(m)'
  <2>1. \A m \in Notifications : m # n => Uncounted(m)' = Uncounted(m)
    BY <1>4 DEF Uncounted
  <2>2. Uncounted(n)' \in Nat /\ \A m \in Notifications : Uncounted(m) \in {0, 1}
    BY DEF Uncounted
  <2> DEFINE before(m) == Uncounted(m)
             after(m) == Uncounted(m)'
  <2>0. \A m \in Notifications :
           /\ calls[m] \in Nat /\ attempts[m] \in Nat /\ faults \in Nat
           /\ calls[m] <= attempts[m] + faults + before(m)
    BY DEF Accounts, TypeOK
  <2>3. calls'[n] <= attempts'[n] + faults' + after(n)
    <3>1. CASE faults' = faults + 1
      <4> HIDE DEF before, after
      <4>1. after(n) \in Nat /\ before(n) \in {0, 1}
        BY <2>2 DEF before, after
      <4> QED
        BY <1>1, <2>0, <3>1, <4>1
    <3>2. CASE faults' = faults /\ task[w][n] = "queued"
      <4>1. Uncounted(n) = 0
        BY <3>2 DEF Uncounted
      <4> QED
        BY <1>1, <2>2, <3>2, <4>1 DEF Accounts, TypeOK
    <3> QED
      BY <1>3, <3>1, <3>2
  <2> QED
    <3>1. \A m \in Notifications : m # n => calls'[m] <= attempts'[m] + faults' + after(m)
      <4> SUFFICES ASSUME NEW m \in Notifications, m # n
                   PROVE  calls'[m] <= attempts'[m] + faults' + after(m)
        OBVIOUS
      <4> HIDE DEF before, after
      <4>1. after(m) = before(m) /\ before(m) \in {0, 1}
        BY <2>1, <2>2 DEF before, after
      <4>2. faults \in Nat /\ (faults' = faults \/ faults' = faults + 1)
        BY <1>3 DEF TypeOK
      <4> QED
        BY <1>1, <2>0, <4>1, <4>2
    <3> QED
      BY <2>3, <3>1
<1>6. AcceptedIsFinal'
  <2>1. CASE faults' = faults + 1
    BY <1>1, <1>2, <1>4, <2>1 DEF Accounts, AcceptedIsFinal, TypeOK
  <2>2. CASE faults' = faults /\ task[w][n] = "queued"
    <3>1. reply[w][n] = "none"
      BY <2>2 DEF Hands, Underway
    <3>2. accepted[n] => faults # 0
      BY <1>1, <1>2, <3>1 DEF Accounts, AcceptedIsFinal, Holders
    <3> QED
      BY <1>1, <1>2, <1>4, <2>2, <3>2 DEF Accounts, AcceptedIsFinal, Holders
  <2> QED
    BY <1>3, <2>1, <2>2
<1>7. NoOrphan'
  BY <1>1, <1>3 DEF NoOrphan, TypeOK
<1> QED
  BY <1>1, <1>5, <1>6, <1>7 DEF Accounts

LEMMA VanishKeepsAccounts ==
  ASSUME TypeOK, Hands, Accounts, NEW w \in Workers, Vanish(w),
         faults' = faults, restarts' \in Nat, restarts' > 0
  PROVE  Accounts'
<1>1. /\ UNCHANGED <<status, attempts, calls, accepted>>
      /\ \A v \in Workers, m \in Notifications :
            /\ task'[v][m] = "queued" => task[v][m] = "queued"
            /\ task'[v][m] # "none" =>
                  task[v][m] # "none" /\ reply'[v][m] = reply[v][m]
  BY DEF Vanish, table, history, TypeOK
<1>2. \A n \in Notifications : calls'[n] <= attempts'[n] + faults' + Uncounted(n)'
  <2> SUFFICES ASSUME NEW n \in Notifications
               PROVE  calls[n] <= attempts[n] + faults + Uncounted(n)'
    BY <1>1
  <2>1. Uncounted(n) = 1 => Uncounted(n)' = 1
    BY <1>1 DEF Uncounted
  <2>2. Uncounted(n) \in {0, 1} /\ Uncounted(n)' \in {0, 1}
    BY DEF Uncounted
  <2>3. calls[n] <= attempts[n] + faults + Uncounted(n)
    BY DEF Accounts
  <2>4. calls[n] \in Nat /\ attempts[n] \in Nat /\ faults \in Nat
    BY DEF TypeOK
  <2> QED
    BY <2>1, <2>2, <2>3, <2>4
<1>3. AcceptedIsFinal' /\ NoOrphan'
  BY <1>1 DEF Accounts, AcceptedIsFinal, NoOrphan, Holders
<1> QED
  BY <1>1, <1>2, <1>3 DEF Accounts

\* The commit makes PENDING rows queued ones; neither has a request open.
LEMMA CommitKeepsAccounts ==
  ASSUME TypeOK, Hands, Accounts, NEW w \in Workers, ClaimCommit(w)
  PROVE  Accounts'
<1>1. /\ tick[w] = "claiming"
      /\ status' = [m \in Notifications |->
                       IF m \in claimed[w] THEN "IN_FLIGHT" ELSE status[m]]
      /\ task' = [task EXCEPT ![w] = [m \in Notifications |->
                     IF m \in claimed[w] THEN "queued" ELSE "none"]]
      /\ UNCHANGED <<attempts, reply, calls, accepted, proc, faults, restarts>>
  BY DEF ClaimCommit, history
<1>2. \A m \in Notifications : m \in claimed[w] =>
         /\ status[m] = "PENDING" /\ status'[m] = "IN_FLIGHT" /\ task'[w][m] = "queued"
  BY <1>1 DEF Hands, ClaimIsolated, TypeOK
<1>3. \A m \in Notifications : m \notin claimed[w] =>
         /\ status'[m] = status[m]
         /\ \A v \in Workers : task'[v][m] = task[v][m]
  BY <1>1 DEF Hands, TypeOK
<1>4. \A m \in Notifications : Uncounted(m)' = Uncounted(m)
  BY <1>2, <1>3 DEF Uncounted
<1>5. \A n \in Notifications : calls'[n] <= attempts'[n] + faults' + Uncounted(n)'
  BY <1>1, <1>4 DEF Accounts
<1>6. AcceptedIsFinal'
  BY <1>1, <1>2, <1>3 DEF Accounts, AcceptedIsFinal, Holders
<1>7. NoOrphan'
  BY <1>1, <1>2, <1>3 DEF Accounts, NoOrphan, Orphaned, Holders
<1> QED
  BY <1>1, <1>5, <1>6, <1>7 DEF Accounts

LEMMA BeginKeepsAccounts ==
  ASSUME TypeOK, Hands, Accounts, NEW w \in Workers, NEW n \in Notifications,
         DispatchBegin(w, n)
  PROVE  Accounts'
<1>1. /\ task[w][n] = "queued" /\ status[n] = "IN_FLIGHT"
      /\ task' = [task EXCEPT ![w][n] = "sending"]
      /\ calls' = [calls EXCEPT ![n] = calls[n] + 1]
      /\ UNCHANGED <<status, attempts, reply, accepted, proc, faults, restarts>>
  BY DEF DispatchBegin, Hands, Underway, table
<1>2. \A v \in Workers : v # w => task[v][n] = "none"
  BY <1>1 DEF Hands, OneDispatcher, Holders
<1>3. \A v \in Workers, m \in Notifications :
         /\ v = w /\ m = n => task'[v][m] = "sending"
         /\ ~(v = w /\ m = n) => task'[v][m] = task[v][m]
  BY <1>1 DEF TypeOK
<1>4. Uncounted(n) = 0 /\ Uncounted(n)' = 1
  BY <1>1, <1>2, <1>3 DEF Uncounted
<1>5. \A m \in Notifications : m # n =>
         calls'[m] = calls[m] /\ Uncounted(m)' = Uncounted(m)
  BY <1>1, <1>3 DEF Uncounted, TypeOK
<1>6. calls'[n] = calls[n] + 1 /\ calls[n] <= attempts[n] + faults
  <2>1. calls[n] <= attempts[n] + faults + Uncounted(n)
    BY DEF Accounts
  <2> QED
    BY <1>1, <1>4, <2>1 DEF TypeOK
<1>7. calls'[n] <= attempts'[n] + faults' + Uncounted(n)'
  BY <1>1, <1>4, <1>6 DEF TypeOK
<1>8. \A m \in Notifications : calls'[m] <= attempts'[m] + faults' + Uncounted(m)'
  BY <1>1, <1>5, <1>7 DEF Accounts
<1>9. AcceptedIsFinal' /\ NoOrphan'
  BY <1>1, <1>3 DEF Accounts, AcceptedIsFinal, NoOrphan, Orphaned, Holders
<1> QED
  BY <1>1, <1>8, <1>9 DEF Accounts

\* The answer a row's only holder receives is kept with it.
LEMMA RequestKeepsAccounts ==
  ASSUME TypeOK, Hands, Accounts, NEW w \in Workers, NEW n \in Notifications,
         RequestEnds(w, n)
  PROVE  Accounts'
<1>1. /\ task[w][n] = "sending" /\ reply[w][n] = "none"
      /\ UNCHANGED <<status, attempts, task, calls, proc, faults, restarts>>
  BY DEF RequestEnds, table
<1>2. PICK result \in Results :
         /\ reply' = [reply EXCEPT ![w][n] = result]
         /\ accepted' = [accepted EXCEPT ![n] = accepted[n] \/ result = "ok"]
  BY DEF RequestEnds
<1>3. status[n] = "IN_FLIGHT" /\ Holders(n) = {w}
  BY <1>1 DEF Hands, OneDispatcher, Underway, Holders
<1>4. accepted[n] => faults # 0
  BY <1>1, <1>3 DEF Accounts, AcceptedIsFinal
<1>5. /\ accepted'[n] => accepted[n] \/ result = "ok"
      /\ \A m \in Notifications : m # n => accepted'[m] = accepted[m]
  BY <1>2, Zenon DEF TypeOK
<1>6. /\ reply'[w][n] = result
      /\ \A v \in Workers, m \in Notifications : m # n => reply'[v][m] = reply[v][m]
  BY <1>2 DEF TypeOK
<1>7. \A m \in Notifications : Holders(m)' = Holders(m)
  BY <1>1 DEF Holders
<1>8. AcceptedIsFinal'
  <2>1. accepted'[n] /\ faults' = 0 => \A v \in Holders(n)' : reply'[v][n] = "ok"
    BY <1>1, <1>3, <1>4, <1>5, <1>6, <1>7
  <2>2. \A m \in Notifications : m # n =>
           /\ status'[m] = "SUCCEEDED" => accepted'[m]
           /\ accepted'[m] /\ faults' = 0 =>
                 \/ status'[m] = "SUCCEEDED"
                 \/ status'[m] = "IN_FLIGHT" /\ \A v \in Holders(m)' : reply'[v][m] = "ok"
    <3> SUFFICES ASSUME NEW m \in Notifications, m # n
                 PROVE  /\ status'[m] = "SUCCEEDED" => accepted'[m]
                        /\ accepted'[m] /\ faults' = 0 =>
                              \/ status'[m] = "SUCCEEDED"
                              \/ status'[m] = "IN_FLIGHT" /\ \A v \in Holders(m)' : reply'[v][m] = "ok"
      OBVIOUS
    <3>1. Holders(m) \subseteq Workers
      BY DEF Holders
    <3> QED
      BY <1>1, <1>5, <1>6, <1>7, <3>1 DEF Accounts, AcceptedIsFinal
  <2> QED
    BY <1>1, <1>3, <2>1, <2>2 DEF AcceptedIsFinal
<1>9. NoOrphan'
  BY <1>1, <1>7 DEF Accounts, NoOrphan, Orphaned
<1>10. \A m \in Notifications : Uncounted(m)' = Uncounted(m)
  BY <1>1 DEF Uncounted
<1> QED
  BY <1>1, <1>8, <1>9, <1>10 DEF Accounts

LEMMA AccountsNext ==
  ASSUME TypeOK, Hands, Accounts, [Next]_vars
  PROVE  Accounts'
<1> USE DEF table, process, history
<1>0. /\ faults \in Nat /\ restarts \in Nat
      /\ \A w \in Workers : proc[w] = "stopping" => restarts > 0
      /\ Underway
  BY DEF TypeOK, Accounts, Hands
<1>1. CASE UNCHANGED vars
  BY <1>0, <1>1, QuietKeepsAccounts DEF vars
<1>2. CASE Clock
  BY <1>0, <1>2, QuietKeepsAccounts DEF Clock
<1>3. ASSUME NEW n \in Notifications, Submit(n)
      PROVE  Accounts'
  <2>1. /\ status[n] = "absent" /\ status' = [status EXCEPT ![n] = "PENDING"]
        /\ UNCHANGED <<attempts, task, reply, calls, accepted, proc, faults, restarts>>
    BY <1>3 DEF Submit
  <2>2. \A m \in Notifications : status'[m] = IF m = n THEN "PENDING" ELSE status[m]
    BY <2>1 DEF TypeOK
  <2>3. \A m \in Notifications : Uncounted(m)' = Uncounted(m)
    BY <2>1, <2>2 DEF Uncounted
  <2>4. AcceptedIsFinal' /\ NoOrphan'
    BY <2>1, <2>2 DEF Accounts, AcceptedIsFinal, NoOrphan, Orphaned, Holders
  <2> QED
    BY <2>1, <2>3, <2>4 DEF Accounts
<1>4. ASSUME NEW w \in Workers,
             \/ TickSelect(w) \/ ClaimRow(w) \/ TickDone(w) \/ ClaimFails(w)
             \/ \E p \in Providers : PollProvider(w, p)
      PROVE  Accounts'
  <2>1. /\ UNCHANGED <<status, attempts, task, reply, calls, accepted, proc, restarts>>
        /\ faults' = faults \/ faults' = faults + 1
    BY <1>4 DEF TickSelect, ClaimRow, TickDone, ClaimFails, Fault, PollProvider
  <2>2. faults' \in Nat /\ faults' >= faults
    BY <1>0, <2>1
  <2> QED
    BY <1>0, <2>1, <2>2, QuietKeepsAccounts
<1>5. ASSUME NEW w \in Workers, Stop(w) \/ Start(w)
      PROVE  Accounts'
  <2>1. UNCHANGED <<status, attempts, task, reply, calls, accepted, faults>>
    BY <1>5 DEF Stop, Start
  <2>2. /\ restarts' \in Nat /\ restarts' >= restarts
        /\ \A v \in Workers : proc'[v] = "stopping" => restarts' > 0
    <3>1. CASE Stop(w)
      <4>1. restarts' = restarts + 1
        BY <3>1 DEF Stop, Restart
      <4> QED
        BY <1>0, <4>1
    <3>2. CASE Start(w)
      <4>1. restarts' = restarts /\ proc' = [proc EXCEPT ![w] = "up"]
        BY <3>2 DEF Start
      <4> QED
        BY <1>0, <4>1 DEF TypeOK
    <3> QED
      BY <1>5, <3>1, <3>2
  <2> QED
    BY <1>0, <2>1, <2>2, QuietKeepsAccounts
<1>6. ASSUME NEW w \in Workers, ClaimCommit(w)
      PROVE  Accounts'
  BY <1>6, CommitKeepsAccounts
<1>7. ASSUME NEW w \in Workers, NEW n \in Notifications, DispatchBegin(w, n)
      PROVE  Accounts'
  BY <1>7, BeginKeepsAccounts
<1>8. ASSUME NEW w \in Workers, NEW n \in Notifications,
             DispatchUndeliverable(w, n) \/ DispatchEnd(w, n)
      PROVE  Accounts'
  <2>1. proc' = proc
    BY <1>8 DEF DispatchUndeliverable, DispatchEnd
  <2> QED
    BY <1>0, <1>8, <2>1, UndeliverableSettles, DispatchEndSettles, SettledKeepsAccounts
<1>9. ASSUME NEW w \in Workers, NEW n \in Notifications,
             SnapshotFails(w, n) \/ PersistFails(w, n)
      PROVE  Accounts'
  <2>1. proc' = proc
    BY <1>9 DEF SnapshotFails, PersistFails
  <2> QED
    BY <1>0, <1>9, <2>1, PutBackGivesUp, GivenUpKeepsAccounts
<1>10. ASSUME NEW w \in Workers, NEW n \in Notifications, DispatchClosed(w, n)
       PROVE  Accounts'
  <2>1. proc' = proc
    BY <1>10 DEF DispatchClosed
  <2> QED
    BY <1>0, <1>10, <2>1, ClosedEnds, SettledKeepsAccounts, GivenUpKeepsAccounts
<1>11. ASSUME NEW w \in Workers, Crash(w) \/ Exit(w)
       PROVE  Accounts'
  <2>1. Vanish(w) /\ faults' = faults
    BY <1>11 DEF Crash, Exit
  <2>2. restarts' \in Nat /\ restarts' > 0
    BY <1>0, <1>11 DEF Crash, Exit, Restart
  <2> QED
    BY <2>1, <2>2, VanishKeepsAccounts
<1>12. ASSUME NEW w \in Workers, NEW n \in Notifications, RequestEnds(w, n)
       PROVE  Accounts'
  BY <1>12, RequestKeepsAccounts
<1> QED
  BY <1>1, <1>2, <1>3, <1>4, <1>5, <1>6, <1>7, <1>8, <1>9, <1>10, <1>11, <1>12
  DEF Next, Work

THEOREM AccountsInvariant == Spec => []Accounts
<1>1. Init => Accounts
  BY AccountsInit
<1>2. TypeOK /\ Hands /\ Accounts /\ [Next]_vars => Accounts'
  BY AccountsNext
<1> QED
  BY <1>1, <1>2, CoreInvariant, PTL DEF Spec

\* max_retry_attempts bounds a row's attempts, and the requests made for it
\* exceed them only by the one under way and by database errors.
THEOREM RetryBudgetCorrect == Spec => []RetryBudget
<1>1. TypeOK /\ Hands /\ Accounts => RetryBudget
  <2> SUFFICES ASSUME TypeOK, Hands, Accounts, NEW n \in Notifications
               PROVE  /\ attempts[n] <= MaxAttempts
                      /\ status[n] \in {"PENDING", "IN_FLIGHT"} => attempts[n] < MaxAttempts
                      /\ calls[n] <= attempts[n] + faults
                                     + (IF status[n] = "IN_FLIGHT" THEN 1 ELSE 0)
    BY DEF RetryBudget
  <2>1. calls[n] <= attempts[n] + faults + Uncounted(n)
    BY DEF Accounts
  <2>2. calls[n] \in Nat /\ attempts[n] \in Nat /\ faults \in Nat
    BY DEF TypeOK
  <2>3. calls[n] <= attempts[n] + faults + (IF status[n] = "IN_FLIGHT" THEN 1 ELSE 0)
    BY <2>1, <2>2 DEF Uncounted
  <2> QED
    BY <2>3 DEF Accounts, Hands, Underway, Terminal
<1> QED
  BY <1>1, CoreInvariant, AccountsInvariant, PTL

\* SUCCEEDED is never said without a 2xx, and while the database works a row
\* the vendor has accepted has its outcome stored next, or never moves again:
\* of the process that dies between the two, nobody else takes the row over.
THEOREM AcceptedIsFinalCorrect == Spec => []AcceptedIsFinal
<1>1. Accounts => AcceptedIsFinal
  BY DEF Accounts
<1> QED
  BY <1>1, AccountsInvariant, PTL

\* Only database errors and stopped processes leave rows behind IN_FLIGHT.
THEOREM NoOrphanCorrect == Spec => []NoOrphan
<1>1. Accounts => NoOrphan
  BY DEF Accounts
<1> QED
  BY <1>1, AccountsInvariant, PTL

-----------------------------------------------------------------------------
(* Settled rows and coherent breakers.                                     *)

RowsStable ==
    \A n \in Notifications : status[n] \in Terminal =>
        status'[n] = status[n] /\ attempts'[n] = attempts[n] /\ calls'[n] = calls[n]

LEMMA TerminalNext ==
  ASSUME TypeOK, Hands, [Next]_vars
  PROVE  RowsStable
<1> USE DEF table, process, history
<1>0. Underway
  BY DEF Hands
<1>1. CASE UNCHANGED <<status, attempts, calls>>
  BY <1>1 DEF RowsStable
<1>2. ASSUME NEW n \in Notifications, Submit(n)
      PROVE  RowsStable
  BY <1>2 DEF Submit, RowsStable, Terminal, TypeOK
<1>3. ASSUME NEW w \in Workers, ClaimCommit(w)
      PROVE  RowsStable
  BY <1>3 DEF ClaimCommit, Hands, ClaimIsolated, RowsStable, Terminal, TypeOK
<1>4. ASSUME NEW w \in Workers, NEW n \in Notifications, DispatchBegin(w, n)
      PROVE  RowsStable
  BY <1>0, <1>4 DEF DispatchBegin, Underway, RowsStable, Terminal, TypeOK
<1>5. ASSUME NEW w \in Workers, NEW n \in Notifications,
             \/ DispatchUndeliverable(w, n) \/ DispatchEnd(w, n)
             \/ SnapshotFails(w, n) \/ PersistFails(w, n) \/ DispatchClosed(w, n)
      PROVE  RowsStable
  <2>1. Settled(w, n) \/ GivenUp(w, n)
    BY <1>0, <1>5, UndeliverableSettles, DispatchEndSettles, PutBackGivesUp, ClosedEnds
  <2>2. status[n] = "IN_FLIGHT"
    BY <1>0, <2>1 DEF Settled, GivenUp, Ends, Underway
  <2>3. /\ calls' = calls
        /\ \A m \in Notifications :
              m # n => status'[m] = status[m] /\ attempts'[m] = attempts[m]
    BY <2>1 DEF Settled, GivenUp, TypeOK
  <2> QED
    BY <2>2, <2>3 DEF RowsStable, Terminal
<1>6. ASSUME NEW w \in Workers, Crash(w) \/ Exit(w)
      PROVE  RowsStable
  BY <1>6 DEF Crash, Exit, Vanish, RowsStable
<1> QED
  BY <1>1, <1>2, <1>3, <1>4, <1>5, <1>6
  DEF Next, Work, vars, Clock, TickSelect, ClaimRow, TickDone, ClaimFails,
      PollProvider, Stop, Start, RequestEnds

\* SUCCEEDED and DEAD_LETTER are final for any number of processes: nothing
\* moves such a row, counts an attempt on it or sends it again.
THEOREM TerminalStableCorrect == Spec => TerminalStable
<1>1. TypeOK /\ Hands /\ [Next]_vars =>
         [\A n \in Notifications : status[n] \in Terminal =>
             /\ status'[n] = status[n]
             /\ attempts'[n] = attempts[n]
             /\ calls'[n] = calls[n]]_vars
  BY TerminalNext DEF RowsStable
<1> QED
  BY <1>1, CoreInvariant, PTL DEF Spec, TerminalStable

LEMMA CoherentNext ==
  ASSUME TypeOK, BreakerCoherent, [Next]_vars
  PROVE  BreakerCoherent'
<1> USE DEF table, process, history
<1>1. CASE breaker' = breaker
  BY <1>1 DEF BreakerCoherent
\* One record of one process is replaced by a coherent one.
<1>2. ASSUME NEW w \in Workers, NEW p \in Providers, NEW c,
             breaker' = [breaker EXCEPT ![w][p] = c], Coherent(c)
      PROVE  BreakerCoherent'
  BY <1>2 DEF BreakerCoherent, TypeOK
<1>3. CASE Clock
  BY <1>3, AgeBreaker DEF Clock, BreakerCoherent, TypeOK
<1>4. ASSUME NEW w \in Workers, ClaimRow(w) \/ ClaimFails(w)
      PROVE  BreakerCoherent'
  <2> DEFINE p == ProviderOf[Head(rows[w])]
             b == breaker[w][p]
  <2>1. CASE rows[w] = <<>>
    BY <1>1, <1>4, <2>1 DEF ClaimRow, ClaimFails
  <2>2. CASE rows[w] # <<>>
    <3>1. Head(rows[w]) \in Notifications
      BY <2>2 DEF TypeOK
    <3>2. p \in Providers /\ b \in Breaker /\ Coherent(b)
      BY <3>1, DeliveryAssumption DEF TypeOK, BreakerCoherent
    <3>3. Coherent(AfterAllow(b)) /\ Coherent(Refresh(b))
      BY <3>2, AllowBreaker, RefreshBreaker
    <3>4. \E c \in {AfterAllow(b), Refresh(b)} : breaker' = [breaker EXCEPT ![w][p] = c]
      BY <1>4, <2>2 DEF ClaimRow, ClaimFails
    <3> QED
      BY <1>2, <3>2, <3>3, <3>4
  <2> QED
    BY <2>1, <2>2
<1>5. ASSUME NEW w \in Workers, NEW n \in Notifications,
             \/ DispatchUndeliverable(w, n) \/ DispatchEnd(w, n)
             \/ PersistFails(w, n) \/ DispatchClosed(w, n)
      PROVE  BreakerCoherent'
  <2> DEFINE p == ProviderOf[n]
             b == breaker[w][p]
  <2>1. p \in Providers /\ b \in Breaker /\ Coherent(b)
    BY DeliveryAssumption DEF TypeOK, BreakerCoherent
  <2>2. ASSUME NEW final
        PROVE  /\ Coherent(Recorded(b, final))
               /\ Coherent(Refresh(Recorded(b, final)))
    BY <2>1, RecordedBreaker, RefreshBreaker
  <2>3. Coherent(RecordFailure(b))
    BY <2>1, FailureBreaker
  <2>4. \/ breaker' = breaker
        \/ breaker' = [breaker EXCEPT ![w][p] = RecordFailure(b)]
        \/ \E result, k :
              \/ breaker' = [breaker EXCEPT ![w][p] = Recorded(b, Decide(result, k))]
              \/ breaker' = [breaker EXCEPT ![w][p] = Refresh(Recorded(b, Decide(result, k)))]
    BY <1>5 DEF DispatchUndeliverable, DispatchEnd, PersistFails, DispatchClosed,
                EndUnsent, ApplyOutcome
  <2> QED
    BY <1>1, <1>2, <2>1, <2>2, <2>3, <2>4
<1>6. ASSUME NEW w \in Workers, Crash(w) \/ Exit(w)
      PROVE  BreakerCoherent'
  <2>1. breaker' = [breaker EXCEPT ![w] = [p \in Providers |-> FreshBreaker]]
    BY <1>6 DEF Crash, Exit, Vanish
  <2>2. \A v \in Workers, p \in Providers :
           breaker'[v][p] = IF v = w THEN FreshBreaker ELSE breaker[v][p]
    BY <2>1 DEF TypeOK
  <2> QED
    BY <2>2, FreshIsBreaker DEF BreakerCoherent
<1>7. ASSUME NEW w \in Workers, NEW p \in Providers, PollProvider(w, p)
      PROVE  BreakerCoherent'
  <2>1. breaker[w][p] \in Breaker /\ Coherent(breaker[w][p])
    BY DEF TypeOK, BreakerCoherent
  <2>2. Coherent(Refresh(breaker[w][p]))
    BY <2>1, RefreshBreaker
  <2> QED
    BY <1>2, <1>7, <2>2 DEF PollProvider
<1> QED
  BY <1>1, <1>3, <1>4, <1>5, <1>6, <1>7
  DEF Next, Work, vars, Submit, TickSelect, ClaimCommit, TickDone, DispatchBegin,
      RequestEnds, SnapshotFails, Stop, Start

\* Whatever order claims, answers, polls and time come in, a vendor is CLOSED
\* exactly below the threshold and has a probe out only while HALF_OPEN.
THEOREM BreakerCoherentCorrect == Spec => []BreakerCoherent
<1>1. Init => BreakerCoherent
  BY FreshIsBreaker DEF Init, BreakerCoherent
<1>2. TypeOK /\ BreakerCoherent /\ [Next]_vars => BreakerCoherent'
  BY CoherentNext
<1> QED
  BY <1>1, <1>2, CoreInvariant, PTL DEF Spec

-----------------------------------------------------------------------------
(* The workers implement the outbox.                                       *)

LEMMA QuietRefines ==
  ASSUME UNCHANGED <<status, attempts, task>>
  PROVE  UNCHANGED OutboxImpl!outbox
  BY DEF OutboxImpl!outbox, Holders

LEMMA EndRefines ==
  ASSUME TypeOK, Hands, NEW w \in Workers, NEW n \in Notifications,
         Settled(w, n) \/ GivenUp(w, n)
  PROVE  OutboxImpl!Settle(w, n) \/ OutboxImpl!GiveUp(w, n)
<1> DEFINE H == [m \in Notifications |-> Holders(m)]
<1>1. task[w][n] # "none" /\ task' = [task EXCEPT ![w][n] = "none"]
  BY DEF Settled, GivenUp, Ends, EndTask
<1>2. status[n] = "IN_FLIGHT"
  BY <1>1 DEF Hands, Underway
<1>3. Holders(n) = {w}
  BY <1>1 DEF Hands, OneDispatcher, Holders
<1>4. \A v \in Workers, m \in Notifications :
         task'[v][m] = IF v = w /\ m = n THEN "none" ELSE task[v][m]
  BY <1>1 DEF TypeOK
<1>5. Holders(n)' = {}
  BY <1>1, <1>3, <1>4 DEF Holders
<1>6. \A m \in Notifications : m # n => Holders(m)' = Holders(m)
  BY <1>4 DEF Holders
<1>7. H' = [H EXCEPT ![n] = {}]
  BY <1>5, <1>6
<1>8. CASE Settled(w, n)
  BY <1>2, <1>3, <1>7, <1>8 DEF Settled, OutboxImpl!Settle
<1>9. CASE GivenUp(w, n)
  <2>1. \E left \in {"PENDING", "IN_FLIGHT"} : status' = [status EXCEPT ![n] = left]
    <3>1. status = [status EXCEPT ![n] = "IN_FLIGHT"]
      BY <1>2 DEF TypeOK
    <3> QED
      BY <1>9, <3>1 DEF GivenUp
  <2> QED
    BY <1>2, <1>3, <1>7, <1>9, <2>1 DEF GivenUp, OutboxImpl!GiveUp
<1> QED
  BY <1>8, <1>9

LEMMA CommitRefines ==
  ASSUME TypeOK, Hands, NEW w \in Workers, ClaimCommit(w)
  PROVE  OutboxImpl!Take(w, claimed[w])
<1>1. /\ status' = [m \in Notifications |->
                       IF m \in claimed[w] THEN "IN_FLIGHT" ELSE status[m]]
      /\ task' = [task EXCEPT ![w] = [m \in Notifications |->
                     IF m \in claimed[w] THEN "queued" ELSE "none"]]
      /\ tick[w] = "claiming"
      /\ attempts' = attempts
  BY DEF ClaimCommit
<1>2. claimed[w] \subseteq Notifications
  BY DEF TypeOK
<1>3. \A m \in claimed[w] : status[m] = "PENDING"
  BY DEF Hands, ClaimIsolated
<1>4. \A m \in claimed[w] : Holders(m) = {}
  BY <1>2, <1>3 DEF Hands, OneDispatcher
<1>5. \A v \in Workers, m \in Notifications :
         task'[v][m] = IF v = w THEN (IF m \in claimed[w] THEN "queued" ELSE "none")
                       ELSE task[v][m]
  BY <1>1 DEF TypeOK
<1>6. \A m \in Notifications : task[w][m] = "none"
  BY <1>1 DEF Hands
<1>7. \A m \in Notifications :
         Holders(m)' = IF m \in claimed[w] THEN {w} ELSE Holders(m)
  <2> SUFFICES ASSUME NEW m \in Notifications
               PROVE  Holders(m)' = IF m \in claimed[w] THEN {w} ELSE Holders(m)
    OBVIOUS
  <2>1. CASE m \in claimed[w]
    BY <1>4, <1>5, <2>1 DEF Holders
  <2>2. CASE m \notin claimed[w]
    BY <1>5, <1>6, <2>2 DEF Holders
  <2> QED
    BY <2>1, <2>2
<1> QED
  BY <1>1, <1>2, <1>3, <1>4, <1>7 DEF OutboxImpl!Take

LEMMA VanishRefines ==
  ASSUME TypeOK, NEW w \in Workers, Vanish(w)
  PROVE  OutboxImpl!Disappear(w)
<1>1. UNCHANGED <<status, attempts>>
  BY DEF Vanish, table
<1>2. \A v \in Workers, m \in Notifications :
         task'[v][m] = IF v = w THEN "none" ELSE task[v][m]
  BY DEF Vanish, TypeOK
<1>3. \A m \in Notifications : Holders(m)' = Holders(m) \ {w}
  BY <1>2 DEF Holders
<1> QED
  BY <1>1, <1>3 DEF OutboxImpl!Disappear

LEMMA StepRefines ==
  ASSUME TypeOK, Hands, [Next]_vars
  PROVE  [OutboxImpl!Next]_(OutboxImpl!outbox)
<1> USE DEF table, process, history
<1>0. Underway
  BY DEF Hands
<1>1. CASE UNCHANGED <<status, attempts, task>>
  BY <1>1, QuietRefines
<1>2. ASSUME NEW n \in Notifications, Submit(n)
      PROVE  OutboxImpl!Next
  <2>1. UNCHANGED <<attempts, task>>
    BY <1>2 DEF Submit
  <2>2. OutboxImpl!Accept(n)
    BY <1>2, <2>1 DEF Submit, OutboxImpl!Accept, Holders
  <2> QED
    BY <2>2 DEF OutboxImpl!Next
<1>3. ASSUME NEW w \in Workers, ClaimCommit(w)
      PROVE  OutboxImpl!Next
  <2>1. claimed[w] \in SUBSET Notifications
    BY DEF TypeOK
  <2> QED
    BY <1>3, <2>1, CommitRefines DEF OutboxImpl!Next
<1>4. ASSUME NEW w \in Workers, NEW n \in Notifications, DispatchBegin(w, n)
      PROVE  UNCHANGED OutboxImpl!outbox
  <2>1. /\ task[w][n] = "queued" /\ task' = [task EXCEPT ![w][n] = "sending"]
        /\ UNCHANGED <<status, attempts>>
    BY <1>0, <1>4 DEF DispatchBegin, Underway
  <2>2. \A m \in Notifications : Holders(m)' = Holders(m)
    BY <2>1 DEF Holders, TypeOK
  <2> QED
    BY <2>1, <2>2 DEF OutboxImpl!outbox
<1>5. ASSUME NEW w \in Workers, NEW n \in Notifications,
             \/ DispatchUndeliverable(w, n) \/ DispatchEnd(w, n)
             \/ SnapshotFails(w, n) \/ PersistFails(w, n) \/ DispatchClosed(w, n)
      PROVE  OutboxImpl!Next
  <2>1. Settled(w, n) \/ GivenUp(w, n)
    BY <1>0, <1>5, UndeliverableSettles, DispatchEndSettles, PutBackGivesUp, ClosedEnds
  <2> QED
    BY <2>1, EndRefines DEF OutboxImpl!Next
<1>6. ASSUME NEW w \in Workers, Crash(w) \/ Exit(w)
      PROVE  OutboxImpl!Next
  BY <1>6, VanishRefines DEF Crash, Exit, OutboxImpl!Next
<1> QED
  BY <1>1, <1>2, <1>3, <1>4, <1>5, <1>6
  DEF Next, Work, vars, Clock, TickSelect, ClaimRow, TickDone, ClaimFails,
      PollProvider, Stop, Start, RequestEnds

\* The workers, with their ticks, transactions, breakers, errors and crashes,
\* do to the table only what the outbox allows: one holder per row, one try
\* per settlement, nothing after a settlement.
THEOREM DeliveryImplementsOutbox == Spec => ImplementsOutbox
<1>1. Init => OutboxImpl!Init
  BY DEF Init, OutboxImpl!Init, Holders
<1>2. TypeOK /\ Hands /\ [Next]_vars => [OutboxImpl!Next]_(OutboxImpl!outbox)
  BY StepRefines
<1> QED
  BY <1>1, <1>2, CoreInvariant, PTL DEF Spec, ImplementsOutbox, OutboxImpl!Spec

-----------------------------------------------------------------------------
(* What a step may do to one vendor's record.                              *)

Moved(b, c) ==
    \/ c \in {b, Refresh(b), AfterAllow(b), Age(b), FreshBreaker}
    \/ \E r \in {RecordSuccess(b), RecordFailure(b)} : c = r \/ c = Refresh(r)

LEMMA OneRecordMoved ==
  ASSUME TypeOK, NEW w \in Workers, NEW p \in Providers, NEW c,
         breaker' = [breaker EXCEPT ![w][p] = c], Moved(breaker[w][p], c)
  PROVE  \A v \in Workers, q \in Providers : Moved(breaker[v][q], breaker'[v][q])
<1>1. \A v \in Workers, q \in Providers :
         breaker'[v][q] = IF v = w /\ q = p THEN c ELSE breaker[v][q]
  BY DEF TypeOK
<1> QED
  BY <1>1 DEF Moved

LEMMA RecordsMove ==
  ASSUME TypeOK, [Next]_vars
  PROVE  \A v \in Workers, q \in Providers : Moved(breaker[v][q], breaker'[v][q])
<1> USE DEF table, process, history
<1>1. CASE breaker' = breaker
  BY <1>1 DEF Moved
<1>2. CASE Clock
  BY <1>2 DEF Clock, Moved
<1>3. ASSUME NEW w \in Workers, ClaimRow(w) \/ ClaimFails(w)
      PROVE  \A v \in Workers, q \in Providers : Moved(breaker[v][q], breaker'[v][q])
  <2> DEFINE p == ProviderOf[Head(rows[w])]
             b == breaker[w][p]
  <2>1. CASE rows[w] = <<>>
    BY <1>1, <1>3, <2>1 DEF ClaimRow, ClaimFails
  <2>2. CASE rows[w] # <<>>
    <3>1. Head(rows[w]) \in Notifications
      BY <2>2 DEF TypeOK
    <3>2. p \in Providers
      BY <3>1, DeliveryAssumption
    <3>3. PICK c \in {AfterAllow(b), Refresh(b)} : breaker' = [breaker EXCEPT ![w][p] = c]
      BY <1>3, <2>2 DEF ClaimRow, ClaimFails
    <3>4. Moved(b, c)
      BY <3>3 DEF Moved
    <3> QED
      BY <3>2, <3>3, <3>4, OneRecordMoved
  <2> QED
    BY <2>1, <2>2
<1>4. ASSUME NEW w \in Workers, NEW n \in Notifications,
             \/ DispatchUndeliverable(w, n) \/ DispatchEnd(w, n)
             \/ PersistFails(w, n) \/ DispatchClosed(w, n)
      PROVE  \A v \in Workers, q \in Providers : Moved(breaker[v][q], breaker'[v][q])
  <2> DEFINE p == ProviderOf[n]
             b == breaker[w][p]
  <2>1. p \in Providers
    BY DeliveryAssumption
  <2>2. \/ breaker' = breaker
        \/ breaker' = [breaker EXCEPT ![w][p] = RecordFailure(b)]
        \/ \E result, k :
              \/ breaker' = [breaker EXCEPT ![w][p] = Recorded(b, Decide(result, k))]
              \/ breaker' = [breaker EXCEPT ![w][p] = Refresh(Recorded(b, Decide(result, k)))]
    BY <1>4 DEF DispatchUndeliverable, DispatchEnd, PersistFails, DispatchClosed,
                EndUnsent, ApplyOutcome
  <2>3. \A final : Recorded(b, final) \in {RecordSuccess(b), RecordFailure(b)}
    BY DEF Recorded
  <2>4. CASE breaker' # breaker
    <3>1. PICK r \in {RecordSuccess(b), RecordFailure(b)} :
             \E c \in {r, Refresh(r)} : breaker' = [breaker EXCEPT ![w][p] = c]
      BY <2>2, <2>3, <2>4
    <3>2. PICK c \in {r, Refresh(r)} : breaker' = [breaker EXCEPT ![w][p] = c]
      BY <3>1
    <3>3. Moved(b, c)
      BY <3>1, <3>2 DEF Moved
    <3> QED
      BY <2>1, <3>2, <3>3, OneRecordMoved
  <2> QED
    BY <1>1, <2>4
<1>5. ASSUME NEW w \in Workers, Crash(w) \/ Exit(w)
      PROVE  \A v \in Workers, q \in Providers : Moved(breaker[v][q], breaker'[v][q])
  <2>1. breaker' = [breaker EXCEPT ![w] = [p \in Providers |-> FreshBreaker]]
    BY <1>5 DEF Crash, Exit, Vanish
  <2>2. \A v \in Workers, q \in Providers :
           breaker'[v][q] = IF v = w THEN FreshBreaker ELSE breaker[v][q]
    BY <2>1 DEF TypeOK
  <2> QED
    BY <2>2 DEF Moved
<1>6. ASSUME NEW w \in Workers, NEW p \in Providers, PollProvider(w, p)
      PROVE  \A v \in Workers, q \in Providers : Moved(breaker[v][q], breaker'[v][q])
  <2>1. Moved(breaker[w][p], Refresh(breaker[w][p]))
    BY DEF Moved
  <2> QED
    BY <1>6, <2>1, OneRecordMoved DEF PollProvider
<1> QED
  BY <1>1, <1>2, <1>3, <1>4, <1>5, <1>6
  DEF Next, Work, vars, Submit, TickSelect, ClaimCommit, TickDone, DispatchBegin,
      RequestEnds, SnapshotFails, Stop, Start

\* Each of these forgets a probe only by leaving HALF_OPEN.
LEMMA ProbeKept ==
  ASSUME NEW b \in Breaker, b.state = "HALF_OPEN", b.probe, NEW c, Moved(b, c),
         c.state = "HALF_OPEN"
  PROVE  c.probe
<1>1. Refresh(b) = b
  BY DEF Refresh
<1>2. AfterAllow(b).probe
  BY <1>1 DEF AfterAllow, Breaker
<1>3. Age(b).probe
  BY DEF Age, Breaker
<1>4. FreshBreaker.state = "CLOSED" /\ Refresh(FreshBreaker) = FreshBreaker
  BY DEF FreshBreaker, Refresh
<1>5. LET r == RecordFailure(b) IN r.state = "OPEN" /\ r.cooldown = OpenDuration
  BY DEF RecordFailure
<1>6. Refresh(RecordFailure(b)) = RecordFailure(b)
  BY <1>5, BreakerAssumption DEF Refresh
<1> QED
  BY <1>1, <1>2, <1>3, <1>4, <1>5, <1>6 DEF Moved, RecordSuccess

\* breaker.py, half_open_in_flight: whatever claims, answers, polls, errors
\* and restarts come in whatever order, a half-open episode has one probe.
THEOREM OneProbePerEpisodeCorrect == Spec => OneProbePerEpisode
<1>1. TypeOK /\ [Next]_vars =>
         [\A w \in Workers, p \in Providers :
            /\ breaker[w][p].state = "HALF_OPEN" /\ breaker[w][p].probe
            /\ breaker'[w][p].state = "HALF_OPEN"
            => breaker'[w][p].probe]_vars
  <2> SUFFICES ASSUME TypeOK, [Next]_vars, NEW w \in Workers, NEW p \in Providers,
                      breaker[w][p].state = "HALF_OPEN", breaker[w][p].probe,
                      breaker'[w][p].state = "HALF_OPEN"
               PROVE  breaker'[w][p].probe
    OBVIOUS
  <2>1. breaker[w][p] \in Breaker
    BY DEF TypeOK
  <2>2. Moved(breaker[w][p], breaker'[w][p])
    BY RecordsMove
  <2> QED
    BY <2>1, <2>2, ProbeKept
<1> QED
  BY <1>1, CoreInvariant, PTL DEF Spec, OneProbePerEpisode

-----------------------------------------------------------------------------
(* The claim loop takes only what the breaker lets through.                *)

\* A process that loses its claims cannot disturb the others.
LEMMA ClaimsGone ==
  ASSUME ClaimGated, NEW w \in Workers, claimed'[w] = {},
         \A v \in Workers \ {w} : claimed'[v] = claimed[v] /\ breaker'[v] = breaker[v]
  PROVE  ClaimGated'
  BY DEF ClaimGated

\* Claims are held during the claim loop only.
LEMMA NoClaims ==
  ASSUME TypeOK, Hands, NEW w \in Workers, tick[w] # "claiming"
  PROVE  claimed[w] = {}
  BY DEF Hands, ClaimIsolated

\* A record in an open claim and what allow() makes of it.
LEMMA AllowGates ==
  ASSUME NEW b \in Breaker
  PROVE  /\ b.state # "OPEN" => Refresh(b) = b
         /\ Allows(b) => /\ AfterAllow(b).state # "OPEN"
                         /\ AfterAllow(b).state = "HALF_OPEN" => AfterAllow(b).probe
                         /\ AfterAllow(b).state = "HALF_OPEN" => b.state = "OPEN" \/ ~b.probe
                         /\ AfterAllow(b).state = "CLOSED" <=> b.state = "CLOSED"
  BY DEF Refresh, Allows, AfterAllow, Breaker

LEMMA ClaimRowGated ==
  ASSUME TypeOK, ClaimGated, NEW w \in Workers, ClaimRow(w)
  PROVE  ClaimGated'
<1> DEFINE n == Head(rows[w])
           p == ProviderOf[n]
           b == breaker[w][p]
           c == IF Allows(b) THEN AfterAllow(b) ELSE Refresh(b)
<1>1. n \in Notifications /\ p \in Providers
  BY DeliveryAssumption DEF ClaimRow, TypeOK
<1>2. b \in Breaker
  BY <1>1 DEF TypeOK
<1>3. breaker' = [breaker EXCEPT ![w][p] = c]
  BY DEF ClaimRow
<1>4. \A v \in Workers, q \in Providers :
         breaker'[v][q] = IF v = w /\ q = p THEN c ELSE breaker[v][q]
  BY <1>1, <1>3 DEF TypeOK
<1>5. /\ \A v \in Workers \ {w} : claimed'[v] = claimed[v]
      /\ claimed'[w] = claimed[w] \/ (Allows(b) /\ claimed'[w] = claimed[w] \cup {n})
  BY DEF ClaimRow, TypeOK
<1>6. \A v \in Workers : claimed[v] \subseteq Notifications
  BY DEF TypeOK
<1> SUFFICES ASSUME NEW v \in Workers, NEW m \in claimed'[v], NEW k \in claimed'[v]
             PROVE  LET d == breaker'[v][ProviderOf[k]]
                    IN  /\ d.state # "OPEN"
                        /\ d.state = "HALF_OPEN" => d.probe
                        /\ d.state = "HALF_OPEN" /\ ProviderOf[m] = ProviderOf[k] => m = k
  BY DEF ClaimGated
<1>7. m \in Notifications /\ k \in Notifications
  BY <1>1, <1>5, <1>6
<1>8. ProviderOf[k] \in Providers /\ ProviderOf[m] \in Providers
  BY <1>7, DeliveryAssumption
<1>9. CASE v # w \/ ProviderOf[k] # p
  <2>1. breaker'[v][ProviderOf[k]] = breaker[v][ProviderOf[k]]
    BY <1>4, <1>8, <1>9
  <2>2. k \in claimed[v] /\ (ProviderOf[m] = ProviderOf[k] => m \in claimed[v])
    BY <1>5, <1>9
  <2>3. k \in claimed[v] => LET d == breaker[v][ProviderOf[k]]
                            IN  d.state # "OPEN" /\ (d.state = "HALF_OPEN" => d.probe)
    BY DEF ClaimGated
  <2> QED
    BY <2>1, <2>2, <2>3 DEF ClaimGated
<1>10. CASE v = w /\ ProviderOf[k] = p
  <2>1. breaker'[v][ProviderOf[k]] = c
    BY <1>4, <1>8, <1>10
  <2>2. ASSUME NEW j \in claimed[w], ProviderOf[j] = p
        PROVE  /\ b.state # "OPEN"
               /\ b.state = "HALF_OPEN" => b.probe
               /\ \A i \in claimed[w] : b.state = "HALF_OPEN" /\ ProviderOf[i] = p => i = j
    BY <2>2 DEF ClaimGated
  <2>3. CASE Allows(b)
    <3>1. c = AfterAllow(b)
      BY <2>3
    <3>2. /\ c.state # "OPEN"
          /\ c.state = "HALF_OPEN" => c.probe
          /\ c.state = "HALF_OPEN" => b.state = "OPEN" \/ ~b.probe
          /\ c.state = "CLOSED" <=> b.state = "CLOSED"
      BY <1>2, <2>3, <3>1, AllowGates
    <3>3. c.state \in {"CLOSED", "OPEN", "HALF_OPEN"} /\ b.state \in {"CLOSED", "OPEN", "HALF_OPEN"}
      BY <1>2, <3>1, AllowBreaker DEF Breaker
    <3>4. c.state = "HALF_OPEN" => \A j \in claimed[w] : ProviderOf[j] # p
      BY <2>2, <3>2, <3>3
    <3>5. c.state = "HALF_OPEN" /\ ProviderOf[m] = ProviderOf[k] => m = n /\ k = n
      BY <1>5, <1>10, <3>4
    <3> QED
      BY <2>1, <3>2, <3>5
  <2>4. CASE ~Allows(b)
    <3>1. c = Refresh(b) /\ claimed'[w] = claimed[w]
      BY <1>5, <2>4
    <3>2. c = b
      BY <1>2, <1>10, <2>2, <3>1, AllowGates
    <3> QED
      BY <1>10, <2>1, <2>2, <3>1, <3>2
  <2> QED
    BY <2>3, <2>4
<1> QED
  BY <1>9, <1>10

LEMMA PollGated ==
  ASSUME TypeOK, ClaimGated, NEW w \in Workers, NEW p \in Providers, PollProvider(w, p)
  PROVE  ClaimGated'
<1>1. breaker[w][p] \in Breaker
  BY DEF TypeOK
<1>2. breaker[w][p].state = "OPEN"
  BY <1>1, AllowGates DEF PollProvider
<1>3. \A v \in Workers, n \in Notifications :
         n \in claimed[v] => breaker'[v][ProviderOf[n]] = breaker[v][ProviderOf[n]]
  BY <1>2, DeliveryAssumption DEF PollProvider, ClaimGated, TypeOK
<1>4. \A v \in Workers : claimed'[v] = claimed[v] /\ claimed[v] \subseteq Notifications
  BY DEF PollProvider, TypeOK
<1> QED
  BY <1>3, <1>4 DEF ClaimGated

LEMMA ClaimGatedNext ==
  ASSUME TypeOK, Hands, ClaimGated, [Next]_vars
  PROVE  ClaimGated'
<1> USE DEF table, process, history
<1>1. CASE UNCHANGED <<claimed, breaker>>
  BY <1>1 DEF ClaimGated
<1>2. CASE Clock
  <2>1. \A w \in Workers : claimed'[w] = {}
    BY <1>2, NoClaims DEF Clock
  <2> QED
    BY <2>1 DEF ClaimGated
<1>3. ASSUME NEW w \in Workers, ClaimCommit(w) \/ ClaimFails(w) \/ Crash(w) \/ Exit(w)
      PROVE  ClaimGated'
  <2>1. claimed' = [claimed EXCEPT ![w] = {}]
    BY <1>3 DEF ClaimCommit, ClaimFails, Crash, Exit, Vanish
  <2>2. \A v \in Workers \ {w} : breaker'[v] = breaker[v]
    BY <1>3 DEF ClaimCommit, ClaimFails, Crash, Exit, Vanish, TypeOK
  <2>3. claimed'[w] = {} /\ \A v \in Workers \ {w} : claimed'[v] = claimed[v]
    BY <2>1 DEF TypeOK
  <2> QED
    BY <2>2, <2>3, ClaimsGone
<1>4. ASSUME NEW w \in Workers, NEW n \in Notifications,
             \/ DispatchUndeliverable(w, n) \/ DispatchEnd(w, n)
             \/ PersistFails(w, n) \/ DispatchClosed(w, n)
      PROVE  ClaimGated'
  <2>1. task[w][n] # "none"
    BY <1>4 DEF DispatchUndeliverable, DispatchEnd, PersistFails, DispatchClosed,
                Hands, Underway
  <2>2. tick[w] # "claiming"
    BY <2>1 DEF Hands
  <2>3. claimed' = claimed /\ claimed[w] = {}
    BY <1>4, <2>2, NoClaims DEF DispatchUndeliverable, DispatchEnd, PersistFails, DispatchClosed
  <2>4. \A v \in Workers \ {w} : breaker'[v] = breaker[v]
    BY <1>4 DEF DispatchUndeliverable, DispatchEnd, PersistFails, DispatchClosed,
                EndUnsent, ApplyOutcome, TypeOK
  <2> QED
    BY <2>3, <2>4, ClaimsGone
<1> QED
  BY <1>1, <1>2, <1>3, <1>4, ClaimRowGated, PollGated
  DEF Next, Work, vars, Submit, TickSelect, TickDone, DispatchBegin,
      RequestEnds, SnapshotFails, Stop, Start

\* worker.py asks allow() row by row while polls refresh the same breaker:
\* no row of an OPEN vendor is ever claimed, and of a HALF_OPEN one only the
\* probe.
THEOREM ClaimGatedCorrect == Spec => []ClaimGated
<1>1. Init => ClaimGated
  BY DEF Init, ClaimGated
<1>2. TypeOK /\ Hands /\ ClaimGated /\ [Next]_vars => ClaimGated'
  BY ClaimGatedNext
<1> QED
  BY <1>1, <1>2, CoreInvariant, PTL DEF Spec

-----------------------------------------------------------------------------
(* What a lone process may rely on.                                        *)

\* Nobody else moves the rows its claim loop has read.
LoopOnDue ==
    OneProcess =>
        \A w \in Workers : tick[w] = "claiming" =>
            /\ claimed[w] \subseteq Due
            /\ \A i \in DOMAIN rows[w] : rows[w][i] \in Due

LEMMA DueKept ==
  ASSUME LoopOnDue,
         \A w \in Workers : tick'[w] = "claiming" =>
             /\ tick[w] = "claiming"
             /\ claimed'[w] = claimed[w] /\ rows'[w] = rows[w]
             /\ Due \subseteq Due'
  PROVE  LoopOnDue'
  BY DEF LoopOnDue, OneProcess

LEMMA LoopOnDueNext ==
  ASSUME TypeOK, Hands, LoopOnDue, [Next]_vars
  PROVE  LoopOnDue'
<1> USE DEF table, process, history
<1> SUFFICES ASSUME OneProcess PROVE LoopOnDue'
  BY DEF LoopOnDue, OneProcess
<1>1. ASSUME UNCHANGED <<status, wait, tick, rows, claimed>>
      PROVE  LoopOnDue'
  BY <1>1, DueKept DEF Due
<1>2. ASSUME NEW n \in Notifications, Submit(n)
      PROVE  LoopOnDue'
  <2>1. Due \subseteq Due'
    BY <1>2 DEF Submit, Due, TypeOK
  <2> QED
    BY <1>2, <2>1, DueKept DEF Submit
<1>3. ASSUME NEW w \in Workers, tick'[w] # "claiming"
      PROVE  LoopOnDue'
  BY <1>3 DEF LoopOnDue, OneProcess
<1>4. CASE Clock
  BY <1>4, DueKept DEF Clock
<1>5. ASSUME NEW w \in Workers, TickSelect(w)
      PROVE  LoopOnDue'
  <2>1. Due' = Due
    BY <1>5 DEF TickSelect, Due
  <2>2. claimed'[w] = {}
    BY <1>5, NoClaims DEF TickSelect
  <2>3. PICK s \in DueBatches : rows' = [rows EXCEPT ![w] = s]
    BY <1>5 DEF TickSelect
  <2>4. \A i \in DOMAIN rows'[w] : rows'[w][i] \in Due
    BY <2>3 DEF DueBatches, TypeOK
  <2> QED
    BY <2>1, <2>2, <2>4 DEF LoopOnDue, OneProcess
<1>6. ASSUME NEW w \in Workers, ClaimRow(w)
      PROVE  LoopOnDue'
  <2>1. Due' = Due
    BY <1>6 DEF ClaimRow, Due
  <2>2. rows[w] \in Seq(Notifications) /\ rows[w] # <<>> /\ rows'[w] = Tail(rows[w])
    BY <1>6 DEF ClaimRow, TypeOK
  <2>3. claimed[w] \subseteq Due /\ \A i \in DOMAIN rows[w] : rows[w][i] \in Due
    BY <1>6 DEF LoopOnDue, ClaimRow
  <2>4. claimed'[w] \subseteq claimed[w] \cup {Head(rows[w])}
    BY <1>6 DEF ClaimRow, TypeOK
  <2>5. Head(rows[w]) \in Due /\ \A i \in DOMAIN rows'[w] : rows'[w][i] \in Due
    BY <2>2, <2>3
  <2> QED
    BY <2>1, <2>3, <2>4, <2>5 DEF LoopOnDue, OneProcess
<1>7. ASSUME NEW w \in Workers,
             \/ ClaimCommit(w) \/ TickDone(w) \/ ClaimFails(w) \/ Crash(w) \/ Exit(w)
      PROVE  LoopOnDue'
  <2>1. tick'[w] # "claiming"
    BY <1>7 DEF ClaimCommit, TickDone, ClaimFails, Crash, Exit, Vanish, TypeOK
  <2> QED
    BY <1>3, <2>1
<1>8. ASSUME NEW w \in Workers, NEW n \in Notifications,
             \/ DispatchUndeliverable(w, n) \/ DispatchEnd(w, n)
             \/ SnapshotFails(w, n) \/ PersistFails(w, n) \/ DispatchClosed(w, n)
      PROVE  LoopOnDue'
  <2>1. task[w][n] # "none" /\ tick' = tick
    BY <1>8 DEF DispatchUndeliverable, DispatchEnd, SnapshotFails, PersistFails, DispatchClosed,
                Hands, Underway
  <2>2. tick'[w] # "claiming"
    BY <2>1 DEF Hands
  <2> QED
    BY <1>3, <2>2
<1>9. ASSUME NEW w \in Workers, NEW n \in Notifications, DispatchBegin(w, n)
      PROVE  LoopOnDue'
  BY <1>1, <1>9 DEF DispatchBegin
<1>10. ASSUME NEW w \in Workers,
              Stop(w) \/ Start(w) \/ \E p \in Providers : PollProvider(w, p)
       PROVE  LoopOnDue'
  BY <1>1, <1>10 DEF Stop, Start, PollProvider
<1>11. ASSUME NEW w \in Workers, NEW n \in Notifications, RequestEnds(w, n)
       PROVE  LoopOnDue'
  BY <1>1, <1>11 DEF RequestEnds
<1> QED
  BY <1>1, <1>2, <1>4, <1>5, <1>6, <1>7, <1>8, <1>9, <1>10, <1>11 DEF Next, Work, vars

THEOREM LoopInvariant == Spec => [](TypeOK /\ Hands /\ LoopOnDue)
<1>1. Init => LoopOnDue
  BY DEF Init, LoopOnDue
<1>2. TypeOK /\ Hands /\ LoopOnDue /\ [Next]_vars => LoopOnDue'
  BY LoopOnDueNext
<1> QED
  BY <1>1, <1>2, CoreInvariant, PTL DEF Spec

\* run_once's compare-and-set checks status alone; with one process no row is
\* claimed before its next_retry_at all the same.
THEOREM ClaimOnlyDueCorrect == Spec => ClaimOnlyDue
<1>1. TypeOK /\ Hands /\ LoopOnDue /\ [Next]_vars =>
         [OneProcess =>
             \A n \in Notifications :
                status[n] = "PENDING" /\ status'[n] = "IN_FLIGHT" => wait[n] <= 0]_vars
  <2> USE DEF table, process, history
  <2> SUFFICES ASSUME OneProcess, TypeOK, Hands, LoopOnDue, [Next]_vars,
                      NEW n \in Notifications, status[n] = "PENDING",
                      status'[n] = "IN_FLIGHT"
               PROVE  wait[n] <= 0
    OBVIOUS
  <2>1. ASSUME NEW w \in Workers, ClaimCommit(w)
        PROVE  wait[n] <= 0
    <3>1. n \in claimed[w] /\ tick[w] = "claiming"
      BY <2>1 DEF ClaimCommit
    <3> QED
      BY <3>1 DEF LoopOnDue, Due
  <2>2. CASE status' = status
    BY <2>2
  <2>3. ASSUME NEW m \in Notifications, Submit(m)
        PROVE  FALSE
    BY <2>3 DEF Submit, TypeOK
  <2>4. ASSUME NEW w \in Workers, NEW m \in Notifications,
               \/ DispatchUndeliverable(w, m) \/ DispatchEnd(w, m)
               \/ SnapshotFails(w, m) \/ PersistFails(w, m) \/ DispatchClosed(w, m)
        PROVE  FALSE
    <3>1. \/ status' = status
          \/ \E s \in {"PENDING", "SUCCEEDED", "DEAD_LETTER"} :
                status' = [status EXCEPT ![m] = s]
          \/ status' = [status EXCEPT ![m] = IF @ = "IN_FLIGHT" THEN "PENDING" ELSE @]
      BY <2>4 DEF DispatchUndeliverable, DispatchEnd, SnapshotFails, PersistFails,
                  DispatchClosed, EndUnsent, ApplyOutcome, Persist, Decide, PutBack
    <3> QED
      BY <3>1 DEF TypeOK
  <2> QED
    BY <2>1, <2>2, <2>3, <2>4
    DEF Next, Work, vars, Clock, TickSelect, ClaimRow, TickDone, DispatchBegin,
        ClaimFails, Crash, Exit, Vanish, Stop, Start, PollProvider, RequestEnds
<1> QED
  BY <1>1, LoopInvariant, PTL DEF Spec, ClaimOnlyDue

\* A process that is not there has no probe out.
Vacant ==
    \A w \in Workers : proc[w] = "down" =>
        /\ tick[w] = "idle"
        /\ \A p \in Providers : ~breaker[w][p].probe

LEMMA VacantNext ==
  ASSUME TypeOK, Hands, Vacant, [Next]_vars
  PROVE  Vacant'
<1> USE DEF table, process, history
<1>1. CASE UNCHANGED <<proc, tick, breaker>>
  BY <1>1 DEF Vacant
<1>2. CASE Clock
  <2>1. \A w \in Workers, p \in Providers : breaker[w][p] \in Breaker
    BY DEF TypeOK
  <2>2. \A w \in Workers, p \in Providers : breaker'[w][p].probe = breaker[w][p].probe
    BY <1>2, <2>1 DEF Clock, Age, Breaker
  <2> QED
    BY <1>2, <2>2 DEF Clock, Vacant
<1>3. ASSUME NEW w \in Workers, UNCHANGED proc, proc[w] # "down" \/ tick[w] # "idle",
             \A v \in Workers \ {w} : tick'[v] = tick[v] /\ breaker'[v] = breaker[v]
      PROVE  Vacant'
  BY <1>3 DEF Vacant
<1>4. ASSUME NEW w \in Workers,
             \/ TickSelect(w) \/ ClaimRow(w) \/ ClaimCommit(w) \/ TickDone(w)
             \/ ClaimFails(w) \/ \E p \in Providers : PollProvider(w, p)
      PROVE  Vacant'
  <2>1. UNCHANGED proc /\ (proc[w] # "down" \/ tick[w] # "idle")
    BY <1>4 DEF TickSelect, ClaimRow, ClaimCommit, TickDone, ClaimFails, PollProvider
  <2>2. \A v \in Workers \ {w} : tick'[v] = tick[v] /\ breaker'[v] = breaker[v]
    BY <1>4 DEF TickSelect, ClaimRow, ClaimCommit, TickDone, ClaimFails, PollProvider, TypeOK
  <2> QED
    BY <1>3, <2>1, <2>2
<1>5. ASSUME NEW w \in Workers, NEW n \in Notifications,
             \/ DispatchUndeliverable(w, n) \/ DispatchEnd(w, n)
             \/ PersistFails(w, n) \/ DispatchClosed(w, n)
      PROVE  Vacant'
  <2>1. UNCHANGED <<proc, tick>> /\ task[w][n] # "none"
    BY <1>5 DEF DispatchUndeliverable, DispatchEnd, PersistFails, DispatchClosed,
                Hands, Underway
  <2>2. tick[w] # "idle"
    BY <2>1 DEF Hands
  <2>3. \A v \in Workers \ {w} : breaker'[v] = breaker[v]
    BY <1>5 DEF DispatchUndeliverable, DispatchEnd, PersistFails, DispatchClosed,
                EndUnsent, ApplyOutcome, TypeOK
  <2> QED
    BY <1>3, <2>1, <2>2, <2>3
<1>6. ASSUME NEW w \in Workers, Crash(w) \/ Exit(w)
      PROVE  Vacant'
  <2>1. /\ proc' = [proc EXCEPT ![w] = "down"] /\ tick' = [tick EXCEPT ![w] = "idle"]
        /\ breaker' = [breaker EXCEPT ![w] = [p \in Providers |-> FreshBreaker]]
    BY <1>6 DEF Crash, Exit, Vanish
  <2>2. ~FreshBreaker.probe
    BY DEF FreshBreaker
  <2> QED
    BY <2>1, <2>2 DEF Vacant, TypeOK
<1>7. ASSUME NEW w \in Workers, Stop(w) \/ Start(w)
      PROVE  Vacant'
  BY <1>7 DEF Stop, Start, Vacant, TypeOK
<1> QED
  BY <1>1, <1>2, <1>4, <1>5, <1>6, <1>7
  DEF Next, Work, vars, Submit, DispatchBegin, RequestEnds, SnapshotFails

\* A row of p in the hands of w.
UnderWay(w, p, n) == ProviderOf[n] = p /\ (n \in claimed[w] \/ task[w][n] # "none")

LEMMA ProbeAliveKept ==
  ASSUME ProbeAlive, UNCHANGED <<faults, proc>>,
         \A w \in Workers, p \in Providers :
             breaker'[w][p].probe =>
                 /\ breaker[w][p].probe
                 /\ \A n \in Notifications : UnderWay(w, p, n) => UnderWay(w, p, n)'
  PROVE  ProbeAlive'
  BY DEF ProbeAlive, UnderWay

LEMMA ProbeAliveNext ==
  ASSUME TypeOK, Hands, LoopOnDue, Vacant, ProbeAlive, [Next]_vars
  PROVE  ProbeAlive'
<1> USE DEF table, process, history
<1> SUFFICES ASSUME OneProcess, faults' = 0 PROVE ProbeAlive'
  BY DEF ProbeAlive, OneProcess
<1>0. \A w \in Workers, p \in Providers : breaker[w][p] \in Breaker
  BY DEF TypeOK
<1>1. CASE UNCHANGED <<claimed, task, breaker, faults, proc>>
  BY <1>1, ProbeAliveKept DEF UnderWay
<1>2. CASE Clock
  <2>1. \A w \in Workers, p \in Providers : breaker'[w][p].probe => breaker[w][p].probe
    BY <1>0, <1>2 DEF Clock, Age, Breaker
  <2> QED
    BY <1>2, <2>1, ProbeAliveKept DEF Clock, UnderWay
<1>3. ASSUME NEW w \in Workers, ClaimRow(w)
      PROVE  ProbeAlive'
  <2> DEFINE n == Head(rows[w])
             p == ProviderOf[n]
             b == breaker[w][p]
  <2>1. n \in Due /\ n \in Notifications /\ p \in Providers
    BY <1>3, DeliveryAssumption DEF ClaimRow, LoopOnDue, TypeOK, Due
  <2>2. CASE Allows(b)
    <3>1. n \in claimed'[w] /\ claimed[w] \subseteq claimed'[w]
      BY <1>3, <2>1, <2>2 DEF ClaimRow, TypeOK, Due
    <3>2. \A q \in Providers \ {p} : breaker'[w][q] = breaker[w][q]
      BY <1>3 DEF ClaimRow, TypeOK
    <3>3. ASSUME NEW q \in Providers, proc[w] = "up", breaker'[w][q].probe
          PROVE  \E m \in Notifications : UnderWay(w, q, m)'
      <4>1. CASE q = p
        BY <2>1, <3>1, <4>1 DEF UnderWay
      <4>2. CASE q # p
        <5>1. breaker[w][q].probe
          BY <3>2, <3>3, <4>2
        <5>2. faults = 0
          BY <1>3 DEF ClaimRow
        <5>3. PICK m \in Notifications : UnderWay(w, q, m)
          BY <3>3, <5>1, <5>2 DEF ProbeAlive, UnderWay
        <5> QED
          BY <1>3, <3>1, <5>3 DEF UnderWay, ClaimRow
      <4> QED
        BY <4>1, <4>2
    <3> QED
      BY <1>3, <3>3 DEF ProbeAlive, UnderWay, OneProcess, ClaimRow
  <2>3. CASE ~Allows(b)
    <3>1. Refresh(b) = b
      BY <1>0, <2>1, <2>3 DEF Allows, Refresh, Breaker
    <3>2. breaker' = breaker /\ claimed' = claimed
      BY <1>3, <2>1, <2>3, <3>1 DEF ClaimRow, TypeOK
    <3> QED
      BY <1>1, <1>3, <3>2 DEF ClaimRow
  <2> QED
    BY <2>2, <2>3
<1>4. ASSUME NEW w \in Workers, ClaimCommit(w)
      PROVE  ProbeAlive'
  <2>1. \A n \in Notifications : n \in claimed[w] => task'[w][n] # "none"
    BY <1>4 DEF ClaimCommit, TypeOK
  <2>2. \A n \in Notifications : task[w][n] = "none"
    BY <1>4 DEF ClaimCommit, Hands
  <2>3. \A v \in Workers, q \in Providers, n \in Notifications :
           UnderWay(v, q, n) => UnderWay(v, q, n)'
    BY <2>1, <2>2 DEF UnderWay, OneProcess
  <2> QED
    BY <1>4, <2>3, ProbeAliveKept DEF ClaimCommit
<1>5. ASSUME NEW w \in Workers, NEW n \in Notifications,
             DispatchUndeliverable(w, n) \/ DispatchEnd(w, n)
      PROVE  ProbeAlive'
  <2> DEFINE p == ProviderOf[n]
             b == breaker[w][p]
  <2>0. PICK result, k : ApplyOutcome(w, n, k, result)
    <3>1. CASE DispatchUndeliverable(w, n)
      BY <3>1, UnsentApplies DEF DispatchUndeliverable, Hands
    <3>2. CASE DispatchEnd(w, n)
      BY <3>2 DEF DispatchEnd
    <3> QED
      BY <1>5, <3>1, <3>2
  <2>1. p \in Providers
    BY DeliveryAssumption
  <2>2. PICK r \in {RecordSuccess(b), RecordFailure(b)} :
           breaker' = [breaker EXCEPT ![w][p] = Refresh(r)]
    BY <2>0 DEF ApplyOutcome, Recorded
  <2>3. ~r.probe
    BY DEF RecordSuccess, RecordFailure, FreshBreaker
  <2>4. r \in Breaker
    BY <1>0, <2>1, FailureBreaker, FreshIsBreaker DEF RecordSuccess
  <2>5. ~Refresh(r).probe
    BY <2>3, <2>4 DEF Refresh, Breaker
  <2>6. \A q \in Providers :
           breaker'[w][q].probe => q # p /\ breaker[w][q].probe
    BY <2>1, <2>2, <2>5 DEF TypeOK
  <2>7. \A m \in Notifications : m # n => task'[w][m] = task[w][m]
    BY <2>0 DEF ApplyOutcome, EndTask, TypeOK
  <2>8. UNCHANGED <<claimed, faults, proc>>
    BY <1>5 DEF DispatchUndeliverable, DispatchEnd
  <2> QED
    BY <2>6, <2>7, <2>8, ProbeAliveKept DEF UnderWay, OneProcess
<1>6. ASSUME NEW w \in Workers, NEW n \in Notifications, DispatchBegin(w, n)
      PROVE  ProbeAlive'
  <2>1. status[n] = "IN_FLIGHT"
    BY <1>6 DEF DispatchBegin, Hands, OneDispatcher, Holders
  <2>2. task' = [task EXCEPT ![w][n] = "sending"]
    BY <1>6, <2>1 DEF DispatchBegin
  <2>3. \A m \in Notifications : task[w][m] # "none" => task'[w][m] # "none"
    BY <2>2 DEF TypeOK
  <2> QED
    BY <1>6, <2>3, ProbeAliveKept DEF DispatchBegin, UnderWay, OneProcess
<1>7. ASSUME NEW w \in Workers, proc'[w] # "up"
      PROVE  ProbeAlive'
  BY <1>7 DEF ProbeAlive, OneProcess
<1>8. ASSUME NEW w \in Workers, Crash(w) \/ Exit(w) \/ Stop(w)
      PROVE  ProbeAlive'
  <2>1. proc'[w] # "up"
    BY <1>8 DEF Crash, Exit, Stop, Vanish, TypeOK
  <2> QED
    BY <1>7, <2>1
<1>9. ASSUME NEW w \in Workers, NEW n \in Notifications, DispatchClosed(w, n)
      PROVE  ProbeAlive'
  BY <1>7, <1>9 DEF DispatchClosed
<1>10. ASSUME NEW w \in Workers, Start(w)
       PROVE  ProbeAlive'
  <2>1. \A p \in Providers : ~breaker'[w][p].probe
    BY <1>10 DEF Start, Vacant
  <2> QED
    BY <2>1 DEF ProbeAlive, OneProcess
<1>11. ASSUME NEW w \in Workers, NEW p \in Providers, PollProvider(w, p)
       PROVE  ProbeAlive'
  <2>1. Refresh(breaker[w][p]).probe => breaker[w][p].probe
    BY <1>0 DEF Refresh, Breaker
  <2>2. \A v \in Workers, q \in Providers : breaker'[v][q].probe => breaker[v][q].probe
    BY <1>11, <2>1 DEF PollProvider, TypeOK
  <2> QED
    BY <1>11, <2>2, ProbeAliveKept DEF PollProvider, UnderWay
<1>12. ASSUME NEW w \in Workers,
              \/ ClaimFails(w)
              \/ \E n \in Notifications : SnapshotFails(w, n) \/ PersistFails(w, n)
       PROVE  FALSE
  BY <1>12 DEF ClaimFails, SnapshotFails, PersistFails, Fault, TypeOK
<1>13. ASSUME NEW w \in Workers, TickSelect(w) \/ TickDone(w)
       PROVE  ProbeAlive'
  BY <1>1, <1>13 DEF TickSelect, TickDone
<1> QED
  BY <1>1, <1>2, <1>3, <1>4, <1>5, <1>6, <1>8, <1>9, <1>10, <1>11, <1>12, <1>13
  DEF Next, Work, vars, Submit, RequestEnds

\* half_open_in_flight of a lone process is never left set without a delivery
\* that will clear it, unless a database error has rolled its claim back.
THEOREM ProbeAliveCorrect == Spec => []ProbeAlive
<1>1. Init => Vacant /\ ProbeAlive
  BY DEF Init, Vacant, ProbeAlive, FreshBreaker
<1>2. TypeOK /\ Hands /\ Vacant /\ [Next]_vars => Vacant'
  BY VacantNext
<1>3. TypeOK /\ Hands /\ LoopOnDue /\ Vacant /\ ProbeAlive /\ [Next]_vars => ProbeAlive'
  BY ProbeAliveNext
<1> QED
  BY <1>1, <1>2, <1>3, LoopInvariant, PTL DEF Spec
=============================================================================
