---------------------------- MODULE HealthProofs ----------------------------
(***************************************************************************)
(* Theorems about ProviderHealth, for any threshold, cooldown, pages and   *)
(* numbers of verdicts, failures and clicks.                               *)
(***************************************************************************)
EXTENDS ProviderHealth, TLAPS

(***************************************************************************)
(* The inductive invariant.  Answers on their way, cached ones and the     *)
(* countdown promise at least as much time as their opening of the breaker *)
(* has left, the countdown also after the callback that is due; an answer  *)
(* that says OPEN names a time; and the card of a vendor it calls OPEN has *)
(* its countdown.                                                          *)
(***************************************************************************)
Covers(d) ==
    d # NoData =>
        /\ d.opened <= outcomes
        /\ d.opened = opened => d.cooldown >= breaker.cooldown
        /\ d.state = "OPEN" => d.cooldown # 0

\* The countdown's seconds once its callback, if one is due, has run.
LeftSoon == IF due /\ line.left > 0 THEN line.left - 1 ELSE line.left

LineCovers ==
    line # NoData =>
        /\ line.opened <= outcomes
        /\ line.opened = opened => LeftSoon >= breaker.cooldown

OnlyOpenHasTime == breaker.state # "OPEN" => breaker.cooldown = 0

CardComplete ==
    page = "providers" /\ cache.data # NoData /\ cache.data.state = "OPEN" => line # NoData

Inv ==
    /\ TypeOK
    /\ Covers(cache.data) /\ Covers(cache.coming)
    /\ OnlyOpenHasTime /\ LineCovers /\ CardComplete

-----------------------------------------------------------------------------
(* The breaker's operators, as far as the time left is concerned.          *)

LEMMA RefreshKeeps ==
  ASSUME NEW b \in Breaker, b.state # "OPEN" => b.cooldown = 0
  PROVE  LET r == Refresh(b)
         IN  /\ r \in Breaker
             /\ r.cooldown = b.cooldown
             /\ r.state = "OPEN" <=> r.cooldown # 0
BY BreakerAssumption DEF Refresh, Breaker

LEMMA AllowKeeps ==
  ASSUME NEW b \in Breaker, b.state # "OPEN" => b.cooldown = 0
  PROVE  LET a == AfterAllow(b)
         IN  /\ a \in Breaker
             /\ a.cooldown = b.cooldown
             /\ a.state # "OPEN" => a.cooldown = 0
<1> DEFINE r == Refresh(b)
<1>1. r \in Breaker /\ r.cooldown = b.cooldown /\ (r.state = "OPEN" <=> r.cooldown # 0)
  BY RefreshKeeps
<1>2. AfterAllow(b) = [r EXCEPT !.probe = (r.state = "HALF_OPEN")]
  BY DEF AfterAllow
<1>3. (r.state = "HALF_OPEN") \in BOOLEAN
  OBVIOUS
<1> HIDE DEF r
<1> QED
  BY <1>1, <1>2, <1>3 DEF Breaker

LEMMA AgeLowers ==
  ASSUME NEW b \in Breaker
  PROVE  Age(b) \in Breaker /\ Age(b).cooldown <= b.cooldown /\ Age(b).state = b.state
BY BreakerAssumption DEF Age, Breaker

LEMMA SuccessClears == FreshBreaker \in Breaker /\ FreshBreaker.cooldown = 0
BY BreakerAssumption DEF FreshBreaker, Breaker

LEMMA FailureOpensOrKeeps ==
  ASSUME NEW b \in Breaker
  PROVE  LET f == RecordFailure(b)
         IN  /\ f \in Breaker
             /\ f.state # "OPEN" => f.cooldown = b.cooldown /\ b.state # "OPEN"
<1> DEFINE f == Saturate(b.failures + 1)
           trips == b.state = "HALF_OPEN" \/ f >= Threshold
<1>1. RecordFailure(b) =
        [state    |-> IF trips THEN "OPEN" ELSE b.state,
         failures |-> f,
         cooldown |-> IF trips THEN OpenDuration ELSE b.cooldown,
         probe    |-> FALSE]
  BY DEF RecordFailure
<1>2. f \in 0..Threshold
  BY BreakerAssumption DEF Saturate, Breaker
<1> HIDE DEF f, trips
<1> QED
  BY <1>1, <1>2, BreakerAssumption DEF Breaker

\* An answer promises exactly what the breaker has left, and an OPEN one some.
LEMMA ReadingFits ==
  ASSUME Inv
  PROVE  Reading(breaker) \in Answers /\ Covers(Reading(breaker))
<1> DEFINE r == Refresh(breaker)
           d == Reading(breaker)
<1>1. r \in Breaker /\ r.cooldown = breaker.cooldown /\ (r.state = "OPEN" <=> r.cooldown # 0)
  BY RefreshKeeps DEF Inv, TypeOK, OnlyOpenHasTime
<1>2. opened \in 0..MaxOutcomes /\ opened <= outcomes
  BY HealthAssumption DEF Inv, TypeOK
<1>3. d = [state    |-> r.state,
           cooldown |-> IF r.state = "OPEN" THEN r.cooldown ELSE 0,
           opened   |-> opened]
  BY DEF Reading
<1>4. breaker.cooldown \in Nat /\ r.cooldown \in 0..OpenDuration
      /\ r.state \in {"CLOSED", "OPEN", "HALF_OPEN"}
  BY <1>1, BreakerAssumption DEF Inv, TypeOK, Breaker
<1>5. d.cooldown = breaker.cooldown
  BY <1>1, <1>3, <1>4
<1> HIDE DEF r
<1>6. d \in Answers
  BY <1>2, <1>3, <1>4, BreakerAssumption DEF Answers
<1> QED
  BY <1>1, <1>2, <1>3, <1>4, <1>5, <1>6 DEF Covers

-----------------------------------------------------------------------------
(* The console's part of the invariant, where the breaker keeps its time.  *)

\* QueryCache's operators keep answers that fit.
LEMMA CacheTyped ==
  ASSUME NEW e \in Entry(Answers), NEW d \in Answers
  PROVE  /\ StartFetch(e) \in Entry(Answers) /\ StartFetch(e).data = e.data
         /\ StartFetch(e).coming = NoData
         /\ Serve(e, d) \in Entry(Answers) /\ Serve(e, d).data = e.data
         /\ Serve(e, d).coming = d
         /\ Receive(e, FALSE) \in Entry(Answers) /\ Receive(e, FALSE).data = e.coming
         /\ Receive(e, FALSE).coming = NoData
         /\ \A inUse \in BOOLEAN :
                /\ Fail(e, inUse) \in Entry(Answers)
                /\ Fail(e, inUse).data = e.data /\ Fail(e, inUse).coming = NoData
<1>1. StartFetch(e) \in Entry(Answers) /\ StartFetch(e).data = e.data
      /\ StartFetch(e).coming = NoData
  <2>1. 0 \in 0..Retries
    BY DEF Retries
  <2> QED
    BY <2>1 DEF StartFetch, Entry
<1>2. Serve(e, d) \in Entry(Answers) /\ Serve(e, d).data = e.data /\ Serve(e, d).coming = d
  BY DEF Serve, Entry, Retries
<1>3. Receive(e, FALSE) \in Entry(Answers) /\ Receive(e, FALSE).data = e.coming
      /\ Receive(e, FALSE).coming = NoData
  BY DEF Receive, Entry, Retries
<1>4. ASSUME NEW inUse \in BOOLEAN
      PROVE  /\ Fail(e, inUse) \in Entry(Answers)
             /\ Fail(e, inUse).data = e.data /\ Fail(e, inUse).coming = NoData
  <2>1. CASE inUse /\ e.tries < Retries
    <3>1. Fail(e, inUse) = [e EXCEPT !.fetch = "asked", !.coming = NoData, !.tries = @ + 1]
      BY <2>1 DEF Fail
    <3>2. e.tries + 1 \in 0..Retries
      BY <2>1 DEF Entry, Retries
    <3> QED
      BY <3>1, <3>2 DEF Entry
  <2>2. CASE ~(inUse /\ e.tries < Retries)
    BY <2>2 DEF Fail, Entry
  <2> QED
    BY <2>1, <2>2
<1> QED
  BY <1>1, <1>2, <1>3, <1>4

\* A page's query: used again, it is fetched again or left alone.
LEMMA ObserveTyped ==
  ASSUME NEW e \in Entry(Answers)
  PROVE  LET o == Observe(e, FALSE)
         IN  o \in Entry(Answers) /\ o.data = e.data /\ o.coming \in {e.coming, NoData}
<1>1. Observe(e, FALSE) \in {e, StartFetch(e)}
  BY DEF Observe
<1>2. StartFetch(e) \in Entry(Answers) /\ StartFetch(e).data = e.data
      /\ StartFetch(e).coming = NoData
  <2>1. 0 \in 0..Retries
    BY DEF Retries
  <2> QED
    BY <2>1 DEF StartFetch, Entry
<1> QED
  BY <1>1, <1>2

\* The countdown of a rendered card starts from an answer, or goes on.
LEMMA MountedFits ==
  ASSUME Inv, NEW p \in Pages, NEW d \in Answers \cup {NoData}, Covers(d),
         NEW l \in {line, NoData},
         breaker' = breaker, outcomes' = outcomes, opened' = opened,
         page' = p, line' = Mounted(p, d, l), due' => due /\ l # NoData,
         due' \in BOOLEAN
  PROVE  /\ line' \in Line \cup {NoData}
         /\ LineCovers'
         /\ p = "providers" /\ d # NoData /\ d.state = "OPEN" => line' # NoData
<1>1. line \in Line \cup {NoData} /\ LineCovers /\ due \in BOOLEAN
  BY DEF Inv, TypeOK
<1>2. CASE p # "providers" \/ ~SaysTime(d)
  BY <1>2 DEF Mounted, LineCovers, SaysTime, Covers
<1>3. CASE p = "providers" /\ SaysTime(d) /\ l # NoData
  <2>1. line' = line /\ line \in Line
    BY <1>1, <1>3 DEF Mounted
  <2>2. line.left \in Nat
    BY <2>1, BreakerAssumption DEF Line
  <2>3. LeftSoon' >= LeftSoon /\ LeftSoon \in Nat /\ LeftSoon' \in Nat
    BY <1>1, <2>1, <2>2 DEF LeftSoon
  <2>4. breaker.cooldown \in Nat
    BY BreakerAssumption DEF Inv, TypeOK, Breaker
  <2> QED
    BY <1>1, <1>3, <2>1, <2>3, <2>4 DEF LineCovers
<1>4. CASE p = "providers" /\ SaysTime(d) /\ l = NoData
  <2>1. line' = [left |-> d.cooldown, opened |-> d.opened] /\ due' = FALSE
    BY <1>4 DEF Mounted
  <2>2. d \in Answers
    BY <1>4 DEF SaysTime
  <2>3. line' \in Line
    BY <2>1, <2>2 DEF Line, Answers
  <2>4. line' # NoData
    BY <2>3, HealthAssumption
  <2>5. LeftSoon' = d.cooldown /\ line'.opened = d.opened
    BY <2>1 DEF LeftSoon
  <2> QED
    BY <1>4, <2>2, <2>3, <2>4, <2>5 DEF Covers, LineCovers, SaysTime
<1> QED
  BY <1>2, <1>3, <1>4

-----------------------------------------------------------------------------
LEMMA InitInv == Init => Inv
<1> SUFFICES ASSUME Init PROVE Inv
  OBVIOUS
<1>1. NewEntry \in Entry(Answers)
  BY DEF NewEntry, Entry, Retries
<1>2. cache \in Entry(Answers) /\ cache.data = NoData /\ cache.coming = NoData
  <2>1. NewEntry.data = NoData /\ NewEntry.coming = NoData
    BY DEF NewEntry
  <2> QED
    BY <1>1, <2>1, ObserveTyped DEF Init
<1>3. breaker \in Breaker /\ OnlyOpenHasTime
  BY SuccessClears DEF Init, OnlyOpenHasTime
<1>4. outcomes \in 0..MaxOutcomes /\ opened \in 0..outcomes
  BY HealthAssumption DEF Init
<1>5. TypeOK
  BY <1>2, <1>3, <1>4 DEF Init, TypeOK
<1> QED
  BY <1>2, <1>3, <1>5 DEF Init, Inv, Covers, LineCovers, CardComplete

\* Verdicts, claims and time: the answers that are out and the countdown stay
\* covered, because the breaker gets more time only by a new opening.
LEMMA GatewayKeepsInv ==
  ASSUME Inv, Succeeded \/ HasFailed \/ Allow \/ Clock
  PROVE  Inv'
<1>1. TypeOK /\ OnlyOpenHasTime /\ breaker \in Breaker
  BY DEF Inv, TypeOK
<1>2. UNCHANGED <<cache, page, line>>
  BY DEF Succeeded, HasFailed, Allow, Clock, screen
<1>3. /\ breaker' \in Breaker /\ OnlyOpenHasTime'
      /\ outcomes' \in 0..MaxOutcomes /\ opened' \in 0..outcomes'
      /\ outcomes <= outcomes'
      /\ \/ opened' = opened /\ breaker'.cooldown <= breaker.cooldown
         \/ opened' = outcomes + 1
  <2>1. CASE Succeeded
    BY <1>1, <2>1, SuccessClears, HealthAssumption
    DEF Succeeded, RecordSuccess, OnlyOpenHasTime, TypeOK, Breaker
  <2>2. CASE HasFailed
    <3> DEFINE f == RecordFailure(breaker)
    <3>1. f \in Breaker /\ (f.state # "OPEN" => f.cooldown = breaker.cooldown /\ breaker.state # "OPEN")
      BY <1>1, FailureOpensOrKeeps
    <3>2. /\ breaker' = f /\ outcomes' = outcomes + 1 /\ outcomes < MaxOutcomes
          /\ opened' = IF f.state = "OPEN" THEN outcomes + 1 ELSE opened
      BY <2>2 DEF HasFailed
    <3>3. f.cooldown \in Nat /\ breaker.cooldown \in Nat
      BY <1>1, <3>1, BreakerAssumption DEF Breaker
    <3> HIDE DEF f
    <3> QED
      BY <1>1, <3>1, <3>2, <3>3, HealthAssumption DEF OnlyOpenHasTime, TypeOK
  <2>3. CASE Allow
    <3> DEFINE a == AfterAllow(breaker)
    <3>1. a \in Breaker /\ a.cooldown = breaker.cooldown /\ (a.state # "OPEN" => a.cooldown = 0)
      BY <1>1, AllowKeeps DEF OnlyOpenHasTime
    <3>2. breaker' = a /\ UNCHANGED <<outcomes, opened>>
      BY <2>3 DEF Allow
    <3>3. breaker.cooldown \in Nat
      BY <1>1, BreakerAssumption DEF Breaker
    <3> HIDE DEF a
    <3> QED
      BY <1>1, <3>1, <3>2, <3>3, HealthAssumption DEF OnlyOpenHasTime, TypeOK
  <2>4. CASE Clock
    <3>1. Age(breaker) \in Breaker /\ Age(breaker).cooldown <= breaker.cooldown
          /\ Age(breaker).state = breaker.state
      BY <1>1, AgeLowers
    <3>2. breaker' = Age(breaker) /\ UNCHANGED <<outcomes, opened>>
      BY <2>4 DEF Clock
    <3>3. Age(breaker).cooldown \in Nat /\ breaker.cooldown \in Nat
      BY <1>1, <3>1, BreakerAssumption DEF Breaker
    <3> QED
      BY <1>1, <3>1, <3>2, <3>3, HealthAssumption DEF OnlyOpenHasTime, TypeOK
  <2> QED
    BY <2>1, <2>2, <2>3, <2>4
<1>4. due' \in BOOLEAN /\ (due' => line' # NoData)
  <2>1. CASE Clock
    <3>1. (line # NoData) \in BOOLEAN
      OBVIOUS
    <3> QED
      BY <1>2, <2>1, <3>1 DEF Clock
  <2>2. CASE ~Clock
    BY <1>1, <1>2, <2>2 DEF TypeOK, Succeeded, HasFailed, Allow, screen
  <2> QED
    BY <2>1, <2>2
<1>5. TypeOK'
  BY <1>1, <1>2, <1>3, <1>4 DEF TypeOK
<1>6. breaker.cooldown \in Int /\ breaker'.cooldown \in Int /\ outcomes \in Int /\ outcomes' \in Int
  BY <1>1, <1>3, BreakerAssumption, HealthAssumption DEF Breaker, TypeOK
<1>7. ASSUME NEW d \in Answers \cup {NoData}, Covers(d)
      PROVE  Covers(d)'
  <2>1. CASE d # NoData
    <3>1. d.opened \in Int /\ d.cooldown \in Int
      BY <2>1, BreakerAssumption, HealthAssumption DEF Answers
    <3> QED
      BY <1>3, <1>6, <1>7, <2>1, <3>1 DEF Covers
  <2> QED
    BY <2>1 DEF Covers
<1>8. LineCovers'
  <2>1. CASE line # NoData
    <3>1. line.opened \in Int /\ line.left \in Nat /\ due \in BOOLEAN
      BY <1>1, <2>1, BreakerAssumption, HealthAssumption DEF TypeOK, Line
    <3>2. /\ line.opened <= outcomes
          /\ line.opened = opened => LeftSoon >= breaker.cooldown
      BY <2>1 DEF Inv, LineCovers
    <3>3. CASE ~Clock
      <4>1. LeftSoon' = LeftSoon /\ LeftSoon \in Int
        BY <1>2, <3>1, <3>3 DEF Succeeded, HasFailed, Allow, screen, LeftSoon
      <4> QED
        BY <1>2, <1>3, <1>6, <2>1, <3>1, <3>2, <4>1 DEF LineCovers
    <3>4. CASE Clock
      <4>1. due' = TRUE /\ UNCHANGED <<outcomes, opened>> /\ breaker' = Age(breaker)
        BY <2>1, <3>4 DEF Clock
      <4>2. breaker'.cooldown = IF breaker.cooldown > 0 THEN breaker.cooldown - 1 ELSE 0
        BY <1>1, <4>1, BreakerAssumption DEF Age, Breaker
      <4>3. breaker.cooldown \in Nat
        BY <1>1, BreakerAssumption DEF Breaker
      <4>4. LeftSoon' = IF line.left > 0 THEN line.left - 1 ELSE line.left
        BY <1>2, <4>1 DEF LeftSoon
      <4>5. LeftSoon <= line.left /\ LeftSoon \in Nat
        BY <3>1 DEF LeftSoon
      <4> QED
        BY <1>2, <2>1, <3>1, <3>2, <4>1, <4>2, <4>3, <4>4, <4>5 DEF LineCovers
    <3> QED
      BY <3>3, <3>4
  <2> QED
    BY <1>2, <2>1 DEF LineCovers
<1>9. cache.data \in Answers \cup {NoData} /\ cache.coming \in Answers \cup {NoData}
  BY <1>1 DEF TypeOK, Entry
<1>10. Covers(cache.data)' /\ Covers(cache.coming)'
  BY <1>2, <1>7, <1>9 DEF Inv, Covers
<1>11. CardComplete'
  BY <1>2 DEF Inv, CardComplete
<1> QED
  BY <1>3, <1>5, <1>8, <1>10, <1>11 DEF Inv

\* The console's requests, pages and timers.
LEMMA ConsoleKeepsInv ==
  ASSUME Inv,
         \/ \E p \in Pages : Open(p)
         \/ Polled \/ Served \/ Received \/ Failed \/ CountDown
  PROVE  Inv'
<1>1. TypeOK /\ OnlyOpenHasTime /\ LineCovers /\ CardComplete
      /\ Covers(cache.data) /\ Covers(cache.coming)
  BY DEF Inv
<1>2. /\ breaker \in Breaker /\ cache \in Entry(Answers) /\ page \in Pages
      /\ line \in Line \cup {NoData} /\ due \in BOOLEAN /\ (due => line # NoData)
      /\ cache.data \in Answers \cup {NoData} /\ cache.coming \in Answers \cup {NoData}
  BY <1>1 DEF TypeOK, Entry
<1>3. Covers(NoData)
  BY DEF Covers
<1>4. CASE \E p \in Pages : Open(p)
  <2>1. PICK p \in Pages : Open(p)
    BY <1>4
  <2>2. /\ cache' \in Entry(Answers) /\ cache'.data = cache.data
        /\ cache'.coming \in {cache.coming, NoData}
    BY <1>2, <2>1, ObserveTyped DEF Open
  <2>3. /\ UNCHANGED <<breaker, outcomes, opened>> /\ page' = p
        /\ line' = Mounted(p, cache.data, NoData) /\ due' = FALSE
    BY <2>1 DEF Open, gateway
  <2>4. /\ line' \in Line \cup {NoData} /\ LineCovers'
        /\ (p = "providers" /\ cache.data # NoData /\ cache.data.state = "OPEN" => line' # NoData)
    BY <1>1, <1>2, <2>3, MountedFits
  <2>5. Covers(cache.data)' /\ Covers(cache.coming)'
    BY <1>1, <1>3, <2>2, <2>3 DEF Covers
  <2> QED
    BY <1>1, <1>2, <2>2, <2>3, <2>4, <2>5 DEF Inv, TypeOK, OnlyOpenHasTime, CardComplete
<1>5. CASE Polled \/ Failed
  <2>1. \/ cache' = StartFetch(cache)
        \/ \E inUse \in BOOLEAN : cache' = Fail(cache, inUse)
    BY <1>5 DEF Polled, Failed
  <2>2. cache' \in Entry(Answers) /\ cache'.data = cache.data /\ cache'.coming = NoData
    <3>1. cache \in Entry(Answers) /\ \E d : d \in Answers
      BY <1>2, ReadingFits
    <3>2. CASE cache' = StartFetch(cache)
      BY <3>1, <3>2, CacheTyped
    <3>3. ASSUME NEW inUse \in BOOLEAN, cache' = Fail(cache, inUse)
          PROVE  cache' \in Entry(Answers) /\ cache'.data = cache.data /\ cache'.coming = NoData
      BY <3>1, <3>3, CacheTyped
    <3> QED
      BY <2>1, <3>2, <3>3
  <2>3. UNCHANGED <<gateway, screen>>
    BY <1>5 DEF Polled, Failed
  <2>4. Covers(cache.data)' /\ Covers(cache.coming)'
    BY <1>1, <1>3, <2>2, <2>3 DEF Covers, gateway
  <2> QED
    BY <1>1, <1>2, <2>2, <2>3, <2>4
    DEF Inv, TypeOK, OnlyOpenHasTime, CardComplete, LineCovers, LeftSoon, gateway, screen
<1>6. CASE Served
  <2> DEFINE d == Reading(breaker)
             r == Refresh(breaker)
  <2>1. d \in Answers /\ Covers(d)
    BY ReadingFits
  <2>2. r \in Breaker /\ r.cooldown = breaker.cooldown /\ (r.state = "OPEN" <=> r.cooldown # 0)
    BY <1>1, <1>2, RefreshKeeps DEF OnlyOpenHasTime
  <2>3. /\ breaker' = r /\ cache' = Serve(cache, d)
        /\ UNCHANGED <<outcomes, opened, screen>>
    BY <1>6 DEF Served
  <2>4. cache' \in Entry(Answers) /\ cache'.data = cache.data /\ cache'.coming = d
    BY <1>2, <2>1, <2>3, CacheTyped
  <2> HIDE DEF d, r
  <2>5. Covers(cache.data)' /\ Covers(cache.coming)' /\ LineCovers'
    BY <1>1, <2>1, <2>2, <2>3, <2>4 DEF Covers, LineCovers, LeftSoon, screen
  <2> QED
    BY <1>1, <1>2, <2>2, <2>3, <2>4, <2>5 DEF Inv, TypeOK, OnlyOpenHasTime, CardComplete, screen
<1>7. CASE Received
  <2>1. cache' \in Entry(Answers) /\ cache'.data = cache.coming /\ cache'.coming = NoData
    BY <1>2, <1>7, CacheTyped, ReadingFits DEF Received
  <2>2. /\ UNCHANGED <<breaker, outcomes, opened>> /\ page' = page
        /\ line' = Mounted(page, cache.coming, line) /\ due' = (due /\ line' # NoData)
    BY <1>7 DEF Received, gateway
  <2>3. /\ line' \in Line \cup {NoData} /\ LineCovers'
        /\ (page = "providers" /\ cache.coming # NoData /\ cache.coming.state = "OPEN"
              => line' # NoData)
    BY <1>1, <1>2, <2>2, MountedFits
  <2>4. Covers(cache.data)' /\ Covers(cache.coming)'
    BY <1>1, <1>3, <2>1, <2>2 DEF Covers
  <2>5. due' \in BOOLEAN /\ (due' => line' # NoData)
    BY <1>2, <2>2
  <2> QED
    BY <1>1, <1>2, <2>1, <2>2, <2>3, <2>4, <2>5 DEF Inv, TypeOK, OnlyOpenHasTime, CardComplete
<1>8. CASE CountDown
  <2>1. /\ line' = [line EXCEPT !.left = IF @ > 0 THEN @ - 1 ELSE 0]
        /\ due = TRUE /\ due' = FALSE
        /\ UNCHANGED <<gateway, cache, page>> /\ line \in Line
    BY <1>2, <1>8 DEF CountDown
  <2>2. line.left \in Nat /\ line.left \in 0..OpenDuration
    BY <2>1, BreakerAssumption DEF Line
  <2>3. line'.left = LeftSoon /\ line'.opened = line.opened /\ line' \in Line
    <3>1. line'.left = IF line.left > 0 THEN line.left - 1 ELSE 0
      BY <2>1 DEF Line
    <3>2. line'.left \in 0..OpenDuration
      BY <2>2, <3>1, BreakerAssumption
    <3>3. line' = [line EXCEPT !.left = line'.left]
      BY <2>1 DEF Line
    <3>4. line'.opened = line.opened /\ line' \in Line
      BY <2>1, <3>2, <3>3 DEF Line
    <3> QED
      BY <2>1, <2>2, <3>1, <3>4 DEF LeftSoon
  <2>4. LeftSoon' = LeftSoon
    BY <2>1, <2>3 DEF LeftSoon
  <2>5. line # NoData /\ line' # NoData
    BY <2>1, <2>3, HealthAssumption
  <2>6. LineCovers'
    BY <1>1, <2>1, <2>3, <2>4, <2>5 DEF LineCovers, gateway
  <2> QED
    BY <1>1, <1>2, <2>1, <2>3, <2>5, <2>6
    DEF Inv, TypeOK, OnlyOpenHasTime, CardComplete, Covers, gateway
<1> QED
  BY <1>4, <1>5, <1>6, <1>7, <1>8

LEMMA NextKeepsInv == Inv /\ [Next]_vars => Inv'
<1> SUFFICES ASSUME Inv, [Next]_vars PROVE Inv'
  OBVIOUS
<1>1. CASE Next
  BY <1>1, GatewayKeepsInv, ConsoleKeepsInv DEF Next
<1>2. CASE UNCHANGED vars
  BY <1>2
  DEF Inv, TypeOK, Covers, OnlyOpenHasTime, LineCovers, LeftSoon, CardComplete,
      vars, gateway, screen, bounds
<1> QED
  BY <1>1, <1>2

-----------------------------------------------------------------------------
(***************************************************************************)
(* The theorems.                                                           *)
(***************************************************************************)

\* In every state that can be reached, the answers that are out and the
\* countdown on screen cover what is left of their opening of the breaker.
THEOREM InvCorrect == Spec => []Inv
<1>1. Init => Inv
  BY InitInv
<1>2. Inv /\ [Next]_vars => Inv'
  BY NextKeepsInv
<1> QED
  BY <1>1, <1>2, PTL DEF Spec

\* Type correctness of the breaker as read, of the cache and of the countdown.
THEOREM TypeCorrect == Spec => []TypeOK
<1>1. Inv => TypeOK
  BY DEF Inv
<1> QED
  BY <1>1, InvCorrect, PTL

\* What rounding to minutes may take away or add.
LEMMA MinutesRound ==
  ASSUME NEW d \in Nat
  PROVE  /\ Minutes(d) \in Nat
         /\ 2 * Minute * Minutes(d) + Minute > 2 * d
<1> DEFINE a == 2 * d + Minute
           b == 2 * Minute
           q == a \div b
<1>1. a \in Nat /\ b \in Nat \ {0} /\ Minute \in Nat
  BY HealthAssumption
<1>2. q \in Nat /\ a < b * q + b
  <2> HIDE DEF a, b
  <2> QED
    BY <1>1
<1>3. Minutes(d) = q /\ b * q = 2 * Minute * Minutes(d)
  BY DEF Minutes
<1>4. b * q \in Nat
  <2> HIDE DEF b, q
  <2> QED
    BY <1>1, <1>2
<1>5. 2 * d + Minute < b * q + 2 * Minute
  BY <1>2
<1>6. ASSUME NEW x \in Nat, 2 * d + Minute < x + 2 * Minute
      PROVE  x + Minute > 2 * d
  BY <1>1, <1>6
<1>7. b * q + Minute > 2 * d
  <2> HIDE DEF b, q
  <2> QED
    BY <1>4, <1>5, <1>6
<1> QED
  BY <1>2, <1>3, <1>7

\* A vendor shown as OPEN is never without the time it stays so, on the
\* dashboard's matrix and on its card, across refetches and changes of pages.
THEOREM OpenHasCountdownCorrect == Spec => []OpenHasCountdown
<1>1. Inv => OpenHasCountdown
  <2> SUFFICES ASSUME Inv, Shown # NoData, Shown.badge = "OPEN"
               PROVE  Shown.left # NoData
    BY DEF OpenHasCountdown
  <2>1. cache.data # NoData /\ page \in {"home", "providers"} /\ cache.data \in Answers
    BY DEF Shown, Inv, TypeOK, Entry
  <2>2. CASE page = "providers"
    <3>1. Shown = ProviderCard(cache.data)
      BY <2>1, <2>2 DEF Shown
    <3>2. line # NoData /\ line \in Line
      BY <2>1, <2>2, <3>1 DEF ProviderCard, Inv, TypeOK, CardComplete
    <3>3. Shown.left = line.left /\ line.left \in 0..OpenDuration
      BY <3>1, <3>2 DEF ProviderCard, Line
    <3> QED
      BY <3>3, HealthAssumption
  <2>3. CASE page = "home"
    <3>1. Shown = MatrixCard(cache.data)
      BY <2>1, <2>3 DEF Shown
    <3>2. SaysTime(cache.data)
      BY <2>1, <3>1 DEF MatrixCard, SaysTime, Inv, Covers
    <3>3. Shown.left = Minutes(cache.data.cooldown) /\ cache.data.cooldown \in Nat
      BY <2>1, <3>1, <3>2 DEF MatrixCard, Answers
    <3> QED
      BY <3>3, MinutesRound, HealthAssumption
  <2> QED
    BY <2>1, <2>2, <2>3
<1> QED
  BY <1>1, InvCorrect, PTL

\* With answers delayed for any time and cached for any time, the seconds on a
\* card never run out before the cooldown they are about, and the minutes on
\* the dashboard fall short of it by half a minute at most.
THEOREM CountdownNotEarlyCorrect == Spec => []CountdownNotEarly
<1>1. Inv => CountdownNotEarly
  <2> SUFFICES ASSUME Inv, Shown # NoData, Shown.left # NoData, Shown.opened = opened
               PROVE  IF page = "providers"
                      THEN Shown.left >= breaker.cooldown
                      ELSE 2 * Minute * Shown.left + Minute > 2 * breaker.cooldown
    BY DEF CountdownNotEarly
  <2>1. cache.data # NoData /\ page \in {"home", "providers"} /\ cache.data \in Answers
    BY DEF Shown, Inv, TypeOK, Entry
  <2>2. CASE page = "providers"
    <3>1. Shown = ProviderCard(cache.data)
      BY <2>1, <2>2 DEF Shown
    <3>2. line # NoData /\ line \in Line /\ due \in BOOLEAN
      BY <3>1 DEF ProviderCard, Inv, TypeOK
    <3>3. Shown.left = line.left /\ Shown.opened = line.opened
      BY <3>1, <3>2 DEF ProviderCard
    <3>4. LeftSoon >= breaker.cooldown
      BY <3>2, <3>3 DEF Inv, LineCovers
    <3>5. line.left \in Nat /\ breaker.cooldown \in Nat
      BY <3>2, BreakerAssumption DEF Line, Inv, TypeOK, Breaker
    <3> QED
      BY <2>2, <3>2, <3>3, <3>4, <3>5 DEF LeftSoon
  <2>3. CASE page = "home"
    <3>1. Shown = MatrixCard(cache.data)
      BY <2>1, <2>3 DEF Shown
    <3>2. /\ SaysTime(cache.data) /\ Shown.left = Minutes(cache.data.cooldown)
          /\ Shown.opened = cache.data.opened
      BY <3>1 DEF MatrixCard
    <3> DEFINE c == cache.data.cooldown
    <3>3. c \in Nat /\ breaker.cooldown \in Nat /\ c >= breaker.cooldown
      BY <2>1, <3>2, BreakerAssumption DEF Inv, TypeOK, Breaker, Covers, Answers
    <3>4. /\ Minutes(c) \in Nat
          /\ 2 * Minute * Minutes(c) + Minute > 2 * c
      BY <3>3, MinutesRound
    <3> HIDE DEF c
    <3>5. 2 * Minute * Minutes(c) \in Nat /\ Minute \in Nat
      BY <3>4, HealthAssumption
    <3>6. ASSUME NEW x \in Nat, x + Minute > 2 * c
          PROVE  x + Minute > 2 * breaker.cooldown
      BY <3>3, <3>5, <3>6
    <3>7. 2 * Minute * Minutes(c) + Minute > 2 * breaker.cooldown
      BY <3>4, <3>5, <3>6
    <3> QED
      BY <2>3, <3>2, <3>7 DEF c
  <2> QED
    BY <2>1, <2>2, <2>3
<1> QED
  BY <1>1, InvCorrect, PTL
=============================================================================
