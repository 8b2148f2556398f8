------------------------------ MODULE ReadApi ------------------------------
(***************************************************************************)
(* The gateway's read routes: GET /v1/notifications and /v1/dead-letters   *)
(* (app/api/_listing.py), GET /v1/metrics/summary (routes_metrics.py) and  *)
(* the latency histogram behind its p95 (app/core/metrics.py).             *)
(*                                                                         *)
(* They run in threadpool threads while deliveries commit.  pysqlite opens *)
(* no transaction for a SELECT, so each statement of a request sees a      *)
(* state of the table of its own; one action is one statement.  Requests   *)
(* do not disturb each other: one reader stands for all.                   *)
(*                                                                         *)
(* A row is its place in created_at order (distinct timestamps); rows may  *)
(* be committed in another order than they were created.                   *)
(***************************************************************************)
EXTENDS Integers, Sequences, FiniteSets, FiniteSetsExt

CONSTANTS
    Rows,           \* the rows ever created; a larger number is a later one
    HourOf,         \* hour of created_at
    VendorOf,       \* provider column
    Filters,        \* query strings of a list: [status, among], where among
                    \* are the rows whose fixed columns match
    Limit,          \* page size
    TrendHours,     \* _TREND_HOURS
    Latencies,      \* seconds a delivery attempt may take
    Buckets,        \* upper bounds of the histogram's buckets
    Percent,        \* the percentile asked for
    LastHour,       \* bound: hours that pass
    MaxObserved     \* bound: delivery attempts measured

Vendors  == {VendorOf[n] : n \in Rows}
Any      == "any"
Settled  == {"SUCCEEDED", "DEAD_LETTER"}
Inflight == {"PENDING", "IN_FLIGHT"}
Lasting  == {Any} \cup Settled      \* statuses a row that matches never leaves
Queries  == [status : {Any} \cup Inflight \cup Settled, among : SUBSET Rows]

\* What the dashboard's numbers may be: a count of rows, one bucket for each
\* hour of a trend, and the vendors' shares.
Numbers == 0..Cardinality(Rows)
Trends  == {<<>>} \cup
           UNION {[h - TrendHours + 1..h -> [ok : Numbers, bad : Numbers, inflight : Numbers]] :
                     h \in 0..LastHour}
Shares  == {<<>>} \cup UNION {[V -> [succeeded : Numbers, dlq : Numbers]] : V \in SUBSET Vendors}

ASSUME ReadAssumption ==
    /\ Rows \subseteq Nat /\ IsFiniteSet(Rows)
    /\ Filters \subseteq Queries
    /\ HourOf \in [Rows -> Nat] /\ LastHour \in Nat
    /\ \A m, n \in Rows : m < n => HourOf[m] <= HourOf[n]
    /\ Limit \in Nat \ {0} /\ TrendHours \in Nat \ {0}
    /\ Percent \in 1..99
    /\ Latencies \subseteq Nat /\ IsFiniteSet(Latencies)
    /\ Buckets \in Seq(Nat \ {0}) /\ Buckets # <<>>
    /\ \A i \in 1..Len(Buckets) - 1 : Buckets[i] < Buckets[i + 1]

VARIABLES
    status,     \* the table; "absent" before the row is committed
    hour,       \* the wall clock's hour
    counts,     \* _bucket_counts: the cumulative buckets of each label
    observed,   \* history: how often each latency was observed
    reading,    \* the reader's next step: "idle", a statement, or "answered"
    walk,       \* a client paging through a list
    summary     \* a request for the dashboard's numbers

world == <<status, hour, counts, observed>>
vars  == <<world, reading, walk, summary>>

NoWalk    == [filter |-> [status |-> Any, among |-> {}], offset |-> 0, total |-> 0,
              items |-> {}, shown |-> {}, first |-> {}, counted |-> {}, late |-> 0]
NoSummary == [hour |-> 0, rows |-> 0, inflight |-> 0, dlqTotal |-> 0, ok |-> 0,
              bad |-> 0, trend |-> <<>>, byVendor |-> <<>>]

Stored          == {n \in Rows : status[n] # "absent"}
With(S, states) == {n \in S : status[n] \in states}
Count(S, states) == Cardinality(With(S, states))
Total(f, S)     == MapThenSumSet(LAMBDA x : f[x], S)

-----------------------------------------------------------------------------
Init ==
    /\ status   = [n \in Rows |-> "absent"]
    /\ hour     = 0
    /\ counts   = [v \in Vendors |-> [i \in DOMAIN Buckets |-> 0]]
    /\ observed = [x \in Latencies |-> 0]
    /\ reading  = "idle"
    /\ walk     = NoWalk
    /\ summary  = NoSummary

(* The rest of the gateway, as far as a reader can tell.                   *)

\* A row is committed, at the earliest in the hour it was created.
Insert(n) ==
    /\ status[n] = "absent"
    /\ hour >= HourOf[n]
    /\ status' = [status EXCEPT ![n] = "PENDING"]
    /\ UNCHANGED <<hour, counts, observed, reading, walk, summary>>

\* Mutant of Claim: a status that NotificationStatus does not have.
ClaimRenamed(n) ==
    /\ status[n] = "PENDING"
    /\ status' = [status EXCEPT ![n] = "CLAIMED"]
    /\ UNCHANGED <<hour, counts, observed, reading, walk, summary>>

Claim(n) ==
    /\ status[n] = "PENDING"
    /\ status' = [status EXCEPT ![n] = "IN_FLIGHT"]
    /\ UNCHANGED <<hour, counts, observed, reading, walk, summary>>

\* Histogram.observe: every bucket that x fits into is incremented.
Observe(v, x) ==
    /\ counts' = [counts EXCEPT ![v] =
                     [i \in DOMAIN Buckets |-> IF x <= Buckets[i] THEN @[i] + 1 ELSE @[i]]]
    /\ observed' = [observed EXCEPT ![x] = @ + 1]

\* A request to the vendor ends: its time is observed, its row settled or
\* made pending again.
Deliver(n) ==
    /\ status[n] = "IN_FLIGHT"
    /\ Total(observed, Latencies) < MaxObserved
    /\ \E x \in Latencies : Observe(VendorOf[n], x)
    /\ \E s \in {"PENDING"} \cup Settled : status' = [status EXCEPT ![n] = s]
    /\ UNCHANGED <<hour, reading, walk, summary>>

HourPasses ==
    /\ hour < LastHour
    /\ hour' = hour + 1
    /\ UNCHANGED <<status, counts, observed, reading, walk, summary>>

-----------------------------------------------------------------------------
(* Lists: query_notifications, and a client that pages through one.        *)

Matching(f) == {n \in f.among : status[n] # "absent" /\ f.status \in {Any, status[n]}}

\* GET /v1/dead-letters is a list whose status is not the caller's to choose.
DeadLetters(among) == [status |-> "DEAD_LETTER", among |-> among]

\* ORDER BY created_at DESC OFFSET offset LIMIT Limit.
Newest(S, offset) ==
    {n \in S : Cardinality({m \in S : m > n}) \in offset..offset + Limit - 1}

StartWalk(f) ==
    /\ reading = "idle"
    /\ reading' = "count"
    /\ walk' = [NoWalk EXCEPT !.filter = f, !.first = Matching(f)]
    /\ UNCHANGED <<world, summary>>

\* Mutant of CountMatching: a clause is missing from count_stmt.
CountMatchingAll ==
    /\ reading = "count"
    /\ reading' = "page"
    /\ walk' = [walk EXCEPT !.total   = Cardinality(Stored),
                            !.counted = Matching(walk.filter)]
    /\ UNCHANGED <<world, summary>>

CountMatching ==
    /\ reading = "count"
    /\ reading' = "page"
    /\ walk' = [walk EXCEPT !.total   = Cardinality(Matching(walk.filter)),
                            !.counted = Matching(walk.filter)]
    /\ UNCHANGED <<world, summary>>

\* Mutant of SelectPage: a clause is missing from base.
SelectPageAll ==
    /\ reading = "page"
    /\ reading' = "listed"
    /\ LET items == Newest(Stored, walk.offset)
       IN  walk' = [walk EXCEPT
              !.items = items,
              !.shown = @ \cup items,
              !.late  = Cardinality(Matching(walk.filter) \ walk.counted)]
    /\ UNCHANGED <<world, summary>>

SelectPage ==
    /\ reading = "page"
    /\ reading' = "listed"
    /\ LET items == Newest(Matching(walk.filter), walk.offset)
       IN  walk' = [walk EXCEPT
              !.items = items,
              !.shown = @ \cup items,
              !.late  = Cardinality(Matching(walk.filter) \ walk.counted)]
    /\ UNCHANGED <<world, summary>>

LastPage == walk.offset + Limit >= walk.total

\* The pager's next button; it is disabled on the last page.
NextPage ==
    /\ reading = "listed"
    /\ ~LastPage
    /\ reading' = "count"
    /\ walk' = [walk EXCEPT !.offset = @ + Limit, !.items = {}]
    /\ UNCHANGED <<world, summary>>

LeaveList ==
    /\ reading = "listed"
    /\ reading' = "idle"
    /\ walk' = NoWalk
    /\ UNCHANGED <<world, summary>>

-----------------------------------------------------------------------------
(* The dashboard's numbers: metrics_summary, statement by statement.       *)

Since(s)   == s.hour - TrendHours + 1
Recent(s)  == {n \in Stored : HourOf[n] >= Since(s)}

StartSummary ==
    /\ reading = "idle"
    /\ reading' = "inflight"
    /\ summary' = [NoSummary EXCEPT !.hour = hour, !.rows = Cardinality(Stored)]
    /\ UNCHANGED <<world, walk>>

Statement(now, next) ==
    /\ reading = now
    /\ reading' = next
    /\ UNCHANGED <<world, walk>>

\* Mutant of SelectInflight: inflight_states leaves IN_FLIGHT out.
SelectInflightPending ==
    /\ Statement("inflight", "dlq")
    /\ summary' = [summary EXCEPT !.inflight = Count(Rows, {"PENDING"})]

SelectInflight ==
    /\ Statement("inflight", "dlq")
    /\ summary' = [summary EXCEPT !.inflight = Count(Rows, Inflight)]

SelectDlqTotal ==
    /\ Statement("dlq", "rate")
    /\ summary' = [summary EXCEPT !.dlqTotal = Count(Rows, {"DEAD_LETTER"})]

SelectRate ==
    /\ Statement("rate", "trend")
    /\ summary' = [summary EXCEPT
          !.ok  = Count(Recent(summary), {"SUCCEEDED"}),
          !.bad = Count(Recent(summary), {"DEAD_LETTER"})]

Bucket(h) ==
    LET S == {n \in Recent(summary) : HourOf[n] = h}
    IN  [ok  |-> Count(S, {"SUCCEEDED"}), bad |-> Count(S, {"DEAD_LETTER"}),
         inflight |-> Count(S, Inflight)]

\* Mutant of SelectTrend: the loop over the buckets stops one hour early.
SelectTrendShort ==
    /\ Statement("trend", "vendors")
    /\ summary' = [summary EXCEPT
          !.trend = [h \in Since(summary)..summary.hour - 1 |-> Bucket(h)]]

\* The rows have no upper limit, the buckets end with the request's hour.
SelectTrend ==
    /\ Statement("trend", "vendors")
    /\ summary' = [summary EXCEPT
          !.trend = [h \in Since(summary)..summary.hour |-> Bucket(h)]]

SelectVendors ==
    /\ Statement("vendors", "answered")
    /\ summary' = [summary EXCEPT
          !.byVendor = [v \in {VendorOf[n] : n \in Stored} |->
              LET S == {n \in Rows : VendorOf[n] = v}
              IN  [succeeded |-> Count(S, {"SUCCEEDED"}), dlq |-> Count(S, {"DEAD_LETTER"})]]]

CloseSummary ==
    /\ reading = "answered"
    /\ reading' = "idle"
    /\ summary' = NoSummary
    /\ UNCHANGED <<world, walk>>

-----------------------------------------------------------------------------
(* estimate_percentile_seconds.  What it is an estimate of: the attempts,  *)
(* retries and successes alike, of every vendor, that the process measured *)
(* since it started; neither the last hours nor a row's last attempt.      *)

Observations == Total(observed, Latencies)

\* Mutant of Merged: the labels' buckets are not added up.
MergedWidest == [i \in DOMAIN Buckets |-> Max({counts[v][i] : v \in Vendors})]

Merged == [i \in DOMAIN Buckets |-> Total([v \in Vendors |-> counts[v][i]], Vendors)]

\* The first bucket that reaches the target, interpolated between its
\* bounds, as a fraction; beyond the last bucket, the last bound.
Estimate ==
    LET reached == {i \in DOMAIN Buckets : Merged[i] * 100 >= Percent * Observations}
        last    == Buckets[Len(Buckets)]
    IN  IF reached = {} THEN [num |-> last, den |-> 1]
        ELSE LET i    == Min(reached)
                 lo   == IF i = 1 THEN 0 ELSE Buckets[i - 1]
                 prev == IF i = 1 THEN 0 ELSE Merged[i - 1]
                 span == (Merged[i] - prev) * 100
             IN  [num |-> lo * span + (Buckets[i] - lo) * (Percent * Observations - prev * 100),
                  den |-> span]

-----------------------------------------------------------------------------
Read ==
    \/ \E f \in Filters : StartWalk(f)
    \/ CountMatching \/ SelectPage \/ NextPage \/ LeaveList
    \/ StartSummary
    \/ SelectInflight \/ SelectDlqTotal \/ SelectRate \/ SelectTrend \/ SelectVendors
    \/ CloseSummary

Next ==
    \/ Read
    \/ \E n \in Rows : Insert(n) \/ Claim(n) \/ Deliver(n)
    \/ HourPasses

Spec == Init /\ [][Next]_vars

-----------------------------------------------------------------------------
\* The columns, the histogram and a request's locals have the code's types.
TypeOK ==
    /\ status \in [Rows -> {"absent"} \cup Inflight \cup Settled]
    /\ hour \in 0..LastHour
    /\ counts \in [Vendors -> [DOMAIN Buckets -> Nat]]
    /\ observed \in [Latencies -> Nat]
    /\ reading \in {"idle", "count", "page", "listed", "inflight", "dlq", "rate",
                    "trend", "vendors", "answered"}
    /\ walk \in [filter : Queries, offset : Nat, total : Nat, late : Nat,
                 items : SUBSET Rows, shown : SUBSET Rows, first : SUBSET Rows,
                 counted : SUBSET Rows]
    /\ walk.items \subseteq walk.shown
    /\ summary \in [hour : 0..hour, rows : Numbers, inflight : Numbers, dlqTotal : Numbers,
                    ok : Numbers, bad : Numbers, trend : Trends, byVendor : Shares]

\* COUNT and the page come from different states of the table.  Under a
\* filter rows never leave, a page is still as full as its total promises:
\* the client that pages by total gets no page cut short.
PageIsFull ==
    reading = "listed" /\ walk.filter.status \in Lasting =>
        LET promised == walk.total - walk.offset
        IN  Cardinality(walk.items) >= IF promised < Limit THEN promised ELSE Limit

\* Offset paging while rows keep coming in at the top: a client that pages
\* to the end has seen every row that matched when it began, except for as
\* many as entered the list between the last COUNT and its page.
WalkMissesNothing ==
    reading = "listed" /\ LastPage /\ walk.filter.status \in Lasting =>
        Cardinality(walk.first \ walk.shown) <= walk.late

\* The dashboard's statements see a table that deliveries keep changing, but
\* they run in the direction rows move in: a row may be counted twice, while
\* none that existed at the start is missing from the in-flight, succeeded
\* and dead-letter numbers together.
NoRowVanishes ==
    reading = "answered" =>
        LET by == summary.byVendor
        IN  summary.rows <= summary.inflight
                + Total([v \in DOMAIN by |-> by[v].succeeded + by[v].dlq], DOMAIN by)

\* What the success rate counts is found in the trend's buckets, also when
\* rows settle in between, unless the hour turned during the request: rows
\* of the new hour are past the last bucket.
TrendCoversRate ==
    reading = "answered" =>
        LET t == summary.trend
            later(s) == Count({n \in Rows : HourOf[n] > summary.hour}, {s})
        IN  /\ summary.ok  <= Total([h \in DOMAIN t |-> t[h].ok], DOMAIN t) + later("SUCCEEDED")
            /\ summary.bad <= Total([h \in DOMAIN t |-> t[h].bad], DOMAIN t) + later("DEAD_LETTER")

\* README.md:135, at most a bucket off: the estimate lies in the bucket of the
\* percentile of the attempts it is taken from (the least latency that Percent
\* of all that were measured, of every vendor, do not exceed); past the last
\* bucket it is that bucket's bound.  This says how well the histogram stands
\* for its observations, not that these are the ones the dashboard names.
PercentileInBucket ==
    Observations > 0 =>
        LET below(x) == Total(observed, {y \in Latencies : y <= x})
            true     == Min({x \in Latencies : below(x) * 100 >= Percent * Observations})
            fits     == {i \in DOMAIN Buckets : true <= Buckets[i]}
            e        == Estimate
        IN  IF fits = {} THEN e.num = Buckets[Len(Buckets)] * e.den
            ELSE LET i == Min(fits)
                     lo == IF i = 1 THEN 0 ELSE Buckets[i - 1]
                 IN  lo * e.den < e.num /\ e.num <= Buckets[i] * e.den
=============================================================================
