# Verification of the notification gateway

This directory holds TLA+ specifications of the notification gateway, the TLC configurations
that check them and TLAPS proofs about them. Paths such as `app/delivery/worker.py` are those of
the repository; `PROJECT.json` maps every definition to the lines it models.

The gateway accepts notifications over HTTP (`POST /v1/notifications`), stores them in one SQLite
table, and a worker in the same process delivers each to its vendor with retries, a backoff, a
circuit breaker per vendor and a dead-letter status. Read routes and a web console show the table.

## 1. The system

### 1.1 Components, their state and how they interact

| component | state | operations | interacts with |
|---|---|---|---|
| intake, `app/api/routes_notifications.py` | none between requests; `notifications_received_total` in memory | validate, key, SELECT, INSERT, SELECT after a conflict | the table; callers that repeat requests |
| worker, `app/delivery/worker.py` | scheduler job, `_tick_lock`, semaphore, HTTP client | `start`, `stop`, `_safe_tick`, `run_once`, `_dispatch_one` | the table, the breaker, the dispatcher |
| dispatcher, `app/delivery/dispatcher.py` | locals of each `dispatch` coroutine, above all `attempts_after` | snapshot, render, HTTP call, classify, breaker, persist | the vendor, the breaker, the table |
| breaker, `app/delivery/breaker.py` | per vendor: state, failures, `opened_at`, `half_open_in_flight`; in memory only | `allow`, `record_success`, `record_failure`, `state_of`, `state_with_cooldown` | worker, dispatcher, providers view |
| backoff, classifier, renderer | none | pure functions | dispatcher |
| provider registry, settings | read once at start-up | `load_providers`, `get`, `has` | intake, dispatcher, providers view |
| database, `app/core/db.py`, `app/models/notification.py` | the `notifications` table, unique index on `idempotency_key` | `session_scope`: commit or roll back | everything |
| listing, dead letters, `app/api/_listing.py`, `routes_dlq.py` | none | COUNT and page | the table |
| metrics, `app/core/metrics.py`, `routes_metrics.py` | counters, gauge, histogram in memory | `inc`, `set`, `observe`, percentile; the dashboard's five statements | dispatcher, intake, the table |
| providers view, `routes_providers.py` | none, but refreshes the breakers | `list_providers` | registry, breaker, the table |
| assembly, `app/main.py`; health; logging | process life cycle | `lifespan` | registry, database, worker |
| console, `web/app`, `web/lib` | filters in the URL, query cache, wizard state, open sheet, expanded rows, countdown | list, filter, page, inspect, preview, submit, poll | the API, or the in-memory mock of it |
| mock vendor, `tools/mock_provider.py` | none | answers a chosen status | dispatcher |

One asyncio event loop runs the intake handler, the tick and all deliveries of a process; control
changes hands only at an `await`. The synchronous GET routes run in threadpool threads at any
moment. The deployment runs one process (`fly.toml`, `README.md`), but the old and the new
release overlap, and the code has a compare-and-set and a unique index to survive that, so the
models of the intake and the workers allow several processes.

### 1.2 What is hard about it

- A claim is committed before the request it is for: crashes, stops and failed writes fall between.
- The breaker is told of an outcome before the outcome is stored, and of a claim before the claim
  is committed; the table rolls back, the breaker does not.
- `attempts` is read before the HTTP call and written after it.
- Answers come in any order, also long after the breaker has changed its state.
- Ticks, polls and other processes see the table between the statements of a claim loop.
- Callers repeat requests whose answer they did not hear, maybe at another process.
- Backoff, cooldown, LIMIT, semaphore and the attempt limit meet at boundaries.
- A read route's statements each see another state of the table, and pages are cut from a moving list.
- The console shows cached rows, rows of an earlier query and answers to requests nobody waits for; it
  counts a cooldown down by its own clock and renders templates by code of its own.

`PROJECT.json` lists each of these under `hazards`, at its line, with the properties aimed at it.

### 1.3 What makes each component correct

- Intake: a 202 always names a committed row of the caller's key; one row and one id per key; a row
  is announced as new once at most, and always unless a crash comes in between; different content is not merged by the fallback key; a caller that
  retries is served.
- Worker and dispatcher: one process delivers a row at a time; a settled row is final; attempts and
  requests are accounted for; after a 2xx that is stored, or that a dying process takes with it, nothing is
  sent again unless the database fails; every row is settled in the end.
- Breaker: its four fields agree in every state; an OPEN vendor gets nothing and a HALF_OPEN one a
  single probe; every probe comes to a verdict.
- Listing: a page is as full as its total promises, and a client that pages to the end misses nothing
  that was there when it began.
- Metrics: no row falls between the dashboard's statements; the percentile lies in the right bucket.
- Console: what is on screen answers the URL; an accepted notification is listed; the answer is that of
  what was confirmed; loading ends; a row on screen does not contradict itself, and a dead letter stays;
  the time shown for an OPEN breaker is there and does not run out early, up to the rounding of the
  dashboard; what is previewed is what is sent.
- Together: of the submissions of one key, one is delivered, and a caller that keeps retrying is
  answered with a row that comes to a verdict.

## 2. The modules

| module | what it is |
|---|---|
| `Policy` | classifier and backoff as pure operators |
| `CircuitBreaker` | the breaker of one vendor as pure operators on a record |
| `Delivery` | the table, the processes, ticks, deliveries, faults, crashes; uses the two above |
| `Outbox` | abstract: what the delivery workers promise about the table |
| `MCDelivery` | row names, vendors and backoff tables of the checked instances |
| `DeliveryProofs` | theorems about `Policy`, `Delivery` and its breakers |
| `Intake` | `submit_notification` statement by statement, with callers and processes |
| `IdempotentStore` | abstract: one atomic look-up-or-store |
| `MCIntake` | the submissions of the checked instances |
| `IntakeProofs` | theorems about `Intake` |
| `Gateway` | composition: `Intake` and `Delivery` in the same processes, over one table |
| `MCGateway` | two submissions of one key |
| `GatewayProofs` | theorems about `Gateway`, from those of its two halves |
| `ReadApi` | lists, dashboard numbers and percentile, statement by statement, while the table changes |
| `MCReadApi` | three rows over two hours |
| `ReadProofs` | theorems about `ReadApi` |
| `QueryCache` | an entry of the console's query cache (the external library, as the console configures it) |
| `Console` | pages, URL, wizard, requests and timers of one browser tab, over `QueryCache` |
| `MCConsole` | the rows the console starts with |
| `ConsoleProofs` | theorems about `Console` and the operators of `QueryCache` |
| `ProviderHealth` | a vendor's breaker, from its record to badge and countdown, over `CircuitBreaker` and `QueryCache` |
| `HealthProofs` | theorems about `ProviderHealth` |
| `RowDetails` | a row's columns and their copies: answers, list, sheet, expanded dead letters, over `QueryCache` |
| `RowProofs` | theorems about `RowDetails` |
| `Preview` | a body as the console previews it and as the gateway sends it |
| `PreviewProofs` | theorems about `Preview` |

### 2.1 Delivery and CircuitBreaker

Variables `status`, `attempts`, `wait` are columns of the table (`wait` is `next_retry_at` minus
now); `proc`, `tick`, `rows`, `claimed`, `task`, `reply`, `snap`, `breaker` are the memory of a process.
`calls` and `accepted` are history, read by properties only.

| action | code |
|---|---|
| `Submit` | the INSERT of the intake |
| `TickSelect` | `_safe_tick` takes the lock, `run_once` SELECTs the due rows, oldest first, LIMIT |
| `ClaimRow` | one turn of the claim loop: `allow`, then UPDATE ... WHERE status = PENDING |
| `ClaimCommit` | the commit; `gather` starts one `_dispatch_one` per claimed row |
| `DispatchBegin` | semaphore, `_claim_snapshot`, render, up to the await of the request |
| `DispatchUndeliverable` | unknown vendor or render error: dead letter at once, breaker told |
| `RequestEnds` | `_do_http`: answer, timeout or error arrives and is classified (`reply`); nothing is stored yet |
| `DispatchEnd` | `dispatch` resumes: decide, breaker, persist, gauge |
| `TickDone` | `gather` returns, lock released |
| `ClaimFails`, `SnapshotFails`, `PersistFails` | database errors, with the put back of `_dispatch_one`, which may fail too |
| `Crash`, `Stop`, `DispatchClosed`, `Exit`, `Start` | the process dies; `lifespan` shutdown, deliveries that find the HTTP client closed, cancellation; start-up |
| `PollProvider` | `GET /v1/providers` refreshes a breaker |
| `Clock` | time passes: `wait` and cooldowns count down |

What stands between two awaits is one action, because no other coroutine of the process runs there. The
end of the await is an action of its own (`RequestEnds`): other coroutines, and the end of the process, may
come between the vendor's answer and its record.
The claim loop is split by row, because other processes and threads do see it.

Abstractions:

- Time is relative and counts ticks; lateness is tracked to `MaxOverdue`; the failure count is
  saturated at the threshold, above which the code does not tell values apart. `Clock` stands still
  during a claim loop, which awaits nothing and takes milliseconds.
- An answer is one of the four verdicts of `Policy` (`ok`, `rejected`, `throttled`, `failed`), which
  translates `classify_response` and `classify_exception`; a delay is any of `RetryDelays`, which
  translates `base_delay_seconds` and `compute_next_retry_at`: the table's entry, the jitter of a
  fifth either way as a choice of ticks, at least the 429 minimum when throttled. The table and the
  minimum are parameters.
- The order in which queued deliveries get the semaphore is left open (asyncio's is first come).
- A process waiting for SQLite's write lock is an action not enabled (`MayWrite`); giving up after
  the driver's busy timeout is a `Fault`.
- `Stop` models `shutdown` and `aclose` as one step; what a delivery meets after it (closed client,
  or `None` and the assertion) is `DispatchClosed`'s choice.
- Texts stored with a row, counters and the gauge are left out.
- `ProviderOf`, `Registered` and `BadPayload` stand for providers.yaml and the templates. Rows of a
  vendor that has left the file may already be in the table at `Init`.

### 2.2 Intake

A process handles one request at a time, since the handler awaits nothing; `step` says which of
its statements comes next. `Send`, `GiveUpWaiting` are the callers; `Refuse`, `LookupHit`,
`LookupMiss`, `LookupFails`, `Insert`, `Accept`, `InsertConflict`, `InsertFails`, `Reselect`,
`ReselectFails` are the branches of `submit_notification`, in its order; `Crash` includes the restart.
`Insert` ends with the commit and `Accept` is the return: a crash may come between them, and other
processes do. The 409 of
the code is in `Reselect`; it is unreachable, because rows are never deleted.

Abstractions: the digest of the fallback key is injective and header keys do not imitate its
`auto_` form; the row status repeated to a duplicate is left out; the framework's validation of the
body (422) happens before the handler.

### 2.3 Gateway

`Gateway` instantiates `Delivery` and `Intake` with the same processes. A row is called after the
submission that stored it, so `Intake`'s table (keys) and `Delivery`'s columns (progress) describe the
same rows: `TypeOK` says so, and it is proved. What the composition adds:

- Handler and worker share an event loop. `submit_notification` is a coroutine that awaits nothing,
  and neither does the claim loop: in one process they exclude each other (`HandlerMayRun`,
  `WorkerMayRun`), in two they interleave. A request that has arrived but not begun may wait while the
  worker runs.
- `Insert` is the INSERT of both halves at once and needs SQLite's write lock (`D!MayWrite`). A process
  waiting for it waits as a whole, because the driver blocks the loop.
- `Crash` ends the worker and the requests; `Stop` waits for the requests first, as the server does
  before it runs the end of `lifespan`; `Exit` and `Start` follow. `PollProvider` runs in a thread.
- All kinds of trouble share the bound `MaxTroubles`.

### 2.4 ReadApi

The synchronous GET routes run beside everything else, and pysqlite opens no transaction for a SELECT,
so each statement is an action on the table of its moment.

| action | code |
|---|---|
| `CountMatching`, `SelectPage` | the two statements of `query_notifications`; `DeadLetters` is the filter of `routes_dlq.py` |
| `StartWalk`, `NextPage`, `LeaveList` | a client that pages by `total`, as the console's pager does |
| `SelectInflight`, `SelectDlqTotal`, `SelectRate`, `SelectTrend`, `SelectVendors` | the statements of `metrics_summary`, in its order |
| `Observe`, `Merged`, `Estimate` | `Histogram.observe` and `estimate_percentile_seconds`; fractions, no rounding |
| `Insert`, `Claim`, `Deliver`, `HourPasses` | what the rest of the gateway does to the table, the histogram and the clock |

A row is its place in `created_at` order, and may be committed later than a younger one. Timestamps are
distinct. A filter is a status and the set of rows whose other columns match, since those never change.

### 2.5 Console and QueryCache

`QueryCache` is one entry of react-query with the options of `components/providers.tsx` and
`lib/hooks.ts`: data, a fetch under way, one retry, staleness, invalidation. `Console` keeps an entry per
query key, the page shown with its local state, requests under way and timers.

| action | code |
|---|---|
| `Open`, `Redirect` | sidebar and links; the timer after a submission, which nothing clears |
| `ChangeFilter`, `ClearFilters`, `PrevPage`, `NextPage`, `Rendered` | filter bar and pager write the URL in a transition, which is rendered later |
| `SelectVendor` | the dead-letter list's choice, local state |
| `View`, `Data`, `Retry` | what a page shows (rows of the previous query stand in), its retry and refresh buttons |
| `Choose`, `Edit`, `TypeKey`, `Forward`, `Back`, `Submit` | the wizard |
| `StorePost`, `Accepted`, `Refused` | a submission at the server, its answer, its error or loss |
| `Served`, `Received`, `Failed`, `Polled` | a GET at the server, its answer, its failure, the refetch interval |

`server` says whether `lib/api/index.ts` chose the gateway or the mock; the mock's rule for duplicates
and its lack of failures are part of the model. Staleness by time is a choice whenever a query is used.

### 2.6 ProviderHealth

One vendor's record (`breaker`), the cached answer of `GET /v1/providers`, the page, and the countdown of
`CooldownLine` (`line`), which is React state of the card: `Mounted` takes the first answer's seconds and
keeps them until the card is gone or says no time.

| action | code |
|---|---|
| `Succeeded`, `HasFailed`, `Allow` | what deliveries and the claim loop do to the record |
| `Clock` | a second passes at the gateway, and the browser's interval may fire |
| `Polled`, `Served`, `Received`, `Failed` | `useProviders` every 30 s; `list_providers`, which refreshes the breaker; its answer or failure |
| `CountDown` | the callback of `setInterval` |
| `Open` | another route; every page uses the query, those without cards included |
| `ProviderCard`, `MatrixCard`, `BreakerBadge` as `Shown` | what the two pages display |

`Minutes` is the dashboard's `Math.round(seconds / 60)`. A tick is a second. Gateway and browser count seconds out of phase, and the browser's callback may be late
or skipped, which is how background tabs behave. `opened` numbers the openings, as history, so that a property
can say which cooldown a time belongs to. Success rates and configuration on the card are left out.

### 2.7 RowDetails

| action | code |
|---|---|
| `Insert`, `Claim`, `Succeeded`, `DeadLettered`, `Retried`, `PutBack` | the columns that intake, claim, `_persist_*` and `_dispatch_one` write |
| `MockTables`, `NewRow` | the rows `lib/api/mock.ts` makes up and stores |
| `Counted`, `Served`, `Received`, `Failed` | the gateway's COUNT and, in a step of its own, its page of copies (`Answer`; the mock takes both at once), received in any order, or lost |
| `Show`, `SelectVendor`, `Refresh` | navigation, the dead-letter page's vendor, refresh and retry |
| `OpenSheet`, `CloseSheet`, `Meta` | the sheet keeps the row that was clicked, whatever the list does |
| `Toggle`, `IsOpen`, `RowKey` | expanded dead letters, known by their id |

An outcome is one step here, because `Delivery` has its detail. A text column is only there or not. An id is
the row's place in the table, so `created_at` is distinct. The list page's URL and pager are in `Console`.
Of the mock, its rows start as one of any vendor, status and attempts and do not move.
The gateway never clears `next_retry_at`, so the sheet still shows a time of next retry for a settled row;
no document says otherwise.

### 2.8 Preview

`PreviewBody` is `renderTemplate`, `JinjaBody` the environment of `delivery/renderer.py` (StrictUndefined,
tojson). Both follow a path through a payload of nested objects; they differ where Python's and JavaScript's
rules do: attributes of a dict come before its keys, `null` is printed or refused, an undefined value has no
attribute. `Choose`, `Edit`, `Submit` are the wizard, `Restart` is a gateway started with another
providers.yaml, `Dispatch` the rendering of a delivery. Templates have the two forms that `lib/template.ts`
knows; JSON is compared as JSON, so white space and escapes are left out.

### 2.9 Abstract specifications

`Outbox` knows rows, tries and holders: accept, take, settle (one try), give up, disappear. `Delivery`
implements it with `state <- status`, `tries <- attempts`, `holders <- Holders`. It is honest about
what the code leaves open: a holder may leave a row in flight for good.

`IdempotentStore` stores or repeats in one step and never answers 409. The row it stored is owed to the
submission that made it (`owed`): it is told so once, or never (`Forget`). `Intake` implements it with the
same table and answers and `owed <- Owed`, the rows whose commit is not yet answered. An error that asks for
a retry is 503 or 500: see the differences in section 3.

`Gateway` implements both of its halves (`ImplementsDelivery`, `ImplementsIntake`) and through them both
abstractions; this is proved, not run.

## 3. The runs

| run | instance | properties |
|---|---|---|
| `delivery` | 1 process, 3 rows of 2 vendors, 2 attempts, batches of 2, 2 slots, threshold 2, 1 crash or stop, no database errors, fairness | `ClaimGated`, `ProbeAlive`, `NoOrphan`, `AcceptedIsFinal`, `ClaimOnlyDue`, `OneProbePerEpisode`, `SettledOrOrphaned`, `ProbeResolves` |
| `delivery_shared` | 2 processes; a good row, one that cannot be rendered, one of a removed vendor; 1 slot; 1 database error, 1 crash or stop | `TypeOK`, `RetryBudget`, `OneDispatcher`, `TerminalStable`, `ImplementsOutbox` |
| `intake_safety` | 2 processes; a submission without a header, its repetition, one that differs in the vendor only, one for an unknown vendor; 1 database error, 1 lost answer, 1 crash | `OneIdPerKey`, `FreshOnce`, `HeaderlessKeepsContent`, `ImplementsStore` |
| `gateway` | 2 processes with intake and worker; 2 submissions with one header key and different payloads; 2 attempts; 1 trouble (database error, lost answer, crash or stop), fairness | `TypeOK`, `OneDeliveryPerKey`, `AnsweredIsDelivered` |
| `reads` | 3 rows of 2 vendors over 2 hours, pages of one row, a list of some rows and the dead letters, 3 latencies in 2 buckets | `TypeOK`, `PageIsFull`, `WalkMissesNothing`, `NoRowVanishes`, `TrendCoversRate`, `PercentileInBucket` |
| `console` | both lists and the wizard, gateway and mock, 1 vendor, 2 payloads, pages of one row, 1 row stored before and 2 submissions, 2 failed requests, 2 clicks, fairness | `TypeOK`, `ShownAnswersUrl`, `AcceptedIsListed`, `AnsweredIsConfirmed`, `LoadingEnds` |
| `provider_health` | threshold 1, cooldown 4 s, minutes of 3 s, dashboard, provider page and a page without cards, 3 outcomes, 2 failed requests, 2 clicks, fairness | `TypeOK`, `OpenHasCountdown`, `CountdownNotEarly`, `BadgeCatchesUp` |
| `row_details` | gateway and mock, 2 rows of 1 vendor, pages of one row, 2 attempts, 2 failed requests, 2 clicks | `TypeOK`, `ShownRowAgrees`, `DeadLettersStay` |
| `preview` | templates of one expression over 2 field names, one also a dict method; payloads of two levels; 1 change of template | `MissingIsShown`, `PreviewIsSent` |

What is proved for all constants and would only repeat a neighbour in a run is left to the proofs:
`ClaimIsolated`, `SnapshotFresh`, `BreakerCoherent`, `AnswerNamesRow`, `ReceivedBounded`,
`ConfirmedCanBeSent` and the type invariant of `Intake`.

Each property has a mutant: a plausible bug in one mapped definition (an operator defined beside
the original) under which the run finds the property violated.

Bounds.

- Delivery. Three rows, two of one vendor, are the smallest set in which a vendor has a probe and a
  straggler while another vendor goes on. With threshold 2 the first attempts of two rows trip the breaker,
  and the second attempt of one is its probe; a batch of two is full of rows of the open vendor, so LIMIT
  bites, and in `delivery_shared` one slot makes deliveries wait for the semaphore. The jitter is a choice
  of ticks around the entries of a table of one or two.
  A row's conflict involves two processes, so two suffice for a stale SELECT. One database error covers
  a failed write together with a failed put back. `MaxOverdue` keeps lateness finite.
- Intake. Two processes and two submissions of a key make the race of the unique index; a third and a
  fourth differ in the vendor, or are refused. `intake_safety` uses the symmetry of processes.
- Gateway. Header keys, crash and retry at the other process are checked here, with one trouble of any
  kind: it can fall between the commit of a row and its answer (`Insert`, `Accept`), the claim and the
  request (`ClaimCommit`, `DispatchBegin`), or the answer of the vendor and its record (`RequestEnds`,
  `DispatchEnd`).
- Reads. Pages of one row give a walk three pages with a row entering at each; one row of three is of
  the second hour, which may begin during a request; the largest latency is beyond the last bucket.
- Console. Two clicks leave a page and come back, or set a filter and page on; the redirect of a submission
  comes on top. One failed request makes a retry, two an error on screen. Two payloads and two submissions let one
  be lost or refused, another be edited and sent, and answers of both come in any order; the table grows
  from one row to three, with pages of one. `MaxEffort` bounds clicks, submissions and failures together
  (a failure or a submission weighs two of five): both submissions with a click, or two failures with a
  click, not everything at once. A second vendor and searches are left to the proofs.
- Provider health. Three outcomes open the breaker, close or re-open it and come late; a cooldown of four
  seconds against minutes of three (`Minute`) is rounded down from 4 and up from 2, reads as 0 minutes at 1, and lets
  answers grow old; two clicks leave the cards and come back to a cached answer.
- Rows. Two attempts let a row be retried and settled. A page of one row makes the second dead letter push
  the first off, also between a COUNT and its page. The vendor chosen or all of them, and the list, give three
  queries whose answers overtake each other; two failures make an error on screen. A second vendor, which
  would add rows a query does not ask for, is left to the proofs.
- Preview. Each expression is rendered by itself and a body fails with any of them (`Body`), so one
  expression suffices. Paths have one step or two (`MaxPath`), so one can go through an object, past its end or past
  a scalar.

Deadlock checking is off, because every instance ends: all rows settled and time no longer told apart,
all callers answered, or an operator out of clicks. The live runs use no symmetry.

Three further runs show where the program differs from what its documents say. Each is a finding in
`PROJECT.json`:

| run | what TLC finds |
|---|---|
| `lost_in_flight` (`EventuallySettled`) | after a crash a claimed row stays IN_FLIGHT for ever: nothing selects such rows again, although delivery is specified as at least once |
| `probe_lost` (`ProbeResolves`) | the claim's commit fails after `allow` has marked the probe: the vendor stays HALF_OPEN, every later `allow` answers False, its rows wait for ever |
| `filters_lost` (`FiltersAreKept`) | the filter bar reports the changed field only and the page writes all three: choosing a vendor deletes the search from the URL |

More differences are in the models as the code has them, without a run of their own. `RecordSuccess`
closes an OPEN breaker at once when a delivery started earlier succeeds, although `breaker.py:4` names the
cooldown as the way out. `Mounted` keeps the countdown's first value when the cooldown starts again while the
card stays OPEN, although `admin-console/spec.md:110` wants the remaining time. The dead-letter page asks
for 50 rows and has no pager (`Limit`), although `admin-console/spec.md:86` wants all of them listed.

A database error in either SELECT of the intake is the framework's 500 (`LookupFails`, `ReselectFails`), although `notification-intake/spec.md:52-55` asks for 503
whenever the database fails; callers are assumed to retry both.

`p95_latency_ms` is estimated from all attempts
this process has measured, failed and repeated ones included, although `console-read-api/spec.md:63,77-80`
defines it over the `last_elapsed_ms` of rows settled in the last 24 hours and `web/app/page.tsx:80` labels it
"without retries"; `PercentileInBucket` says how well the estimate stands for the attempts it is taken from
(`README.md:135` of the repository), and nothing of which they should be.

The dashboard rounds the remaining time
to minutes (`Minutes`), so an OPEN vendor may show almost half a minute too little, and 0 minutes for its last 29 seconds.

`ProbeResolves` is violated by `probe_lost` and holds in `delivery`, which allows crashes and
stops but no database error: with one process that error is the only way to lose a probe (with two, so
does a compare-and-set that finds the row taken). In the same way `SettledOrOrphaned` holds where `EventuallySettled` does not; together with `NoOrphan` it is
`EventuallySettled` for a process that neither stops nor meets a database error. `AnsweredIsDelivered`
says the same of the whole path, from the caller's first request, with `Lost` naming both exceptions.
`AcceptedIsListed` has two exceptions (`raced`), in which `invalidateQueries` starts no new fetch and the answer
of the one under way, maybe read before the submission, clears the mark: the list was being fetched off screen
when the acceptance arrived, or it was on screen and this was its first fetch. Then the accepted row is missing
until the list is fetched for another reason. `WalkMissesNothing` allows as many rows to be missed as entered the
list between the client's last COUNT and its page. `AcceptedIsFinal` leaves a row IN_FLIGHT after a 2xx whose
process ended before the outcome was stored, which is the case of `lost_in_flight`. `FreshOnce` allows one
row per crash of which nobody is told that it is new.

### 3.1 Fairness

- `WF(Work(w))`: APScheduler fires the tick on its interval and the event loop runs what is ready.
  It includes the end of every request. httpx limits each phase (connect, read, write, pool) but
  not the whole, so a vendor that trickles its answer is assumed away.
- `WF(Exit(w))`, `WF(Start(w))`: shutdown ends, the supervisor starts the process again.
- `SF(Clock)`: time passes; strong, because `Clock` is disabled during claim loops.
- Gateway: the same, with `WF(Handle(w))` for a handler that runs to its end and `WF` of each caller's
  `Send`, the retry the documents ask of callers. `[]<>` of no process claiming: claim loops take
  milliseconds of a tick's second, so those of two processes do not overlap for ever and time passes.
  Nothing is assumed of faults, lost answers or crashes.
- Console: `WF` of the query on screen being answered or failing (requests end), and `WF(Rendered)` (a
  transition is rendered). Nothing is assumed of the operator.
- Provider health: `WF(Polled)` (the browser polls while the page is open and in the foreground) and
  `WF(Served \/ Received)` (requests end). Nothing is assumed of the breaker, of deliveries or of time.

## 4. The proofs

For every value of the constants that satisfies the assumption its module names (`DeliveryAssumption`,
`PolicyAssumption`, `BreakerAssumption`, `IntakeAssumption`, `GatewayAssumption`, `ReadAssumption`,
`ConsoleAssumption`, `HealthAssumption`, `RowAssumption`, `PreviewAssumption`): rows and latencies finite, vendors registered among those
known, positive limits, a backoff table of positive entries, buckets that rise, `NoJob` no submission and
`NoData` no value of an answer, `Error` no rendered
body. Rows, vendors, processes, faults, clicks and submissions have no bound.

`DeliveryProofs` begins with `Policy`: `RetryWaits`, a retry waits at least one tick, within the jitter of
its entry and not less than the 429 minimum; `DelaysGrow`, where the table's entries grow by half, the
longest wait after one attempt is no longer than the shortest after a later one. The lemmas about the types
of verdicts and delays are cited by what follows.

Of `Delivery`:

- `TypeCorrect`, `OneDispatcherCorrect`, `ClaimIsolatedCorrect`, `SnapshotFreshCorrect` rest on
  `CoreInvariant`: `TypeOK /\ Hands` is inductive. `OneDispatcher` alone is not: a second claim is
  excluded only because uncommitted claims are exclusive and their rows still PENDING
  (`ClaimIsolated`), snapshots are fresh and unsettled rows have attempts left (`AttemptsInRange`),
  and a delivery exists only while its tick is "dispatching", which keeps `ClaimCommit` from
  overwriting it. All actions that end a delivery have one of two shapes, settled or given up;
  `OutcomeSettles`, `PutBackGivesUp` and their kin bring each action into that shape and
  `EndKeepsHands` treats them together.
- `RetryBudgetCorrect`, `AcceptedIsFinalCorrect`, `NoOrphanCorrect` rest on `Accounts`: requests are
  bounded by attempts, errors and the one open request (`Uncounted` says which rows have one), and a
  process is stopping only after a counted restart, which `NoOrphan` needs. `RequestKeepsAccounts` is the
  answer that has come and is not stored yet: from there a row can only succeed, or be orphaned with its
  process, unless the database fails.
- `TerminalStableCorrect` is an action property from the same invariant.
- `BreakerCoherentCorrect` needs only types: each breaker operator preserves `Coherent`.
- `DeliveryImplementsOutbox`: every step, faults and crashes included, maps to a step of `Outbox` or
  a stutter.

Of the breaker in use and the claim loop it gates, from the same invariants:

- `OneProbePerEpisodeCorrect`: `RecordsMove` lists what a step may do to one vendor's record (`Moved`),
  and `ProbeKept` shows that each forgets a probe only by leaving HALF_OPEN.
- `ClaimGatedCorrect`: inductive beside `Hands`, which says that a process with an open claim has no
  delivery whose answer could change the breaker; a poll changes OPEN vendors only, and those have no
  claimed row.
- `ClaimOnlyDueCorrect`, `ProbeAliveCorrect`, both for one process: `LoopOnDue` (what the loop has read
  or claimed is still due) and `Vacant` (a process that is not there has no probe out) are what makes
  them inductive. With two processes neither holds: a row retried between the other's SELECT and UPDATE
  may be claimed early, and a probe may lose its row to the other process. Without the database error
  excluded, `ProbeAlive` is what `probe_lost` refutes.

`IntakeProofs`:

- `Handlers` (types; after a conflict the key is known; past the validation the verdict is 202;
  `StoredKnown`, a handler between commit and answer holds the id of a row of its own, and no two the same)
  is inductive and shows every step of `Intake` to be one of `IdempotentStore` or a stutter
  (`StoreStep`), hence `IntakeImplementsStore`. `Insert` is `Store`, `Accept` is `Announce`, and a crash in
  between is `Forget`.
- `StoreInv` (rows carry the key of their submission, one row per key, `AnswerNamesRow`, `OnlyMaker` of
  "new", no row owed that has been announced) is proved inductive under the steps of the abstract store
  only; the refinement carries it down. `OneIdPerKeyCorrect`, `AnswerNamesRowCorrect` and
  `HeaderlessKeepsContentCorrect` follow.
- `FreshOnceCorrect` needs one thing more, that rows neither announced nor owed are at most as many as
  there were crashes (`UnheardInvariant`), because only a crash makes one (`UnheardStep`).
- `ReceivedBoundedCorrect` is inductive beside `Handlers`. `TypeCorrect` needs no strengthening.

`GatewayProofs` reuse all of this instead of proving it again:

- `GatewayImplementsIntake` and `GatewayImplementsDelivery`: every step of the composition is a step of
  each half or leaves it unchanged, so `D!TypeCorrect`, `I!OneIdPerKeyCorrect` and the others hold of it.
- `OneTable` (the rows of `Intake`'s table are those with a status in `Delivery`, and only they were ever
  sent) is what neither half can say; it is inductive given `Halves`, the invariants taken from them.
- `GatewayImplementsStore` and `GatewayImplementsOutbox`: the two abstract specifications hold of the whole.
- `TypeCorrect` follows, and `OneDeliveryPerKeyCorrect` from `OneTable` and `OneIdPerKey`.
- `AnsweredHasOneRowCorrect` goes from a caller's answer to the vendor: a 202 stands for one stored row of the
  caller's key, the only one of the key that is ever sent, at most `MaxAttempts` times and once more per
  database error (`AnswerNamesRow`, `OneTable`, `RetryBudget`).
- `SettledIsSentNoMoreCorrect` (action property): once that row is settled, nothing of its key is sent again
  (`TerminalStable`, `OneTable`). These two are stated in `GatewayProofs` and by no run.

`ReadProofs`, lists: `TypeOK /\ WalkInv /\ PageIsFull /\ WalkMissesNothing` is inductive.

- `WalkInv`: for a filter rows do not leave (`Lasting`), the rows COUNT found and those the walk began with
  are still listed, and each of the latter that was not shown yet stands at or below the walk's offset.
  `PageIsFull` and `WalkMissesNothing` (but for what entered after the last COUNT) follow when the page is read, by counting: a set of ranks from
  an offset on has as many members as the list has rows beyond it.
- Inserts on top push rows down, and one committed late among older rows does not move those above it, so
  no step takes a row out of what is still to come (`WalkUndisturbed`, `StaysListed`, `RankGrows`).
- `TypeCorrect` includes that the dashboard's numbers do not exceed the rows there are.

`ReadProofs`, numbers:

- They are sums over sets (`Total`). The library's induction over finite sets takes an operator as parameter,
  which the provers cannot instantiate, so what is needed of sums is proved by a least counterexample: the
  subset order is well-founded (`LeastSubset`), and a least subset on which two functions with the defining
  equation of the sum differ, or none exists, is contradictory (`SumsUnique`, `SumsExist`). `TotalRemove`,
  `TotalSubset`, `TotalMonotone`, `TotalIncrement` follow, and `CountedByKind`: numbers that cover the rows
  of each vendor or hour cover all of them together.
- `NoRowVanishesCorrect` and `TrendCoversRateCorrect` rest on `SummaryInvariant`, which says of each
  statement of a request what the numbers read so far still cover. Rows go from PENDING and IN_FLIGHT to settled
  and never back, so a row one statement missed is found by a later one (`SummaryUndisturbed`); `CoversRate`
  allows for the rows of an hour that begins in between.
- `PercentileInBucketCorrect` rests on `HistogramInvariant` (a merged bucket counts the observations that fit
  in it). The bucket in which the code stops is the first whose count reaches the target, hence the bucket of
  the true percentile (`BucketsReachingFit`), and the interpolation stays within it (`Interpolation`),
  because a bucket that is the first to reach the target is not empty.

`ConsoleProofs`, for the gateway and the mock:

- `ShownAnswersUrlCorrect`, `AcceptedIsListedCorrect` rest on `CacheSound`: every entry, and every answer on
  its way, is about its own key, and the ones of a list that count as current know of every accepted row,
  unless `raced`. `Tended` adds that the query on screen is being fetched as long as there is reason to;
  without it stale rows could stay on screen. The operators of `QueryCache` are treated by lemmas of
  their own (`ObserveSound`, `ReceiveSound` and their kin), so that navigation, polling, retry and
  invalidation are cases of them.
- `ConfirmedCanBeSentCorrect` rests on `Formed`, what the wizard's steps have established.
- `AnsweredIsConfirmedCorrect` (action property) rests on `Waiting` (the wizard on screen waits for at most
  one submission and holds what was sent with it) and `StoredAsSent` (without a key, the row of a
  submission has its content).
- `TypeCorrect` needs `page = "dead" => url \in DeadUrls`, and that no pager leads past the table.

`HealthProofs`, for any threshold and cooldown:

- `Covers`: an answer, cached or on its way, has at least the time left that the cooldown it is about has,
  and one that says OPEN names a time. The second is the refresh before the reading; the first survives
  time passing, because only the gateway's time decreases.
- `LineCovers` says the same of the countdown after the callback that is due (`LeftSoon`): without that
  the invariant is not inductive, because the callback may follow the gateway's second or come before it.
- `CountdownNotEarlyCorrect` follows with `OnlyOpenHasTime` and, for the dashboard, `MinutesRound` (rounding
  takes off less than half a minute); `OpenHasCountdownCorrect` with `CardComplete` (a card of an OPEN vendor
  has its countdown mounted).

`RowProofs`, for any vendors, limit of a page and length of the table:

- `Kept`: a row agrees with itself and has attempts left while it is unsettled; `Copied`: so do all copies
  in answers, and every copy of a dead letter equals its row, which is never written again.
- `ShownRowAgreesCorrect` follows, with the sheet's row remembered from the list.
- `DeadLettersStayCorrect` (action property): between what is cached and what is coming, `NoOlder` holds. It
  is established when an answer is served, from `Held`, from `Bounded` (what was counted for a request lies
  between the total on screen and the dead letters there are now, whatever came in since the COUNT), and
  from `NewestFillPage`: a page of the newest rows of a set is full whenever it leaves one out. (The newest
  row left out has only rows of the page above it; that there is one is `Largest`, from the library's
  well-founded order of the subsets of a finite set.)

`PreviewProofs`, for any fields, kinds of values, length of paths and of templates, and payloads of objects
in objects:

- `PathsAgree`: along a path without dict methods the console and Jinja find the same value or both none
  (`Agree`), by the first step at which they would not (`FirstStep`). `PiecesAgree` and `BodiesAgree` carry it
  to expressions and bodies: where one of them fails, and what differs in print only.
- `Inv`: what was sent was rendered from the stored row, which is the payload on screen, by the template the
  registry had then. `MissingIsShownCorrect` and `PreviewIsSentCorrect` follow.
- `Error \notin Pieces \cup Seq(Pieces)` is needed, since a failed rendering must not look like a body.

Only model-checked are the five liveness properties (`SettledOrOrphaned`, `ProbeResolves`,
`AnsweredIsDelivered`, `LoadingEnds`, `BadgeCatchesUp`): fairness and ENABLED are out of the prover's reach. Every
invariant and every action property of a passing run, the two refinements included, is a theorem.

## 5. What is not modelled

- Jinja syntax beyond the two forms of section 2.8, headers and environment variables of a request, the texts
  stored with a row; parsing of providers.yaml and settings (a file that does not load is a process that
  does not start).
- Counters other than `notifications_received_total`, the breaker gauge, the text exposition of
  `/metrics`, the series of `GET /v1/providers`: written and shown, never read by the gateway.
- Rows of equal `created_at`, whose order SQLite chooses.
- In the console: the status filter (`ReadApi` has the rows that move between statuses), animations, metric
  cards and charts, the mock's metrics and providers (constants and random numbers), layout and the vendored
  components under `web/components/ui`: they show what they are given.
- The dashboard, the provider page and the wizard stay skeletons when their first request fails:
  `HomeView` and `ProvidersView` model it, and `LoadingEnds` is therefore stated of the two lists.
- Power failure with `synchronous=NORMAL`, which may undo commits: the crash modelled is that of the
  process.
- The browser's own ways through the console: back and forward (`router.back()` of the wizard among them) and
  links that carry filters; `Open` is the sidebar and the links of the pages, which carry none.
- Requests that react-query pauses while the browser is offline: that one on screen ends is assumed.
- Wall-clock lengths: how long a tick lasts while a slow vendor answers.
- Health, logging, CORS, container files: no behaviour to check.

## 6. Plan

1. `CircuitBreaker`, `Policy`, `Delivery`, `Outbox`, their runs and proofs. Done.
2. `Intake`, `IdempotentStore`, their runs and proofs. Done.
3. `Gateway`: the composition, its run and the proof that it implements both halves. Done.
4. `ReadApi`: lists, dashboard numbers, percentile. Done.
5. `Console` over `QueryCache`. Done.
6. `ConsoleProofs`, `ReadProofs`, the theorems about the breaker in use. Done.
7. `ProviderHealth`, `RowDetails`, `Preview`, their runs and proofs. Done.
8. The dashboard's sums and the percentile for all constants; the abstract specifications, and what a 202 stands
   for, in the whole gateway. Done.
9. Still worth having: the status filter in the console, over rows that move, with the offset left behind; the
   sampled rates of `GET /v1/providers`; payloads of any depth in `Preview`.

Delivery comes first because everything the gateway promises depends on it; intake second because
its promise is what callers see; the composition joins them; readers follow, since they change nothing
but breakers.
