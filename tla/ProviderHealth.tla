--------------------------- MODULE ProviderHealth ---------------------------
(***************************************************************************)
(* What operators see of one vendor's circuit breaker: state_with_cooldown *)
(* through GET /v1/providers, the query that every page of the console     *)
(* polls, the badge and the remaining time on the dashboard's matrix and   *)
(* on the vendor's card, and the card's countdown, which the browser runs  *)
(* by itself between answers.                                              *)
(*                                                                         *)
(* A tick is one second.  Gateway and browser count seconds out of phase,  *)
(* and a timer may fire late or not at all in a second (a tab in the       *)
(* background).  The success rates and what a card says of the vendor's    *)
(* configuration are left out: no step depends on them.                    *)
(***************************************************************************)
EXTENDS CircuitBreaker, QueryCache

CONSTANTS
    Minute,         \* 60: the seconds of a minute on the dashboard
    Pages,          \* the routes opened; "home" and "providers" show cards
    MaxOutcomes,    \* bound: verdicts on deliveries
    MaxFailures,    \* bound: failed requests of the console
    MaxClicks       \* bound: pages opened

\* An answer to GET /v1/providers about the vendor; opened is history: the
\* outcome that opened the breaker last.
Answers ==
    [state    : {"CLOSED", "OPEN", "HALF_OPEN"},
     cooldown : 0..OpenDuration,    \* breakerCooldownSeconds; 0: null
     opened   : 0..MaxOutcomes]

\* CooldownLine's useState, and the opening it counts down from.
Line == [left : 0..OpenDuration, opened : 0..MaxOutcomes]

ASSUME HealthAssumption ==
    /\ Minute \in Nat \ {0}
    /\ MaxOutcomes \in Nat
    /\ NoData \notin Answers \cup Line \cup Nat

VARIABLES
    breaker,    \* the gateway's record of the vendor
    outcomes,   \* verdicts so far
    opened,     \* history: the one that opened the breaker last, or 0
    cache,      \* the console's entry of ["providers"]
    page,       \* the route shown
    line,       \* the countdown on screen, or NoData
    due,        \* its interval has a callback to run
    clicks, failures

gateway == <<breaker, outcomes, opened>>
screen  == <<page, line, due>>
bounds  == <<clicks, failures>>
vars    == <<gateway, cache, screen, bounds>>

Init ==
    /\ breaker  = FreshBreaker
    /\ outcomes = 0
    /\ opened   = 0
    /\ page     \in Pages
    /\ cache    = Observe(NewEntry, FALSE)
    /\ line     = NoData
    /\ due      = FALSE
    /\ clicks   = 0
    /\ failures = 0

-----------------------------------------------------------------------------
(* The gateway: deliveries that end, the claim loop, time.                 *)

\* A delivery ends, maybe one that began before the breaker opened.
Succeeded ==
    /\ outcomes < MaxOutcomes
    /\ outcomes' = outcomes + 1
    /\ breaker'  = RecordSuccess(breaker)
    /\ UNCHANGED <<opened, cache, screen, bounds>>

HasFailed ==
    /\ outcomes < MaxOutcomes
    /\ outcomes' = outcomes + 1
    /\ breaker'  = RecordFailure(breaker)
    /\ opened'   = IF breaker'.state = "OPEN" THEN outcomes' ELSE opened
    /\ UNCHANGED <<cache, screen, bounds>>

Allow ==
    /\ breaker' = AfterAllow(breaker)
    /\ UNCHANGED <<outcomes, opened, cache, screen, bounds>>

Clock ==
    /\ breaker' = Age(breaker)
    /\ due'     = (line # NoData)
    /\ UNCHANGED <<outcomes, opened, cache, page, line, bounds>>

\* Mutants of Reading: the state is read before it is refreshed; or the
\* remaining seconds are rounded down.
ReadingUnrefreshed(b) ==
    [state |-> b.state, cooldown |-> b.cooldown, opened |-> opened]

ReadingFloor(b) ==
    LET r == Refresh(b)
    IN  [state    |-> r.state,
         cooldown |-> IF r.state = "OPEN" /\ r.cooldown > 1 THEN r.cooldown - 1 ELSE r.cooldown,
         opened   |-> opened]

\* state_with_cooldown: the remaining seconds are rounded up.
Reading(b) ==
    LET r == Refresh(b)
    IN  [state    |-> r.state,
         cooldown |-> IF r.state = "OPEN" THEN r.cooldown ELSE 0,
         opened   |-> opened]

-----------------------------------------------------------------------------
(* The console.                                                            *)

\* Whether a card says how long the vendor stays open.
SaysTime(d) == d # NoData /\ d.state = "OPEN" /\ d.cooldown # 0

\* The countdown after the card is rendered with answer d: useState takes its
\* initial value from the first answer and keeps it as long as it is mounted.
Mounted(p, d, l) ==
    IF p # "providers" \/ ~SaysTime(d) THEN NoData
    ELSE IF l # NoData THEN l
    ELSE [left |-> d.cooldown, opened |-> d.opened]

\* Every page uses the query, so a page opened starts it again if it is idle;
\* until the answer comes, the old one is shown.
Open(p) ==
    /\ clicks < MaxClicks
    /\ clicks' = clicks + 1
    /\ p # page
    /\ page'  = p
    /\ cache' = Observe(cache, FALSE)
    /\ line'  = Mounted(p, cache.data, NoData)
    /\ due'   = FALSE
    /\ UNCHANGED <<gateway, failures>>

\* Mutant of Polled: there is no next time after an error.
PolledUnlessFailed ==
    /\ cache.fetch = "idle" /\ cache.status # "error"
    /\ cache' = StartFetch(cache)
    /\ UNCHANGED <<gateway, screen, bounds>>

\* refetchInterval, 30 s.
Polled ==
    /\ cache.fetch = "idle"
    /\ cache' = StartFetch(cache)
    /\ UNCHANGED <<gateway, screen, bounds>>

\* list_providers at the gateway refreshes the breaker it reads.
Served ==
    /\ cache.fetch = "asked"
    /\ breaker' = Refresh(breaker)
    /\ cache'   = Serve(cache, Reading(breaker))
    /\ UNCHANGED <<outcomes, opened, screen, bounds>>

Received ==
    /\ cache.fetch = "served"
    /\ cache' = Receive(cache, FALSE)
    /\ line'  = Mounted(page, cache.coming, line)
    /\ due'   = (due /\ line' # NoData)
    /\ UNCHANGED <<gateway, page, bounds>>

Failed ==
    /\ cache.fetch # "idle"
    /\ failures < MaxFailures
    /\ failures' = failures + 1
    /\ cache'    = Fail(cache, TRUE)
    /\ UNCHANGED <<gateway, screen, clicks>>

\* Mutant of CountDown: it does not stop at zero.
CountDownBelowZero ==
    /\ due
    /\ line' = [line EXCEPT !.left = @ - 1]
    /\ due'  = FALSE
    /\ UNCHANGED <<gateway, cache, page, bounds>>

\* CooldownLine's interval.
CountDown ==
    /\ due
    /\ line' = [line EXCEPT !.left = IF @ > 0 THEN @ - 1 ELSE 0]
    /\ due'  = FALSE
    /\ UNCHANGED <<gateway, cache, page, bounds>>

-----------------------------------------------------------------------------
(* What is on screen.                                                      *)

\* providers/page.tsx: accent and badge of the answer, the countdown's time.
ProviderCard(d) ==
    [badge  |-> d.state,
     left   |-> IF line = NoData THEN NoData ELSE line.left,
     opened |-> IF line = NoData THEN d.opened ELSE line.opened]

\* Math.round(seconds / 60): half a minute is rounded up, less than that down.
Minutes(seconds) == (2 * seconds + Minute) \div (2 * Minute)

\* provider-matrix.tsx: the answer's time, in minutes.
MatrixCard(d) ==
    [badge  |-> d.state,
     left   |-> IF SaysTime(d) THEN Minutes(d.cooldown) ELSE NoData,
     opened |-> d.opened]

Shown ==
    IF cache.data = NoData \/ page \notin {"home", "providers"} THEN NoData
    ELSE IF page = "providers" THEN ProviderCard(cache.data)
    ELSE MatrixCard(cache.data)

-----------------------------------------------------------------------------
Next ==
    \/ Succeeded \/ HasFailed \/ Allow \/ Clock
    \/ \E p \in Pages : Open(p)
    \/ Polled \/ Served \/ Received \/ Failed \/ CountDown

Spec == Init /\ [][Next]_vars

\* The browser keeps polling, and requests end.
FairSpec == Spec /\ WF_vars(Polled) /\ WF_vars(Served \/ Received)

-----------------------------------------------------------------------------
\* Breaker, cache and countdown hold values of their types; an interval only
\* runs while there is a countdown.
TypeOK ==
    /\ breaker \in Breaker
    /\ outcomes \in 0..MaxOutcomes /\ opened \in 0..outcomes
    /\ cache \in Entry(Answers)
    /\ page \in Pages
    /\ line \in Line \cup {NoData}
    /\ due \in BOOLEAN /\ (due => line # NoData)

\* A vendor shown as OPEN is never without the time it stays so: neither the
\* boundary of the cooldown, at which the gateway refreshes the state before
\* it computes the time, nor a change of pages leaves a bare badge (or the
\* bare number 0, which is what the expression in the page would render).
OpenHasCountdown ==
    Shown # NoData /\ Shown.badge = "OPEN" => Shown.left # NoData

\* However long the answer took, however old the cached one was that the page
\* was opened with, and however late the browser's timer fires: the seconds on
\* a vendor's card do not run out before the cooldown they are about, and the
\* minutes on the dashboard, which are rounded, fall short of it by half a
\* minute at most (so that "0 minutes" may still be 29 seconds).
CountdownNotEarly ==
    Shown # NoData /\ Shown.left # NoData /\ Shown.opened = opened
        => IF page = "providers"
           THEN Shown.left >= breaker.cooldown
           ELSE 2 * Minute * Shown.left + Minute > 2 * breaker.cooldown

\* A page of cards that stays open comes to show the state the breaker is in,
\* also after requests have failed.
BadgeCatchesUp ==
    <>[](page \in {"home", "providers"})
        => <>[](Shown # NoData /\ Shown.badge = Refresh(breaker).state)
=============================================================================
