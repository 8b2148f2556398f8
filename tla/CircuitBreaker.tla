--------------------------- MODULE CircuitBreaker ---------------------------
(***************************************************************************)
(* The per-vendor circuit breaker of app/delivery/breaker.py, as operators *)
(* on one vendor's record (the code's _VendorState).  Each public method   *)
(* of CircuitBreakerRegistry runs under self._lock, so each operator is    *)
(* one atomic step of whoever calls it.                                    *)
(*                                                                         *)
(* Abstraction of the data: opened_at is kept as "cooldown", the ticks     *)
(* still to go until opened_at + open_duration (0 once it has passed);     *)
(* consecutive_failures stops counting at Threshold, because the code only *)
(* compares it with the threshold.                                         *)
(***************************************************************************)
EXTENDS Integers

CONSTANTS
    Threshold,      \* failure_threshold
    OpenDuration    \* open_duration, in ticks of the clock

ASSUME BreakerAssumption ==
    /\ Threshold \in Nat \ {0}
    /\ OpenDuration \in Nat \ {0}

Breaker ==
    [state    : {"CLOSED", "OPEN", "HALF_OPEN"},
     failures : 0..Threshold,
     cooldown : 0..OpenDuration,
     probe    : BOOLEAN]            \* half_open_in_flight

FreshBreaker ==
    [state |-> "CLOSED", failures |-> 0, cooldown |-> 0, probe |-> FALSE]

\* Mutants of Refresh: an OPEN vendor stays so for ever; or the state is not
\* checked, so that a HALF_OPEN vendor is set up again on every look.
RefreshNever(b) == b

RefreshAgain(b) ==
    IF b.state # "CLOSED" /\ b.cooldown = 0
    THEN [b EXCEPT !.state = "HALF_OPEN", !.probe = FALSE]
    ELSE b

\* _refresh_state: OPEN becomes HALF_OPEN once the cooldown is over.
Refresh(b) ==
    IF b.state = "OPEN" /\ b.cooldown = 0
    THEN [b EXCEPT !.state = "HALF_OPEN", !.probe = FALSE]
    ELSE b

\* Mutant of Allows: half_open_in_flight is not looked at.
AllowsEveryProbe(b) == Refresh(b).state # "OPEN"

\* What allow() answers: everything when CLOSED, one probe when HALF_OPEN.
Allows(b) ==
    LET r == Refresh(b)
    IN  \/ r.state = "CLOSED"
        \/ r.state = "HALF_OPEN" /\ ~r.probe

\* What allow() leaves behind: a HALF_OPEN vendor has its probe out.
AfterAllow(b) ==
    LET r == Refresh(b)
    IN  [r EXCEPT !.probe = (r.state = "HALF_OPEN")]

RecordSuccess(b) == FreshBreaker

Saturate(k) == IF k > Threshold THEN Threshold ELSE k

\* Mutants of RecordFailure: half_open_in_flight is not reset; or a HALF_OPEN
\* vendor is not reopened.
RecordFailureKeepsProbe(b) ==
    LET f     == Saturate(b.failures + 1)
        trips == b.state = "HALF_OPEN" \/ f >= Threshold
    IN  [state    |-> IF trips THEN "OPEN" ELSE b.state,
         failures |-> f,
         cooldown |-> IF trips THEN OpenDuration ELSE b.cooldown,
         probe    |-> b.probe]

RecordFailureInHalfOpen(b) ==
    IF b.state = "HALF_OPEN" THEN b
    ELSE LET f == Saturate(b.failures + 1)
         IN  [state    |-> IF f >= Threshold THEN "OPEN" ELSE b.state,
              failures |-> f,
              cooldown |-> IF f >= Threshold THEN OpenDuration ELSE b.cooldown,
              probe    |-> FALSE]

RecordFailure(b) ==
    LET f     == Saturate(b.failures + 1)
        trips == b.state = "HALF_OPEN" \/ f >= Threshold
    IN  [state    |-> IF trips THEN "OPEN" ELSE b.state,
         failures |-> f,
         cooldown |-> IF trips THEN OpenDuration ELSE b.cooldown,
         probe    |-> FALSE]

\* Mutant of Age: the remaining time is not cut off at zero.
AgeBelowZero(b) == [b EXCEPT !.cooldown = @ - 1]

\* One tick of wall-clock time, seen through opened_at.
Age(b) == [b EXCEPT !.cooldown = IF @ = 0 THEN 0 ELSE @ - 1]

(***************************************************************************)
(* What the record means in each state; preserved by every operator above  *)
(* (proved in DeliveryProofs).                                             *)
(***************************************************************************)
Coherent(b) ==
    /\ b.state = "CLOSED" <=> b.failures < Threshold
    /\ b.probe => b.state = "HALF_OPEN"
    /\ b.state # "OPEN" => b.cooldown = 0
=============================================================================
