------------------------------- MODULE Outbox -------------------------------
(***************************************************************************)
(* What the delivery workers promise about the notifications table, with   *)
(* no ticks, breakers, timers or transactions: a row is taken by at most   *)
(* one holder at a time, only its holder changes it, each settlement       *)
(* counts one try, and a settled row is never touched again.               *)
(*                                                                         *)
(* The promise is honest about what the code leaves open: a holder may     *)
(* give a row up without settling it and without making it pending again.  *)
(***************************************************************************)
EXTENDS Naturals

CONSTANTS Notifications, Workers, MaxAttempts

VARIABLES
    state,      \* the status column; "absent" before the row exists
    tries,      \* the attempts column
    holders     \* the workers delivering the row

outbox == <<state, tries, holders>>

Init ==
    /\ state \in [Notifications -> {"absent", "PENDING"}]
    /\ tries = [n \in Notifications |-> 0]
    /\ holders = [n \in Notifications |-> {}]

\* A caller's notification is stored.
Accept(n) ==
    /\ state[n] = "absent"
    /\ state' = [state EXCEPT ![n] = "PENDING"]
    /\ UNCHANGED <<tries, holders>>

\* w takes a set of pending rows at once.
Take(w, S) ==
    /\ \A n \in S : state[n] = "PENDING" /\ holders[n] = {}
    /\ state'   = [n \in Notifications |-> IF n \in S THEN "IN_FLIGHT" ELSE state[n]]
    /\ holders' = [n \in Notifications |-> IF n \in S THEN {w} ELSE holders[n]]
    /\ UNCHANGED tries

\* The only holder counts a try and gives its verdict; there is a next try
\* only below MaxAttempts.
Settle(w, n) ==
    /\ state[n] = "IN_FLIGHT"
    /\ holders[n] = {w}
    /\ tries' = [tries EXCEPT ![n] = @ + 1]
    /\ \E verdict \in {"PENDING", "SUCCEEDED", "DEAD_LETTER"} :
          /\ verdict = "PENDING" => tries[n] + 1 < MaxAttempts
          /\ state' = [state EXCEPT ![n] = verdict]
    /\ holders' = [holders EXCEPT ![n] = {}]

\* The holder gives the row up uncounted, pending again or left in flight.
GiveUp(w, n) ==
    /\ state[n] = "IN_FLIGHT"
    /\ holders[n] = {w}
    /\ \E left \in {"PENDING", "IN_FLIGHT"} : state' = [state EXCEPT ![n] = left]
    /\ holders' = [holders EXCEPT ![n] = {}]
    /\ UNCHANGED tries

\* A worker disappears: what it held stays in flight with no holder.
Disappear(w) ==
    /\ holders' = [n \in Notifications |-> holders[n] \ {w}]
    /\ UNCHANGED <<state, tries>>

Next ==
    \/ \E n \in Notifications : Accept(n)
    \/ \E w \in Workers :
          \/ \E S \in SUBSET Notifications : Take(w, S)
          \/ Disappear(w)
          \/ \E n \in Notifications : Settle(w, n) \/ GiveUp(w, n)

Spec == Init /\ [][Next]_outbox
=============================================================================
