------------------------------ MODULE Gateway ------------------------------
(***************************************************************************)
(* The gateway as app/main.py assembles it: in every process the intake    *)
(* route (Intake) and the delivery worker (Delivery) share one event loop, *)
(* and all processes share one table of notifications.                     *)
(*                                                                         *)
(* A row is called after the submission that stored it: Intake's table     *)
(* names its key, Delivery's columns its progress.  Neither coroutine      *)
(* awaits between the statements of a handler or of a claim loop, so in    *)
(* one process these exclude each other; in two they interleave, except    *)
(* that SQLite lets one of them write at a time.  A process waiting for    *)
(* the write lock runs nothing else, since the driver's call blocks its    *)
(* event loop.                                                             *)
(***************************************************************************)
EXTENDS Integers, Sequences, FiniteSets

CONSTANTS
    Submissions, Workers,
    \* Intake
    Header, Payload, Oversized, NoHeader, NoJob,
    \* Both: the provider of a submission, and so of its row
    Providers, ProviderOf, Registered,
    \* Delivery
    BadPayload, MaxAttempts, BatchSize, MaxConcurrency,
    Threshold, OpenDuration, BackoffTable, RateLimitDelay, MaxOverdue,
    MaxTroubles     \* bound: database errors, callers that stop waiting,
                    \* crashes and stops, taken together

ASSUME GatewayAssumption ==
    /\ IsFiniteSet(Submissions) /\ NoJob \notin Submissions
    /\ ProviderOf \in [Submissions -> Providers]
    /\ Registered \subseteq Providers
    /\ BadPayload \subseteq Submissions
    /\ MaxAttempts \in Nat \ {0}
    /\ BatchSize \in Nat \ {0} /\ MaxConcurrency \in Nat \ {0}
    /\ Threshold \in Nat \ {0} /\ OpenDuration \in Nat \ {0}
    /\ BackoffTable \in Seq(Nat \ {0}) /\ BackoffTable # <<>>
    /\ RateLimitDelay \in Nat
    /\ MaxOverdue \in Nat /\ MaxTroubles \in Nat

VARIABLES
    table, job, step, newId, listening, received, acknowledged, answers, settled,
    status, attempts, wait, proc, tick, rows, claimed, task, reply, snap, breaker,
    calls, accepted,
    faults, intakeFaults, timeouts, restarts,
    ended       \* processes that crashed or exited, which ends their requests

\* The two halves, with what is proved of them.
D == INSTANCE DeliveryProofs WITH
         Notifications <- Submissions,
         MaxFaults <- MaxTroubles, MaxRestarts <- MaxTroubles
I == INSTANCE IntakeProofs WITH
         Processes <- Workers, Provider <- ProviderOf,
         faults <- intakeFaults, restarts <- ended,
         MaxFaults <- MaxTroubles, MaxTimeouts <- MaxTroubles, MaxRestarts <- MaxTroubles

intake   == <<table, job, step, newId, listening, received, acknowledged, answers,
              settled, intakeFaults, timeouts, ended>>
delivery == <<status, attempts, wait, proc, tick, rows, claimed, task, reply, snap,
              breaker, calls, accepted, faults, restarts>>
vars     == <<intake, delivery>>

Stored  == {table[i].from : i \in DOMAIN table}
Trouble == faults + intakeFaults + timeouts + restarts < MaxTroubles

\* init_db finds or creates an empty table.
Init ==
    /\ I!Init
    /\ D!Init
    /\ status = [n \in Submissions |-> "absent"]

-----------------------------------------------------------------------------
(* Callers.                                                                *)

Send(c, w) ==
    /\ proc[w] = "up"
    /\ I!Send(c, w)
    /\ UNCHANGED delivery

GiveUpWaiting(c) ==
    /\ Trouble
    /\ I!GiveUpWaiting(c)
    /\ UNCHANGED delivery

-----------------------------------------------------------------------------
(* The handler and the worker in one event loop.                           *)

\* A handler that has begun runs to its end, as far as this loop goes.
WorkerMayRun(w)  == step[w] \in {"idle", "validate"}
HandlerMayRun(w) == proc[w] = "up" /\ tick[w] # "claiming"

\* The statements that need the write lock; the INSERT makes the row due.
Insert(w) ==
    /\ HandlerMayRun(w)
    /\ D!MayWrite(w)
    /\ I!Insert(w)
    /\ D!Submit(job[w])

InsertConflict(w) ==
    /\ HandlerMayRun(w)
    /\ D!MayWrite(w)
    /\ I!InsertConflict(w)
    /\ UNCHANGED delivery

\* The others read, or answer from what was read.
Answer(w) ==
    /\ HandlerMayRun(w)
    /\ \/ I!Refuse(w) \/ I!LookupHit(w) \/ I!LookupMiss(w) \/ I!Accept(w)
       \/ I!Reselect(w)
    /\ UNCHANGED delivery

AnswerFails(w) ==
    /\ HandlerMayRun(w)
    /\ Trouble
    /\ I!LookupFails(w) \/ I!InsertFails(w) \/ I!ReselectFails(w)
    /\ UNCHANGED delivery

Handle(w) == Insert(w) \/ InsertConflict(w) \/ Answer(w) \/ AnswerFails(w)

Work(w) ==
    /\ WorkerMayRun(w)
    /\ D!Work(w)
    /\ UNCHANGED intake

WorkFails(w) ==
    /\ WorkerMayRun(w)
    /\ Trouble
    /\ \/ D!ClaimFails(w)
       \/ \E n \in Submissions : D!SnapshotFails(w, n) \/ D!PersistFails(w, n)
    /\ UNCHANGED intake

DispatchClosed(w) ==
    /\ \E n \in Submissions : D!DispatchClosed(w, n)
    /\ UNCHANGED intake

\* The read route runs in a thread of its own.
PollProvider(w) ==
    /\ \E p \in Providers : D!PollProvider(w, p)
    /\ UNCHANGED intake

-----------------------------------------------------------------------------
(* The life of a process: main.py lifespan.                                *)

Crash(w) == Trouble /\ D!Crash(w) /\ I!Crash(w)

\* The server lets requests finish before lifespan stops the worker.
Stop(w) ==
    /\ Trouble
    /\ job[w] = NoJob
    /\ D!Stop(w)
    /\ UNCHANGED intake

Exit(w)  == D!Exit(w) /\ I!Crash(w)
Start(w) == D!Start(w) /\ UNCHANGED intake
Clock    == D!Clock /\ UNCHANGED intake

Next ==
    \/ Clock
    \/ \E c \in Submissions : GiveUpWaiting(c) \/ \E w \in Workers : Send(c, w)
    \/ \E w \in Workers :
          \/ Handle(w) \/ Work(w) \/ WorkFails(w) \/ DispatchClosed(w) \/ PollProvider(w)
          \/ Crash(w) \/ Stop(w) \/ Exit(w) \/ Start(w)

Spec == Init /\ [][Next]_vars

\* As in Delivery, with callers that keep retrying until they have a final
\* answer, as the documents ask of them: what is ready in an event loop runs,
\* requests end, time passes, a stopped process is started again.  Claim
\* loops take milliseconds of a tick's second, so those of two processes do
\* not overlap for ever.
Fairness ==
    /\ []<>(\A w \in Workers : tick[w] # "claiming")
    /\ SF_vars(Clock)
    /\ \A w \in Workers :
          WF_vars(Handle(w)) /\ WF_vars(Work(w)) /\ WF_vars(Exit(w)) /\ WF_vars(Start(w))
    /\ \A c \in Submissions : WF_vars(\E w \in Workers : Send(c, w))

FairSpec == Spec /\ Fairness

-----------------------------------------------------------------------------
\* Both halves keep their types, and they speak of the same rows.
TypeOK ==
    /\ D!TypeOK
    /\ I!TypeOK
    /\ Stored = {n \in Submissions : status[n] # "absent"}

\* Whatever callers repeat, wherever and through whichever process, the
\* vendor only ever hears of one of the submissions of a key.  (Of that one
\* no more often than Delivery's RetryBudget allows.)
OneDeliveryPerKey ==
    \A c, d \in Submissions :
        calls[c] > 0 /\ calls[d] > 0 /\ I!Key(c) = I!Key(d) => c = d

\* What may keep an accepted row from its verdict: it was in flight in a
\* process that stopped or crashed, or every process has lost the probe of
\* its vendor, to a database error or because the row it was to try had been
\* claimed by another process (allow() comes before the compare-and-set).
Lost(n) ==
    \/ D!Orphaned(n)
    \/ \A w \in Workers :
          /\ breaker[w][ProviderOf[n]].probe
          /\ \A m \in Submissions : m \notin claimed[w] /\ task[w][m] = "none"

\* End to end: a caller that keeps retrying a valid submission gets its 202,
\* through errors, lost answers and crashes, and the row it is answered with
\* is delivered or dead-lettered in the end or Lost.
AnsweredIsDelivered ==
    <>(\A c \in Submissions : I!Verdict(c) = 202 =>
          /\ settled[c]
          /\ \E n \in Stored : /\ I!Key(n) = I!Key(c)
                               /\ status[n] \in D!Terminal \/ Lost(n))

\* Each half behaves in the composition as it does alone, so what holds of
\* Delivery and of Intake holds of the gateway.
ImplementsDelivery == D!Spec
ImplementsIntake   == I!Spec
=============================================================================
