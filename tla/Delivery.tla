------------------------------ MODULE Delivery ------------------------------
(***************************************************************************)
(* The delivery half of the gateway: app/delivery/worker.py (the tick),    *)
(* app/delivery/dispatcher.py (one delivery) and the circuit breaker they  *)
(* both use, working on the notifications table.                           *)
(*                                                                         *)
(* A worker is one gateway process: one asyncio event loop, one breaker    *)
(* registry in memory, one scheduler job.  The table is shared by every    *)
(* worker and survives their crashes.  Inside a process, control changes   *)
(* hands only where a coroutine awaits (the semaphore and the HTTP call),  *)
(* so everything between two awaits is one action; the claim loop, whose   *)
(* statements other processes and the threadpool's read routes do see, is  *)
(* one action per row.                                                     *)
(*                                                                         *)
(* Time is relative: wait[n] is next_retry_at minus now, counted down by   *)
(* Clock to -MaxOverdue, below which rows are no longer told apart.        *)
(***************************************************************************)
EXTENDS Integers, Sequences, FiniteSets, CircuitBreaker, Policy

CONSTANTS
    Notifications,      \* primary keys of the notifications table
    Providers,          \* vendor names that occur in rows
    Workers,            \* gateway processes
    ProviderOf,         \* the provider column of each row
    Registered,         \* vendors in this deployment's providers.yaml
    BadPayload,         \* rows whose body template cannot be rendered
    MaxAttempts,        \* max_retry_attempts
    BatchSize,          \* worker_batch_size
    MaxConcurrency,     \* worker_max_concurrency
    MaxOverdue,         \* bound: how far a row's lateness is tracked
    MaxFaults,          \* bound: database errors in a behaviour
    MaxRestarts         \* bound: crashes and stops in a behaviour

ASSUME DeliveryAssumption ==
    /\ IsFiniteSet(Notifications)
    /\ ProviderOf \in [Notifications -> Providers]
    /\ Registered \subseteq Providers
    /\ BadPayload \subseteq Notifications
    /\ MaxAttempts \in Nat \ {0}
    /\ BatchSize \in Nat \ {0}
    /\ MaxConcurrency \in Nat \ {0}
    /\ MaxOverdue \in Nat
    /\ MaxFaults \in Nat
    /\ MaxRestarts \in Nat

VARIABLES
    \* The notifications table (committed columns).
    status,     \* "absent" until the row is inserted
    attempts,
    wait,       \* next_retry_at - now; meaningful while PENDING
    \* One process.
    proc,       \* "up", "stopping" (lifespan shutdown begun) or "down"
    tick,       \* where run_once is: "idle", "claiming" or "dispatching"
    rows,       \* result rows of the SELECT not yet visited by the claim loop
    claimed,    \* rows updated in the claim loop's open transaction
    task,       \* _dispatch_one per row: "none", "queued" (on the semaphore)
                \* or "sending" (in dispatch, from the HTTP call on)
    reply,      \* what a "sending" task's request came back with, or "none"
    snap,       \* attempts_after, the local of dispatch()
    breaker,    \* the process's breaker record per vendor
    \* History, read by properties only.
    calls,      \* HTTP requests made for a row
    accepted,   \* a 2xx of the vendor reached the process
    \* Bounds of the environment.
    faults, restarts

table   == <<status, attempts, wait>>
process == <<proc, tick, rows, claimed, task, reply, snap, breaker>>
history == <<calls, accepted>>
vars    == <<table, process, history, faults, restarts>>

Statuses == {"absent", "PENDING", "IN_FLIGHT", "SUCCEEDED", "DEAD_LETTER"}
Terminal == {"SUCCEEDED", "DEAD_LETTER"}

Lesser(x, y)  == IF x < y THEN x ELSE y

\* Mutant of Due: the next_retry_at filter is missing.
DueAnyTime == {n \in Notifications : status[n] = "PENDING"}

Due          == {n \in Notifications : status[n] = "PENDING" /\ wait[n] <= 0}
Sending(w)   == {n \in Notifications : task[w][n] = "sending"}
FreeSlot(w)  == Cardinality(Sending(w)) < MaxConcurrency
Undeliverable(n) == ProviderOf[n] \notin Registered \/ n \in BadPayload

\* SQLite admits one writing transaction: w may write unless another
\* process's claim loop holds uncommitted updates.
MayWrite(w) == \A v \in Workers \ {w} : claimed[v] = {}

-----------------------------------------------------------------------------
(* Rows of a vendor that has left providers.yaml were accepted under an    *)
(* earlier configuration and may already be waiting in the table.          *)

Init ==
    /\ \E old \in SUBSET {n \in Notifications : ProviderOf[n] \notin Registered} :
          status = [n \in Notifications |-> IF n \in old THEN "PENDING" ELSE "absent"]
    /\ attempts = [n \in Notifications |-> 0]
    /\ wait     = [n \in Notifications |-> 0]
    /\ proc     = [w \in Workers |-> "up"]
    /\ tick     = [w \in Workers |-> "idle"]
    /\ rows     = [w \in Workers |-> <<>>]
    /\ claimed  = [w \in Workers |-> {}]
    /\ task     = [w \in Workers |-> [n \in Notifications |-> "none"]]
    /\ reply    = [w \in Workers |-> [n \in Notifications |-> "none"]]
    /\ snap     = [w \in Workers |-> [n \in Notifications |-> 0]]
    /\ breaker  = [w \in Workers |-> [p \in Providers |-> FreshBreaker]]
    /\ calls    = [n \in Notifications |-> 0]
    /\ accepted = [n \in Notifications |-> FALSE]
    /\ faults   = 0
    /\ restarts = 0

\* POST /v1/notifications stores a new row, due at once.
Submit(n) ==
    /\ \E w \in Workers : proc[w] = "up" /\ tick[w] # "claiming" /\ MayWrite(w)
    /\ ProviderOf[n] \in Registered
    /\ status[n] = "absent"
    /\ status' = [status EXCEPT ![n] = "PENDING"]
    /\ wait'   = [wait EXCEPT ![n] = 0]
    /\ UNCHANGED <<attempts, process, history, faults, restarts>>

-----------------------------------------------------------------------------
(* The tick: worker.py run_once under _tick_lock.                          *)

\* Results the SELECT may return: the due rows in next_retry_at order (ties
\* in any order), cut at LIMIT before any breaker is looked at.
DueBatches ==
    LET k == Lesser(BatchSize, Cardinality(Due))
    IN  {s \in [1..k -> Due] :
           /\ \A i, j \in 1..k : i < j => s[i] # s[j] /\ wait[s[i]] <= wait[s[j]]
           /\ \A i \in 1..k, n \in Due :
                 (\A j \in 1..k : s[j] # n) => wait[s[i]] <= wait[n]}

TickSelect(w) ==
    /\ proc[w] = "up"
    /\ tick[w] = "idle"
    /\ Due # {}                     \* an empty result ends the tick at once
    /\ \E s \in DueBatches : rows' = [rows EXCEPT ![w] = s]
    /\ tick' = [tick EXCEPT ![w] = "claiming"]
    /\ UNCHANGED <<table, proc, claimed, task, reply, snap, breaker, history, faults, restarts>>

\* Mutant of ClaimRow: the UPDATE does not check that the row is PENDING.
ClaimRowUnchecked(w) ==
    /\ tick[w] = "claiming"
    /\ rows[w] # <<>>
    /\ LET n == Head(rows[w])
           p == ProviderOf[n]
       IN  /\ Allows(breaker[w][p]) => MayWrite(w)
           /\ breaker' = [breaker EXCEPT ![w][p] =
                             IF Allows(@) THEN AfterAllow(@) ELSE Refresh(@)]
           /\ claimed' = [claimed EXCEPT ![w] =
                             IF Allows(breaker[w][p]) THEN @ \cup {n} ELSE @]
    /\ rows' = [rows EXCEPT ![w] = Tail(@)]
    /\ UNCHANGED <<table, proc, tick, task, reply, snap, history, faults, restarts>>

\* One iteration of the claim loop: ask the breaker, then compare-and-set
\* PENDING to IN_FLIGHT; the update stays invisible until the commit.
ClaimRow(w) ==
    /\ tick[w] = "claiming"
    /\ rows[w] # <<>>
    /\ LET n == Head(rows[w])
           p == ProviderOf[n]
       IN  /\ Allows(breaker[w][p]) => MayWrite(w)
           /\ breaker' = [breaker EXCEPT ![w][p] =
                             IF Allows(@) THEN AfterAllow(@) ELSE Refresh(@)]
           /\ claimed' = [claimed EXCEPT ![w] =
                             IF Allows(breaker[w][p]) /\ status[n] = "PENDING"
                             THEN @ \cup {n} ELSE @]
    /\ rows' = [rows EXCEPT ![w] = Tail(@)]
    /\ UNCHANGED <<table, proc, tick, task, reply, snap, history, faults, restarts>>

\* session_scope commits; gather starts one _dispatch_one per claimed row.
ClaimCommit(w) ==
    /\ tick[w] = "claiming"
    /\ rows[w] = <<>>
    /\ status'  = [n \in Notifications |->
                      IF n \in claimed[w] THEN "IN_FLIGHT" ELSE status[n]]
    /\ task'    = [task EXCEPT ![w] = [n \in Notifications |->
                      IF n \in claimed[w] THEN "queued" ELSE "none"]]
    /\ tick'    = [tick EXCEPT ![w] = IF claimed[w] = {} THEN "idle" ELSE "dispatching"]
    /\ claimed' = [claimed EXCEPT ![w] = {}]
    /\ UNCHANGED <<attempts, wait, proc, rows, reply, snap, breaker, history, faults, restarts>>

\* gather returns once every _dispatch_one has; _tick_lock is released.
TickDone(w) ==
    /\ tick[w] = "dispatching"
    /\ \A n \in Notifications : task[w][n] = "none"
    /\ tick' = [tick EXCEPT ![w] = "idle"]
    /\ UNCHANGED <<table, proc, rows, claimed, task, reply, snap, breaker, history, faults, restarts>>

-----------------------------------------------------------------------------
(* One delivery: dispatcher.py dispatch.                                   *)

\* Mutants of Decide: the attempt limit is looked at before the answer, or
\* with > instead of >=.
DecideLimitFirst(result, k) ==
    IF result = "rejected" \/ k >= MaxAttempts THEN "DEAD_LETTER"
    ELSE IF result = "ok" THEN "SUCCEEDED"
    ELSE "RETRY"

DecideOneMore(result, k) ==
    IF result = "ok" THEN "SUCCEEDED"
    ELSE IF result = "rejected" \/ k > MaxAttempts THEN "DEAD_LETTER"
    ELSE "RETRY"

\* _decide_terminal
Decide(result, k) ==
    IF result = "ok" THEN "SUCCEEDED"
    ELSE IF result = "rejected" \/ k >= MaxAttempts THEN "DEAD_LETTER"
    ELSE "RETRY"

Recorded(b, final) ==
    IF final = "SUCCEEDED" THEN RecordSuccess(b) ELSE RecordFailure(b)

\* Mutant of Persist: a retry is scheduled without making the row PENDING.
PersistRetryInFlight(n, k, final, result) ==
    /\ attempts' = [attempts EXCEPT ![n] = k]
    /\ IF final = "RETRY"
       THEN /\ status' = status
            /\ \E d \in RetryDelays(k, result) : wait' = [wait EXCEPT ![n] = d]
       ELSE /\ status' = [status EXCEPT ![n] = final]
            /\ wait' = wait

\* _persist_success, _persist_dead_letter, _persist_retry: the row is
\* overwritten without looking at its status.
Persist(n, k, final, result) ==
    /\ attempts' = [attempts EXCEPT ![n] = k]
    /\ IF final = "RETRY"
       THEN /\ status' = [status EXCEPT ![n] = "PENDING"]
            /\ \E d \in RetryDelays(k, result) : wait' = [wait EXCEPT ![n] = d]
       ELSE /\ status' = [status EXCEPT ![n] = final]
            /\ wait' = wait

EndTask(w, n) ==
    /\ task'  = [task EXCEPT ![w][n] = "none"]
    /\ reply' = [reply EXCEPT ![w][n] = "none"]
    /\ snap'  = [snap EXCEPT ![w][n] = 0]

\* _apply_outcome: the breaker first, then the row, then state_of (which
\* refreshes the breaker) for the gauge.
ApplyOutcome(w, n, k, result) ==
    LET final == Decide(result, k)
    IN  /\ breaker' = [breaker EXCEPT ![w][ProviderOf[n]] = Refresh(Recorded(@, final))]
        /\ Persist(n, k, final, result)
        /\ EndTask(w, n)

\* _dispatch_one has the semaphore and dispatch runs up to its first await:
\* read the snapshot, give up on a row that is not IN_FLIGHT, else send.
DispatchBegin(w, n) ==
    /\ proc[w] = "up"
    /\ task[w][n] = "queued"
    /\ FreeSlot(w)
    /\ ~Undeliverable(n)
    /\ IF status[n] = "IN_FLIGHT"
       THEN /\ task'  = [task EXCEPT ![w][n] = "sending"]
            /\ snap'  = [snap EXCEPT ![w][n] = attempts[n] + 1]
            /\ calls' = [calls EXCEPT ![n] = @ + 1]
            /\ UNCHANGED reply
       ELSE EndTask(w, n) /\ UNCHANGED calls
    /\ UNCHANGED <<table, proc, tick, rows, claimed, breaker, accepted, faults, restarts>>

\* A row that ends without a request; one that is not IN_FLIGHT is given up.
EndUnsent(w, n, result) ==
    IF status[n] = "IN_FLIGHT"
    THEN MayWrite(w) /\ ApplyOutcome(w, n, attempts[n] + 1, result)
    ELSE EndTask(w, n) /\ UNCHANGED <<table, breaker>>

\* A vendor missing from the registry or a template that does not render:
\* dead letter without a request, counted by the breaker.
DispatchUndeliverable(w, n) ==
    /\ proc[w] = "up"
    /\ task[w][n] = "queued"
    /\ FreeSlot(w)
    /\ Undeliverable(n)
    /\ EndUnsent(w, n, "rejected")
    /\ UNCHANGED <<proc, tick, rows, claimed, history, faults, restarts>>

\* The request is answered, times out or fails.  The coroutine is ready, but
\* others, and the end of the process, may come before it.
RequestEnds(w, n) ==
    /\ task[w][n] = "sending"
    /\ reply[w][n] = "none"
    /\ \E result \in Results :
          /\ reply' = [reply EXCEPT ![w][n] = result]
          /\ accepted' = [accepted EXCEPT ![n] = @ \/ result = "ok"]
    /\ UNCHANGED <<table, proc, tick, rows, claimed, task, snap, breaker, calls, faults, restarts>>

\* dispatch resumes and runs to its end.
DispatchEnd(w, n) ==
    /\ task[w][n] = "sending"
    /\ reply[w][n] # "none"
    /\ MayWrite(w)
    /\ ApplyOutcome(w, n, snap[w][n], reply[w][n])
    /\ UNCHANGED <<proc, tick, rows, claimed, history, faults, restarts>>

-----------------------------------------------------------------------------
(* Database errors.                                                        *)

\* Mutant of PutBack: the put back counts an attempt.
PutBackCounted(n) ==
    /\ attempts' = [attempts EXCEPT ![n] = @ + 1]
    /\ \/ /\ status' = [status EXCEPT ![n] = IF @ = "IN_FLIGHT" THEN "PENDING" ELSE @]
          /\ wait'   = [wait EXCEPT ![n] = 0]
       \/ UNCHANGED <<status, wait>>

\* _dispatch_one's except clause: a row still IN_FLIGHT is made due again.
\* This update may fail as well; then gather swallows the exception.
PutBack(n) ==
    /\ attempts' = attempts
    /\ \/ /\ status' = [status EXCEPT ![n] = IF @ = "IN_FLIGHT" THEN "PENDING" ELSE @]
          /\ wait'   = [wait EXCEPT ![n] = 0]
       \/ UNCHANGED <<status, wait>>

Fault == faults < MaxFaults /\ faults' = faults + 1

\* The claim loop's UPDATE, or its commit, raises: everything claimed is
\* rolled back, but not what allow() did to the breaker.
ClaimFails(w) ==
    /\ Fault
    /\ tick[w] = "claiming"
    /\ IF rows[w] = <<>>
       THEN claimed[w] # {} /\ UNCHANGED breaker
       ELSE LET p == ProviderOf[Head(rows[w])]
            IN  /\ Allows(breaker[w][p])
                /\ breaker' = [breaker EXCEPT ![w][p] = AfterAllow(@)]
    /\ claimed' = [claimed EXCEPT ![w] = {}]
    /\ rows'    = [rows EXCEPT ![w] = <<>>]
    /\ tick'    = [tick EXCEPT ![w] = "idle"]
    /\ UNCHANGED <<table, proc, task, reply, snap, history, restarts>>

\* _claim_snapshot raises: no request, no word to the breaker.
SnapshotFails(w, n) ==
    /\ Fault
    /\ task[w][n] = "queued"
    /\ FreeSlot(w)
    /\ MayWrite(w)
    /\ PutBack(n)
    /\ EndTask(w, n)
    /\ UNCHANGED <<proc, tick, rows, claimed, breaker, history, restarts>>

\* The outcome cannot be stored: the breaker has already recorded it.
PersistFails(w, n) ==
    /\ Fault
    /\ MayWrite(w)
    /\ \/ /\ reply[w][n] # "none"
          /\ breaker' = [breaker EXCEPT ![w][ProviderOf[n]] =
                            Recorded(@, Decide(reply[w][n], snap[w][n]))]
       \/ /\ task[w][n] = "queued" /\ FreeSlot(w) /\ status[n] = "IN_FLIGHT"
          /\ Undeliverable(n) \/ proc[w] = "stopping"
          /\ breaker' = [breaker EXCEPT ![w][ProviderOf[n]] = RecordFailure(@)]
    /\ PutBack(n)
    /\ EndTask(w, n)
    /\ UNCHANGED <<proc, tick, rows, claimed, history, restarts>>

-----------------------------------------------------------------------------
(* Processes that stop, crash and start.                                   *)

Restart == restarts < MaxRestarts /\ restarts' = restarts + 1

\* Everything in memory is gone and an open transaction is rolled back; the
\* table keeps what was committed.
Vanish(w) ==
    /\ proc'    = [proc EXCEPT ![w] = "down"]
    /\ tick'    = [tick EXCEPT ![w] = "idle"]
    /\ rows'    = [rows EXCEPT ![w] = <<>>]
    /\ claimed' = [claimed EXCEPT ![w] = {}]
    /\ task'    = [task EXCEPT ![w] = [n \in Notifications |-> "none"]]
    /\ reply'   = [reply EXCEPT ![w] = [n \in Notifications |-> "none"]]
    /\ snap'    = [snap EXCEPT ![w] = [n \in Notifications |-> 0]]
    /\ breaker' = [breaker EXCEPT ![w] = [p \in Providers |-> FreshBreaker]]
    /\ UNCHANGED <<table, history>>

Crash(w) ==
    /\ Restart
    /\ proc[w] = "up"
    /\ Vanish(w)
    /\ UNCHANGED faults

\* lifespan shutdown: no further tick is scheduled and the HTTP client is
\* closed, between two steps of the event loop.
Stop(w) ==
    /\ Restart
    /\ proc[w] = "up"
    /\ tick[w] # "claiming"
    /\ proc' = [proc EXCEPT ![w] = "stopping"]
    /\ UNCHANGED <<table, tick, rows, claimed, task, reply, snap, breaker, history, faults>>

\* A delivery that gets the semaphore after that finds the client closed
\* (its request fails at once) or already None (the assertion ends it).
DispatchClosed(w, n) ==
    /\ proc[w] = "stopping"
    /\ task[w][n] = "queued"
    /\ FreeSlot(w)
    /\ \/ EndUnsent(w, n, IF Undeliverable(n) THEN "rejected" ELSE "failed")
       \/ EndTask(w, n) /\ UNCHANGED <<table, breaker>>
    /\ UNCHANGED <<proc, tick, rows, claimed, history, faults, restarts>>

\* The scheduler cancels the tick and with it every _dispatch_one:
\* CancelledError is no Exception, so no except clause puts a row back.
Exit(w) ==
    /\ proc[w] = "stopping"
    /\ Vanish(w)
    /\ UNCHANGED <<faults, restarts>>

\* A new process: init_db keeps the table, no row is recovered.
Start(w) ==
    /\ proc[w] = "down"
    /\ proc' = [proc EXCEPT ![w] = "up"]
    /\ UNCHANGED <<table, tick, rows, claimed, task, reply, snap, breaker, history, faults, restarts>>

-----------------------------------------------------------------------------
(* GET /v1/providers, in a threadpool thread: state_with_cooldown refreshes *)
(* the breaker at any moment, also in the middle of a claim loop.           *)
PollProvider(w, p) ==
    /\ proc[w] = "up"
    /\ p \in Registered
    /\ Refresh(breaker[w][p]) # breaker[w][p]
    /\ breaker' = [breaker EXCEPT ![w][p] = Refresh(@)]
    /\ UNCHANGED <<table, proc, tick, rows, claimed, task, reply, snap, history, faults, restarts>>

\* A tick of time.  Claim loops are instantaneous on this scale.
Clock ==
    /\ \A w \in Workers : tick[w] # "claiming"
    /\ wait' = [n \in Notifications |->
                  IF status[n] = "PENDING" /\ wait[n] > -MaxOverdue
                  THEN wait[n] - 1 ELSE wait[n]]
    /\ breaker' = [w \in Workers |-> [p \in Providers |-> Age(breaker[w][p])]]
    /\ <<wait', breaker'>> # <<wait, breaker>>
    /\ UNCHANGED <<status, attempts, proc, tick, rows, claimed, task, reply, snap, history, faults, restarts>>

Work(w) ==
    \/ TickSelect(w) \/ ClaimRow(w) \/ ClaimCommit(w) \/ TickDone(w)
    \/ \E n \in Notifications :
          \/ DispatchBegin(w, n) \/ DispatchUndeliverable(w, n)
          \/ RequestEnds(w, n) \/ DispatchEnd(w, n)

Next ==
    \/ Clock
    \/ \E n \in Notifications : Submit(n)
    \/ \E w \in Workers :
          \/ Work(w)
          \/ ClaimFails(w) \/ Crash(w) \/ Stop(w) \/ Exit(w) \/ Start(w)
          \/ \E p \in Providers : PollProvider(w, p)
          \/ \E n \in Notifications :
                SnapshotFails(w, n) \/ PersistFails(w, n) \/ DispatchClosed(w, n)

Spec == Init /\ [][Next]_vars

(***************************************************************************)
(* Fairness.  The scheduler fires on its interval and the event loop runs  *)
(* ready coroutines; every request ends because each httpx phase has a     *)
(* timeout; uvicorn's shutdown ends and the supervisor starts the process  *)
(* again.  Time passes: Clock is disabled during claim loops, hence SF.    *)
(* Nothing is assumed of callers, of read routes or of faults.             *)
(***************************************************************************)
Fairness ==
    /\ SF_vars(Clock)
    /\ \A w \in Workers : WF_vars(Work(w)) /\ WF_vars(Exit(w)) /\ WF_vars(Start(w))

FairSpec == Spec /\ Fairness

-----------------------------------------------------------------------------
(* Types.                                                                  *)

\* The columns, locals and breaker records hold values of the code's types.
TypeOK ==
    /\ status \in [Notifications -> Statuses]
    /\ attempts \in [Notifications -> Nat]
    /\ wait \in [Notifications -> Int]
    /\ proc \in [Workers -> {"up", "stopping", "down"}]
    /\ tick \in [Workers -> {"idle", "claiming", "dispatching"}]
    /\ rows \in [Workers -> Seq(Notifications)]
    /\ claimed \in [Workers -> SUBSET Notifications]
    /\ task \in [Workers -> [Notifications -> {"none", "queued", "sending"}]]
    /\ reply \in [Workers -> [Notifications -> Results \cup {"none"}]]
    /\ snap \in [Workers -> [Notifications -> Nat]]
    /\ breaker \in [Workers -> [Providers -> Breaker]]
    /\ calls \in [Notifications -> Nat]
    /\ accepted \in [Notifications -> BOOLEAN]
    /\ faults \in Nat
    /\ restarts \in Nat

Holders(n) == {w \in Workers : task[w][n] # "none"}
Orphaned(n) == status[n] = "IN_FLIGHT" /\ Holders(n) = {}

-----------------------------------------------------------------------------
(* Who may work on a row.                                                  *)

\* A row being dispatched is IN_FLIGHT in the table and belongs to exactly
\* one process: the compare-and-set of run_once, the tick lock and the put
\* back of _dispatch_one never let two of them deliver the same row.
OneDispatcher ==
    \A n \in Notifications :
        /\ Holders(n) # {} => status[n] = "IN_FLIGHT"
        /\ \A v, w \in Holders(n) : v = w

\* While a claim loop's transaction is open, the rows it has updated are
\* still PENDING for everyone else and no other process has updated any.
ClaimIsolated ==
    \A w \in Workers :
        /\ \A n \in claimed[w] : status[n] = "PENDING"
        /\ claimed[w] # {} => tick[w] = "claiming" /\ MayWrite(w)

\* dispatch writes the attempts it read before the HTTP call without
\* looking at the row again; that value is never stale.
SnapshotFresh ==
    \A w \in Workers, n \in Notifications :
        task[w][n] = "sending" => snap[w][n] = attempts[n] + 1

\* A row IN_FLIGHT that no process works on is left behind only by a
\* database error or by a process that stopped or crashed.
NoOrphan ==
    faults = 0 /\ restarts = 0 => \A n \in Notifications : ~Orphaned(n)

-----------------------------------------------------------------------------
(* What the vendor sees.                                                   *)

\* No row is tried beyond max_retry_attempts, and each request beyond the
\* attempts the table counts is paid for by a database error.
RetryBudget ==
    \A n \in Notifications :
        /\ attempts[n] <= MaxAttempts
        /\ status[n] \in {"PENDING", "IN_FLIGHT"} => attempts[n] < MaxAttempts
        /\ calls[n] <= attempts[n] + faults + (IF status[n] = "IN_FLIGHT" THEN 1 ELSE 0)

\* SUCCEEDED is only said of a request the vendor answered with 2xx, and a
\* row so answered is not sent again while the database works: it succeeds
\* as soon as dispatch resumes, unless its process ends before that, which
\* leaves it orphaned (dispatcher.py:77 and 126).
AcceptedIsFinal ==
    \A n \in Notifications :
        /\ status[n] = "SUCCEEDED" => accepted[n]
        /\ accepted[n] /\ faults = 0 =>
              \/ status[n] = "SUCCEEDED"
              \/ /\ status[n] = "IN_FLIGHT"
                 /\ \A w \in Holders(n) : reply[w][n] = "ok"

\* SUCCEEDED and DEAD_LETTER are final: no late answer, put back or claim
\* loop of any process moves the row, counts an attempt or sends it again.
TerminalStable ==
    [][\A n \in Notifications : status[n] \in Terminal =>
            /\ status'[n] = status[n]
            /\ attempts'[n] = attempts[n]
            /\ calls'[n] = calls[n]]_vars

OneProcess == \A v, w \in Workers : v = w

\* With one process no row is claimed before its next_retry_at, although
\* the claim loop works from the SELECT's result and re-checks only status.
ClaimOnlyDue ==
    [][OneProcess =>
          \A n \in Notifications :
             status[n] = "PENDING" /\ status'[n] = "IN_FLIGHT" => wait[n] <= 0]_vars

-----------------------------------------------------------------------------
(* The breaker in use.                                                     *)

\* CLOSED exactly below the threshold, a probe only while HALF_OPEN, a
\* running cooldown only while OPEN, whatever order answers come in.
BreakerCoherent ==
    \A w \in Workers, p \in Providers : Coherent(breaker[w][p])

\* Rows in an open claim were let through by a breaker that still is not
\* OPEN, and a HALF_OPEN vendor has at most one of them (its probe).
ClaimGated ==
    \A w \in Workers : \A m, n \in claimed[w] :
        LET b == breaker[w][ProviderOf[n]]
        IN  /\ b.state # "OPEN"
            /\ b.state = "HALF_OPEN" => b.probe
            /\ b.state = "HALF_OPEN" /\ ProviderOf[m] = ProviderOf[n] => m = n

\* A running process forgets a probe only by leaving HALF_OPEN, so each
\* half-open episode lets one row through.
OneProbePerEpisode ==
    [][\A w \in Workers, p \in Providers :
            /\ breaker[w][p].state = "HALF_OPEN" /\ breaker[w][p].probe
            /\ breaker'[w][p].state = "HALF_OPEN"
            => breaker'[w][p].probe]_vars

\* A single process without database errors always has a delivery of that
\* vendor under way while half_open_in_flight is set, which will clear it.
ProbeAlive ==
    faults = 0 /\ OneProcess =>
        \A w \in Workers, p \in Providers :
            proc[w] = "up" /\ breaker[w][p].probe =>
                \E n \in Notifications :
                    ProviderOf[n] = p /\ (n \in claimed[w] \/ task[w][n] # "none")

-----------------------------------------------------------------------------
(* Liveness.                                                               *)

\* notification-delivery/spec.md:5, delivery is at least once: every accepted
\* notification is delivered or dead-lettered in the end, through retries,
\* backoff and open breakers.
EventuallySettled ==
    \A n \in Notifications : status[n] = "PENDING" ~> status[n] \in Terminal

\* Crashes and stops harm only the rows in flight at that moment: any other
\* row is settled after the restart.  Without them no row is orphaned
\* (NoOrphan), so this is EventuallySettled.
SettledOrOrphaned ==
    \A n \in Notifications :
        status[n] = "PENDING" ~> (status[n] \in Terminal \/ Orphaned(n))

\* breaker.py:5, the half-open probe comes to a verdict: CLOSED or OPEN again.
ProbeResolves ==
    \A w \in Workers, p \in Providers :
        breaker[w][p].probe ~> breaker[w][p].state # "HALF_OPEN"

-----------------------------------------------------------------------------
(* The abstract table: see Outbox.                                         *)

OutboxImpl == INSTANCE Outbox WITH
                  state   <- status,
                  tries   <- attempts,
                  holders <- [n \in Notifications |-> Holders(n)]

\* Every step of the workers is a step of the outbox or leaves it alone.
ImplementsOutbox == OutboxImpl!Spec
=============================================================================
