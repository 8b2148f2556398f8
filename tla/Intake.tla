------------------------------- MODULE Intake -------------------------------
(***************************************************************************)
(* POST /v1/notifications: app/api/routes_notifications.py                 *)
(* submit_notification, with the callers that retry it.                    *)
(*                                                                         *)
(* The handler awaits nothing, so inside one process requests are handled  *)
(* one after the other; its SELECT, its INSERT and the SELECT after a      *)
(* rejected INSERT are transactions of their own, and other processes on   *)
(* the same database (an old and a new release, say) run between them, as  *)
(* they do between the commit of a row and its answer.                     *)
(* Rows are never deleted.  The status of a row, which a duplicate's       *)
(* answer repeats, belongs to Delivery and is left out.                    *)
(***************************************************************************)
EXTENDS Naturals, Sequences, FiniteSets

CONSTANTS
    Submissions,    \* what callers want stored: one HTTP request, repeatable
    Processes,      \* gateway processes sharing the database
    Header,         \* the Idempotency-Key header of each, or NoHeader
    Provider,       \* the provider each names
    Payload,        \* the payload of each
    Registered,     \* the vendors in providers.yaml
    Oversized,      \* payloads above payload_max_bytes
    NoHeader, NoJob,
    MaxFaults,      \* bound: database errors in a behaviour
    MaxTimeouts,    \* bound: requests their caller stops waiting for
    MaxRestarts     \* bound: process crashes

ASSUME IntakeAssumption ==
    /\ NoJob \notin Submissions
    /\ MaxFaults \in Nat
    /\ MaxTimeouts \in Nat
    /\ MaxRestarts \in Nat

VARIABLES
    table,          \* committed rows [key, from]; a row's id is its position
    job,            \* the submission a process is handling, or NoJob
    step,           \* the handler's next statement: "validate", "insert",
                    \* "reselect" or, its row committed, "stored" (the return);
                    \* "idle" without a job
    newId,          \* then, new_id of the row the answer is to name; else 0
    listening,      \* its caller still waits for the answer
    received,       \* notifications_received_total of the process
    acknowledged,   \* history: 202 answers the process has given
    answers,        \* history: all answers given
    settled,        \* the caller has an answer it does not retry
    faults, timeouts, restarts

server == <<job, step, newId, listening>>
counts == <<received, acknowledged>>
bounds == <<faults, timeouts, restarts>>
vars   == <<table, server, counts, answers, settled, bounds>>

\* Mutant of Key: the fallback digest leaves the provider out.
KeyOfPayload(c) ==
    IF Header[c] = NoHeader THEN <<"auto", Payload[c]>> ELSE <<"header", Header[c]>>

\* The header, else the digest of provider and canonical payload (injective;
\* headers are assumed not to imitate its "auto_" form).
Key(c) ==
    IF Header[c] = NoHeader
    THEN <<"auto", Provider[c], Payload[c]>>
    ELSE <<"header", Header[c]>>

\* The validation of the request: 202 if it may be stored.
Verdict(c) ==
    IF Provider[c] \notin Registered THEN 400
    ELSE IF Payload[c] \in Oversized THEN 413
    ELSE 202

\* Answers after which the caller tries again: the handler's own 503, and the
\* framework's 500 for an error outside its try, where
\* init-notification-mvp/specs/notification-intake/spec.md:52-55 asks for 503.
Errors == {500, 503}
Codes  == {202, 400, 413, 409} \cup Errors

Row    == [key : {Key(c) : c \in Submissions}, from : Submissions]
Reply  == [to : Submissions, code : Codes, id : Nat, duplicated : BOOLEAN]

Known(c)   == \E i \in DOMAIN table : table[i].key = Key(c)
Waiting(c) == \E w \in Processes : job[w] = c /\ listening[w]

-----------------------------------------------------------------------------
Init ==
    /\ table        = <<>>
    /\ job          = [w \in Processes |-> NoJob]
    /\ step         = [w \in Processes |-> "idle"]
    /\ newId        = [w \in Processes |-> 0]
    /\ listening    = [w \in Processes |-> FALSE]
    /\ received     = [w \in Processes |-> 0]
    /\ acknowledged = [w \in Processes |-> 0]
    /\ answers      = {}
    /\ settled      = [c \in Submissions |-> FALSE]
    /\ faults = 0 /\ timeouts = 0 /\ restarts = 0

\* A caller that has no final answer sends (or repeats) its request.
Send(c, w) ==
    /\ job[w] = NoJob
    /\ ~settled[c]
    /\ ~Waiting(c)
    /\ job'       = [job EXCEPT ![w] = c]
    /\ step'      = [step EXCEPT ![w] = "validate"]
    /\ listening' = [listening EXCEPT ![w] = TRUE]
    /\ UNCHANGED <<table, newId, counts, answers, settled, bounds>>

\* The caller's own timeout: the handler goes on, nobody hears its answer.
GiveUpWaiting(c) ==
    /\ timeouts < MaxTimeouts
    /\ \E w \in Processes :
          /\ job[w] = c
          /\ listening[w]
          /\ listening' = [listening EXCEPT ![w] = FALSE]
    /\ timeouts' = timeouts + 1
    /\ UNCHANGED <<table, job, step, newId, counts, answers, settled, faults, restarts>>

\* The handler returns or raises; the caller, if still there, hears it.
Respond(w, code, id, dup) ==
    LET c == job[w]
    IN  /\ answers' = answers \cup
              {[to |-> c, code |-> code, id |-> id, duplicated |-> dup]}
        /\ settled' = [settled EXCEPT ![c] = @ \/ (listening[w] /\ code \in {202, 400, 413})]
        /\ acknowledged' =
              [acknowledged EXCEPT ![w] = IF code = 202 THEN @ + 1 ELSE @]
        /\ job'       = [job EXCEPT ![w] = NoJob]
        /\ step'      = [step EXCEPT ![w] = "idle"]
        /\ newId'     = [newId EXCEPT ![w] = 0]
        /\ listening' = [listening EXCEPT ![w] = FALSE]

Count(w) == received' = [received EXCEPT ![w] = @ + 1]
Fault    == faults < MaxFaults /\ faults' = faults + 1

-----------------------------------------------------------------------------
(* The handler up to and including its first SELECT.                       *)

\* Unknown provider or payload too large: refused before it is counted.
Refuse(w) ==
    /\ step[w] = "validate"
    /\ Verdict(job[w]) # 202
    /\ Respond(w, Verdict(job[w]), 0, FALSE)
    /\ UNCHANGED <<table, received, bounds>>

\* Mutant of LookupHit: a duplicate is not marked as one.
LookupHitUnmarked(w) ==
    /\ step[w] = "validate"
    /\ Verdict(job[w]) = 202
    /\ \E i \in DOMAIN table :
          table[i].key = Key(job[w]) /\ Respond(w, 202, i, FALSE)
    /\ Count(w)
    /\ UNCHANGED <<table, bounds>>

LookupHit(w) ==
    /\ step[w] = "validate"
    /\ Verdict(job[w]) = 202
    /\ \E i \in DOMAIN table :
          table[i].key = Key(job[w]) /\ Respond(w, 202, i, TRUE)
    /\ Count(w)
    /\ UNCHANGED <<table, bounds>>

LookupMiss(w) ==
    /\ step[w] = "validate"
    /\ Verdict(job[w]) = 202
    /\ ~Known(job[w])
    /\ Count(w)
    /\ step' = [step EXCEPT ![w] = "insert"]
    /\ UNCHANGED <<table, job, newId, listening, acknowledged, answers, settled, bounds>>

\* The SELECT stands outside the try: its error is the framework's 500.
LookupFails(w) ==
    /\ step[w] = "validate"
    /\ Verdict(job[w]) = 202
    /\ Fault
    /\ Count(w)
    /\ Respond(w, 500, 0, FALSE)
    /\ UNCHANGED <<table, timeouts, restarts>>

-----------------------------------------------------------------------------
(* The INSERT and, after a conflict, the second SELECT.                    *)

\* Mutants of Insert: the table has no unique index; or nothing is committed.
InsertNotUnique(w) ==
    /\ step[w] = "insert"
    /\ table' = Append(table, [key |-> Key(job[w]), from |-> job[w]])
    /\ step'  = [step EXCEPT ![w] = "stored"]
    /\ newId' = [newId EXCEPT ![w] = Len(table')]
    /\ UNCHANGED <<job, listening, counts, answers, settled, bounds>>

InsertUncommitted(w) ==
    /\ step[w] = "insert"
    /\ ~Known(job[w])
    /\ step'  = [step EXCEPT ![w] = "stored"]
    /\ newId' = [newId EXCEPT ![w] = Len(table) + 1]
    /\ UNCHANGED <<table, job, listening, counts, answers, settled, bounds>>

\* uq_notifications_idem_key lets the row in, and it is committed.
Insert(w) ==
    /\ step[w] = "insert"
    /\ ~Known(job[w])
    /\ table' = Append(table, [key |-> Key(job[w]), from |-> job[w]])
    /\ step'  = [step EXCEPT ![w] = "stored"]
    /\ newId' = [newId EXCEPT ![w] = Len(table')]
    /\ UNCHANGED <<job, listening, counts, answers, settled, bounds>>

\* Only then is the caller told.  A process killed before this leaves a row
\* that nobody has been told of; the repetition hears of a duplicate.
Accept(w) ==
    /\ step[w] = "stored"
    /\ Respond(w, 202, newId[w], FALSE)
    /\ UNCHANGED <<table, received, bounds>>

\* Mutant of InsertConflict: the INSERT is repeated instead.
InsertAgain(w) ==
    /\ step[w] = "insert"
    /\ Known(job[w])
    /\ UNCHANGED vars

\* IntegrityError: another process has stored the key since the SELECT.
InsertConflict(w) ==
    /\ step[w] = "insert"
    /\ Known(job[w])
    /\ step' = [step EXCEPT ![w] = "reselect"]
    /\ UNCHANGED <<table, job, newId, listening, counts, answers, settled, bounds>>

\* Any other error of the INSERT or its commit is rolled back.
InsertFails(w) ==
    /\ step[w] = "insert"
    /\ Fault
    /\ Respond(w, 503, 0, FALSE)
    /\ UNCHANGED <<table, received, timeouts, restarts>>

\* Mutant of Reselect: the conflict is reported instead of the row.
ReselectConflict(w) ==
    /\ step[w] = "reselect"
    /\ Respond(w, 409, 0, FALSE)
    /\ UNCHANGED <<table, received, bounds>>

Reselect(w) ==
    /\ step[w] = "reselect"
    /\ IF Known(job[w])
       THEN \E i \in DOMAIN table :
               table[i].key = Key(job[w]) /\ Respond(w, 202, i, TRUE)
       ELSE Respond(w, 409, 0, FALSE)
    /\ UNCHANGED <<table, received, bounds>>

\* An error raised inside the except clause is not caught by the next one.
ReselectFails(w) ==
    /\ step[w] = "reselect"
    /\ Fault
    /\ Respond(w, 500, 0, FALSE)
    /\ UNCHANGED <<table, received, timeouts, restarts>>

\* The process dies and is started again: its counters start at zero, a
\* caller that was waiting sees its connection break.
Crash(w) ==
    /\ restarts < MaxRestarts
    /\ restarts' = restarts + 1
    /\ job'       = [job EXCEPT ![w] = NoJob]
    /\ step'      = [step EXCEPT ![w] = "idle"]
    /\ newId'     = [newId EXCEPT ![w] = 0]
    /\ listening' = [listening EXCEPT ![w] = FALSE]
    /\ received'     = [received EXCEPT ![w] = 0]
    /\ acknowledged' = [acknowledged EXCEPT ![w] = 0]
    /\ UNCHANGED <<table, answers, settled, faults, timeouts>>

-----------------------------------------------------------------------------
Handle(w) ==
    \/ Refuse(w) \/ LookupHit(w) \/ LookupMiss(w) \/ LookupFails(w)
    \/ Insert(w) \/ Accept(w) \/ InsertConflict(w) \/ InsertFails(w)
    \/ Reselect(w) \/ ReselectFails(w)

Next ==
    \/ \E c \in Submissions : GiveUpWaiting(c) \/ \E w \in Processes : Send(c, w)
    \/ \E w \in Processes : Handle(w) \/ Crash(w)

Spec == Init /\ [][Next]_vars

-----------------------------------------------------------------------------
(* Properties.                                                             *)

TypeOK ==
    /\ table \in Seq(Row)
    /\ job \in [Processes -> Submissions \cup {NoJob}]
    /\ step \in [Processes -> {"idle", "validate", "insert", "stored", "reselect"}]
    /\ \A w \in Processes : step[w] = "idle" <=> job[w] = NoJob
    /\ newId \in [Processes -> Nat]
    /\ listening \in [Processes -> BOOLEAN]
    /\ received \in [Processes -> Nat]
    /\ acknowledged \in [Processes -> Nat]
    /\ answers \subseteq Reply
    /\ settled \in [Submissions -> BOOLEAN]
    /\ faults \in 0..MaxFaults
    /\ timeouts \in 0..MaxTimeouts
    /\ restarts \in 0..MaxRestarts

\* Persistence before the response: a 202, heard or lost, names a stored row
\* with the key of the submission it answers.
AnswerNamesRow ==
    \A a \in answers : a.code = 202 =>
        a.id \in DOMAIN table /\ table[a.id].key = Key(a.to)

\* All submissions of one key are answered with one id, through whichever of
\* the three ways the handler finds it, and that key has one row.
OneIdPerKey ==
    /\ \A a, b \in answers :
          a.code = 202 /\ b.code = 202 /\ Key(a.to) = Key(b.to) => a.id = b.id
    /\ \A i, j \in DOMAIN table : table[i].key = table[j].key => i = j

\* Rows that somebody has been told are new, and rows whose INSERT has been
\* committed and whose answer is still to come.
Announced == {a.id : a \in {b \in answers : b.code = 202 /\ ~b.duplicated}}
Owed      == {newId[w] : w \in {v \in Processes : step[v] = "stored"}}

\* "duplicated": false is said of a row to the submission that made it and to
\* no other, also when two raced, and of every row it has been said or will
\* be, except of one row for each crash, which may fall between the commit of
\* a row and its answer.
FreshOnce ==
    /\ \A a \in answers :
          a.code = 202 /\ ~a.duplicated =>
              a.id \in DOMAIN table /\ a.to = table[a.id].from
    /\ Owed \cap Announced = {}
    /\ Cardinality(DOMAIN table \ (Announced \cup Owed)) <= restarts

\* A submission without a header is never merged into another content: the
\* row its 202 names was made from the same provider and payload.
HeaderlessKeepsContent ==
    \A a \in answers :
        a.code = 202 /\ Header[a.to] = NoHeader =>
            /\ Provider[table[a.id].from] = Provider[a.to]
            /\ Payload[table[a.id].from] = Payload[a.to]

\* notifications_received_total never lags behind the 202 answers and runs
\* ahead of them only by the request being handled and by database errors.
ReceivedBounded ==
    \A w \in Processes :
        LET handling == IF step[w] \in {"insert", "stored", "reselect"} THEN 1 ELSE 0
        IN  /\ acknowledged[w] + handling <= received[w]
            /\ received[w] <= acknowledged[w] + handling + faults

-----------------------------------------------------------------------------
StoreImpl == INSTANCE IdempotentStore WITH
                 KeyOf     <- [c \in Submissions |-> Key(c)],
                 VerdictOf <- [c \in Submissions |-> Verdict(c)],
                 Errors    <- Errors,
                 owed      <- Owed

\* The three statements behave as one atomic look-up-or-store, which a crash
\* may follow before its answer; the handler's 409 does not occur.
ImplementsStore == StoreImpl!Spec
=============================================================================
