---------------------------- MODULE IntakeProofs ----------------------------
(***************************************************************************)
(* Theorems about Intake, for every set of submissions and processes and   *)
(* every number of errors, timeouts and restarts.                          *)
(***************************************************************************)
EXTENDS Intake, SequenceTheorems, FiniteSetTheorems, TLAPS

RowKeys == {Key(c) : c \in Submissions}

\* What a step of one process does to the answers.
NewReply(w, code, id, dup) ==
    [to |-> job[w], code |-> code, id |-> id, duplicated |-> dup]

-----------------------------------------------------------------------------
(* Types.                                                                  *)

\* The part of TypeOK about what Respond writes.
ReplyTypes ==
    /\ job \in [Processes -> Submissions \cup {NoJob}]
    /\ step \in [Processes -> {"idle", "validate", "insert", "stored", "reselect"}]
    /\ \A v \in Processes : step[v] = "idle" <=> job[v] = NoJob
    /\ newId \in [Processes -> Nat]
    /\ listening \in [Processes -> BOOLEAN]
    /\ acknowledged \in [Processes -> Nat]
    /\ answers \subseteq Reply
    /\ settled \in [Submissions -> BOOLEAN]

LEMMA VerdictCode == ASSUME NEW c PROVE Verdict(c) \in {202, 400, 413}
  BY DEF Verdict

\* What Respond does to the typed variables it sets.
LEMMA RespondTyped ==
  ASSUME TypeOK, NEW w \in Processes, job[w] # NoJob,
         NEW code \in Codes, NEW id \in Nat, NEW dup \in BOOLEAN,
         Respond(w, code, id, dup)
  PROVE  ReplyTypes'
<1>1. job[w] \in Submissions
  BY DEF TypeOK
<1>2. NewReply(w, code, id, dup) \in Reply
  BY <1>1 DEF NewReply, Reply
<1>3. answers' = answers \cup {NewReply(w, code, id, dup)}
  BY DEF Respond, NewReply
<1>4. answers' \subseteq Reply
  BY <1>2, <1>3 DEF TypeOK
<1>5. acknowledged' \in [Processes -> Nat]
  BY DEF Respond, TypeOK
<1>6. settled' \in [Submissions -> BOOLEAN]
  BY <1>1 DEF Respond, TypeOK
<1>7. /\ job' \in [Processes -> Submissions \cup {NoJob}]
      /\ step' \in [Processes -> {"idle", "validate", "insert", "stored", "reselect"}]
      /\ \A v \in Processes : step'[v] = "idle" <=> job'[v] = NoJob
      /\ newId' \in [Processes -> Nat]
      /\ listening' \in [Processes -> BOOLEAN]
  BY DEF Respond, TypeOK
<1> QED
  BY <1>4, <1>5, <1>6, <1>7 DEF ReplyTypes

LEMMA AppendTyped ==
  ASSUME TypeOK, NEW c \in Submissions
  PROVE  Append(table, [key |-> Key(c), from |-> c]) \in Seq(Row)
<1>1. [key |-> Key(c), from |-> c] \in Row
  BY DEF Row
<1>2. table \in Seq(Row)
  BY DEF TypeOK
<1> QED
  BY <1>1, <1>2, AppendProperties

LEMMA FaultTyped == TypeOK /\ Fault => faults' \in 0..MaxFaults
  BY IntakeAssumption DEF TypeOK, Fault

LEMMA CountTyped ==
  ASSUME TypeOK, NEW w \in Processes, Count(w)
  PROVE  received' \in [Processes -> Nat]
  BY DEF TypeOK, Count

LEMMA InitTyped == Init => TypeOK
<1>1. <<>> \in Seq(Row)
  BY EmptySeq
<1> QED
  BY <1>1, IntakeAssumption DEF Init, TypeOK

\* Inductive: TypeOK needs no strengthening.
LEMMA TypeStep == TypeOK /\ [Next]_vars => TypeOK'
<1> SUFFICES ASSUME TypeOK, [Next]_vars PROVE TypeOK'
  OBVIOUS
<1> USE IntakeAssumption
<1>1. ASSUME NEW c \in Submissions, NEW w \in Processes, Send(c, w) PROVE TypeOK'
  BY <1>1 DEF Send, TypeOK, counts, bounds
<1>2. ASSUME NEW c \in Submissions, GiveUpWaiting(c) PROVE TypeOK'
  BY <1>2 DEF GiveUpWaiting, TypeOK, counts
<1>3. ASSUME NEW w \in Processes, Crash(w) PROVE TypeOK'
  BY <1>3 DEF Crash, TypeOK
<1>4. ASSUME NEW w \in Processes, Handle(w) PROVE TypeOK'
  <2>0. \A i \in DOMAIN table : i \in Nat
    BY DEF TypeOK
  <2>1. CASE Refuse(w)
    <3>1. job[w] # NoJob /\ Verdict(job[w]) \in Codes
      BY <2>1, VerdictCode DEF Refuse, TypeOK, Codes
    <3> QED
      BY <2>1, <3>1, RespondTyped DEF Refuse, ReplyTypes, TypeOK, bounds
  <2>2. CASE LookupHit(w)
    <3>1. PICK i \in DOMAIN table : Respond(w, 202, i, TRUE)
      BY <2>2 DEF LookupHit
    <3>2. job[w] # NoJob /\ 202 \in Codes /\ i \in Nat
      BY <2>2, <2>0 DEF LookupHit, TypeOK, Codes
    <3>3. received' \in [Processes -> Nat]
      BY <2>2, CountTyped DEF LookupHit
    <3>4. UNCHANGED <<table, bounds>>
      BY <2>2 DEF LookupHit
    <3>5. ReplyTypes'
      BY <3>1, <3>2, RespondTyped
    <3> QED
      BY <3>3, <3>4, <3>5 DEF TypeOK, ReplyTypes, bounds
  <2>3. CASE LookupMiss(w)
    BY <2>3 DEF LookupMiss, Count, TypeOK, bounds
  <2>4. CASE LookupFails(w)
    <3>1. job[w] # NoJob /\ 500 \in Codes
      BY <2>4 DEF LookupFails, TypeOK, Codes, Errors
    <3>2. faults' \in 0..MaxFaults
      BY <2>4, FaultTyped DEF LookupFails
    <3>3. received' \in [Processes -> Nat]
      BY <2>4, CountTyped DEF LookupFails
    <3>4. Respond(w, 500, 0, FALSE) /\ UNCHANGED <<table, timeouts, restarts>>
      BY <2>4 DEF LookupFails
    <3>5. ReplyTypes'
      BY <3>1, <3>4, RespondTyped
    <3> QED
      BY <3>2, <3>3, <3>4, <3>5 DEF TypeOK, ReplyTypes
  <2>5. CASE Insert(w)
    <3>1. job[w] # NoJob /\ job[w] \in Submissions
      BY <2>5 DEF Insert, TypeOK
    <3>2. table' \in Seq(Row)
      BY <2>5, <3>1, AppendTyped DEF Insert
    <3>3. Len(table') \in Nat
      BY <3>2, LenProperties
    <3>4. newId' \in [Processes -> Nat]
      BY <2>5, <3>3 DEF Insert, TypeOK
    <3>5. /\ step' \in [Processes -> {"idle", "validate", "insert", "stored", "reselect"}]
          /\ \A v \in Processes : step'[v] = "idle" <=> job'[v] = NoJob
      BY <2>5, <3>1 DEF Insert, TypeOK
    <3> QED
      BY <2>5, <3>2, <3>4, <3>5 DEF Insert, TypeOK, counts, bounds
  <2>10. CASE Accept(w)
    <3>1. job[w] # NoJob /\ 202 \in Codes /\ newId[w] \in Nat
      BY <2>10 DEF Accept, TypeOK, Codes
    <3>2. Respond(w, 202, newId[w], FALSE)
      BY <2>10 DEF Accept
    <3>3. ReplyTypes'
      BY <3>1, <3>2, RespondTyped
    <3> QED
      BY <2>10, <3>3 DEF Accept, ReplyTypes, TypeOK, bounds
  <2>6. CASE InsertConflict(w)
    BY <2>6 DEF InsertConflict, TypeOK, counts, bounds
  <2>7. CASE InsertFails(w)
    <3>1. job[w] # NoJob /\ 503 \in Codes
      BY <2>7 DEF InsertFails, TypeOK, Codes, Errors
    <3>2. faults' \in 0..MaxFaults
      BY <2>7, FaultTyped DEF InsertFails
    <3>3. UNCHANGED received
      BY <2>7 DEF InsertFails
    <3>4. Respond(w, 503, 0, FALSE) /\ UNCHANGED <<table, timeouts, restarts>>
      BY <2>7 DEF InsertFails
    <3>5. ReplyTypes'
      BY <3>1, <3>4, RespondTyped
    <3> QED
      BY <3>2, <3>3, <3>4, <3>5 DEF TypeOK, ReplyTypes
  <2>8. CASE Reselect(w)
    <3>1. job[w] # NoJob /\ 202 \in Codes /\ 409 \in Codes
      BY <2>8 DEF Reselect, TypeOK, Codes
    <3>2. PICK code \in Codes, id \in Nat, dup \in BOOLEAN : Respond(w, code, id, dup)
      <4>1. CASE Known(job[w])
        BY <2>8, <3>1, <2>0, <4>1 DEF Reselect
      <4>2. CASE ~Known(job[w])
        BY <2>8, <3>1, <4>2 DEF Reselect
      <4> QED
        BY <4>1, <4>2
    <3> QED
      BY <2>8, <3>1, <3>2, RespondTyped DEF Reselect, ReplyTypes, TypeOK, bounds
  <2>9. CASE ReselectFails(w)
    <3>1. job[w] # NoJob /\ 500 \in Codes
      BY <2>9 DEF ReselectFails, TypeOK, Codes, Errors
    <3>2. faults' \in 0..MaxFaults
      BY <2>9, FaultTyped DEF ReselectFails
    <3>3. UNCHANGED received
      BY <2>9 DEF ReselectFails
    <3>4. Respond(w, 500, 0, FALSE) /\ UNCHANGED <<table, timeouts, restarts>>
      BY <2>9 DEF ReselectFails
    <3>5. ReplyTypes'
      BY <3>1, <3>4, RespondTyped
    <3> QED
      BY <3>2, <3>3, <3>4, <3>5 DEF TypeOK, ReplyTypes
  <2> QED
    BY <1>4, <2>1, <2>2, <2>3, <2>4, <2>5, <2>6, <2>7, <2>8, <2>9, <2>10 DEF Handle
<1>5. CASE UNCHANGED vars
  BY <1>5 DEF vars, server, counts, bounds, TypeOK
<1> QED
  BY <1>1, <1>2, <1>3, <1>4, <1>5 DEF Next

\* Every variable keeps its type; a process has a job exactly while one of
\* the handler's statements is to come.
THEOREM TypeCorrect == Spec => []TypeOK
  BY InitTyped, TypeStep, PTL DEF Spec

-----------------------------------------------------------------------------
(* The handler implements the idempotent store.                            *)

\* Once the INSERT has met a conflict, the row it met stays: rows are never
\* deleted.  Hence the second SELECT finds one.
ConflictKnown == \A w \in Processes : step[w] = "reselect" => Known(job[w])

LEMMA AppendedRow ==
  ASSUME TypeOK, NEW r \in Row
  PROVE  /\ Len(table) \in Nat
         /\ DOMAIN table = 1..Len(table)
         /\ DOMAIN Append(table, r) = 1..(Len(table) + 1)
         /\ \A i \in DOMAIN table : Append(table, r)[i] = table[i]
         /\ Append(table, r)[Len(table) + 1] = r
<1>1. table \in Seq(Row)
  BY DEF TypeOK
<1>2. Append(table, r) \in Seq(Row) /\ Len(Append(table, r)) = Len(table) + 1
  BY <1>1, AppendProperties
<1>3. DOMAIN table = 1..Len(table) /\ Len(table) \in Nat
  BY <1>1, LenProperties
<1>4. DOMAIN Append(table, r) = 1..(Len(table) + 1)
  BY <1>2, LenProperties
<1> QED
  BY <1>1, <1>3, <1>4, AppendProperties

\* A known key stays known.
LEMMA KnownStays ==
  ASSUME TypeOK, NEW c,
         \/ UNCHANGED table
         \/ \E r \in Row : table' = Append(table, r)
  PROVE  Known(c) => Known(c)'
<1>1. CASE UNCHANGED table
  BY <1>1 DEF Known
<1>2. ASSUME NEW r \in Row, table' = Append(table, r), Known(c)
      PROVE  Known(c)'
  <2>1. PICK i \in DOMAIN table : table[i].key = Key(c)
    BY <1>2 DEF Known
  <2>2. i \in DOMAIN table' /\ table'[i] = table[i]
    BY <1>2, AppendedRow
  <2> QED
    BY <2>1, <2>2 DEF Known
<1> QED
  BY <1>1, <1>2

\* Only Insert touches the table.
LEMMA TableStep ==
  TypeOK /\ [Next]_vars =>
    \/ UNCHANGED table
    \/ \E r \in Row : table' = Append(table, r)
<1> SUFFICES ASSUME TypeOK, [Next]_vars
             PROVE  \/ UNCHANGED table
                    \/ \E r \in Row : table' = Append(table, r)
  OBVIOUS
<1>1. ASSUME NEW w \in Processes, Insert(w)
      PROVE  \E r \in Row : table' = Append(table, r)
  <2>1. job[w] \in Submissions
    BY <1>1 DEF Insert, TypeOK
  <2>2. [key |-> Key(job[w]), from |-> job[w]] \in Row
    BY <2>1 DEF Row
  <2> QED
    BY <1>1, <2>2 DEF Insert
<1>2. ASSUME NEW w \in Processes, Handle(w), ~Insert(w)
      PROVE  UNCHANGED table
  BY <1>2 DEF Handle, Refuse, LookupHit, LookupMiss, LookupFails, Accept, InsertConflict,
     InsertFails, Reselect, ReselectFails
<1> QED
  BY <1>1, <1>2 DEF Next, Send, GiveUpWaiting, Crash, vars

\* The handler has answered, or its process is gone.
JobDone(w) ==
    /\ job'  = [job EXCEPT ![w] = NoJob]
    /\ step' = [step EXCEPT ![w] = "idle"]

\* Three of the handler's steps go on, every other ends it.
LEMMA HandleEnds ==
  ASSUME NEW w \in Processes, Handle(w)
  PROVE  LookupMiss(w) \/ Insert(w) \/ InsertConflict(w) \/ JobDone(w)
<1>1. Refuse(w) => JobDone(w)
  BY DEF Refuse, Respond, JobDone
<1>2. LookupHit(w) => JobDone(w)
  BY DEF LookupHit, Respond, JobDone
<1>3. LookupFails(w) => JobDone(w)
  BY DEF LookupFails, Respond, JobDone
<1>4. Accept(w) => JobDone(w)
  BY DEF Accept, Respond, JobDone
<1>5. InsertFails(w) => JobDone(w)
  BY DEF InsertFails, Respond, JobDone
<1>6. Reselect(w) => JobDone(w)
  BY DEF Reselect, Respond, JobDone
<1>7. ReselectFails(w) => JobDone(w)
  BY DEF ReselectFails, Respond, JobDone
<1> QED
  BY <1>1, <1>2, <1>3, <1>4, <1>5, <1>6, <1>7 DEF Handle

LEMMA ConflictStep ==
  TypeOK /\ ConflictKnown /\ [Next]_vars => ConflictKnown'
<1> SUFFICES ASSUME TypeOK, ConflictKnown, [Next]_vars, NEW v \in Processes,
                    step'[v] = "reselect"
             PROVE  \E i \in DOMAIN table' : table'[i].key = Key(job'[v])
  BY DEF ConflictKnown, Known, Key
<1>1. ASSUME NEW c PROVE Known(c) => Known(c)'
  BY TableStep, KnownStays
<1>2. job'[v] = job[v] /\ Known(job[v])
  <2>1. CASE step[v] = "reselect" /\ UNCHANGED <<job, step>>
    BY <2>1 DEF ConflictKnown
  <2>2. ASSUME NEW c \in Submissions, NEW w \in Processes, Send(c, w)
        PROVE  job'[v] = job[v] /\ Known(job[v])
    BY <2>2 DEF Send, TypeOK, ConflictKnown
  <2>3. ASSUME NEW w \in Processes, InsertConflict(w)
        PROVE  job'[v] = job[v] /\ Known(job[v])
    BY <2>3 DEF InsertConflict, TypeOK, ConflictKnown
  <2>4. ASSUME NEW w \in Processes, LookupMiss(w)
        PROVE  job'[v] = job[v] /\ Known(job[v])
    BY <2>4 DEF LookupMiss, TypeOK, ConflictKnown
  <2>5. ASSUME NEW w \in Processes, Crash(w)
        PROVE  job'[v] = job[v] /\ Known(job[v])
    BY <2>5 DEF Crash, TypeOK, ConflictKnown
  <2>6. ASSUME NEW w \in Processes, JobDone(w)
        PROVE  job'[v] = job[v] /\ Known(job[v])
    BY <2>6 DEF JobDone, TypeOK, ConflictKnown
  <2>7. ASSUME NEW w \in Processes, Insert(w)
        PROVE  job'[v] = job[v] /\ Known(job[v])
    BY <2>7 DEF Insert, TypeOK, ConflictKnown
  <2>8. ASSUME NEW w \in Processes, Handle(w)
        PROVE  job'[v] = job[v] /\ Known(job[v])
    BY <2>3, <2>4, <2>6, <2>7, <2>8, HandleEnds
  <2> QED
    BY <2>1, <2>2, <2>5, <2>8 DEF Next, GiveUpWaiting, vars, server
<1>3. PICK c : c = job[v]
  OBVIOUS
<1>4. Known(c)'
  BY <1>1, <1>2, <1>3
<1> QED
  BY <1>2, <1>3, <1>4 DEF Known, Key

\* Past the first SELECT a submission is one that may be stored.
Admitted ==
    \A w \in Processes : step[w] \in {"insert", "stored", "reselect"} => Verdict(job[w]) = 202

LEMMA AdmittedStep == TypeOK /\ Admitted /\ [Next]_vars => Admitted'
<1> SUFFICES ASSUME TypeOK, Admitted, [Next]_vars, NEW v \in Processes,
                    step'[v] \in {"insert", "stored", "reselect"}
             PROVE  Verdict(job'[v]) = 202
  BY DEF Admitted, Verdict
<1>1. ASSUME NEW c \in Submissions, NEW w \in Processes, Send(c, w)
      PROVE  Verdict(job'[v]) = 202
  BY <1>1 DEF Send, TypeOK, Admitted
<1>2. ASSUME NEW c \in Submissions, GiveUpWaiting(c)
      PROVE  Verdict(job'[v]) = 202
  BY <1>2 DEF GiveUpWaiting, Admitted
<1>3. ASSUME NEW w \in Processes, Crash(w)
      PROVE  Verdict(job'[v]) = 202
  BY <1>3 DEF Crash, TypeOK, Admitted
<1>4. ASSUME NEW w \in Processes, JobDone(w)
      PROVE  Verdict(job'[v]) = 202
  BY <1>4 DEF JobDone, TypeOK, Admitted
<1>5. ASSUME NEW w \in Processes, Handle(w)
      PROVE  Verdict(job'[v]) = 202
  <2>1. CASE LookupMiss(w)
    BY <2>1 DEF LookupMiss, TypeOK, Admitted
  <2>2. CASE InsertConflict(w)
    BY <2>2 DEF InsertConflict, TypeOK, Admitted
  <2>3. CASE Insert(w)
    BY <2>3 DEF Insert, TypeOK, Admitted
  <2> QED
    BY <1>4, <1>5, <2>1, <2>2, <2>3, HandleEnds
<1>6. CASE UNCHANGED vars
  BY <1>6 DEF vars, server, Admitted
<1> QED
  BY <1>1, <1>2, <1>3, <1>5, <1>6 DEF Next

\* Between the commit of a row and its answer a process knows the row, which
\* is the one its submission made, and no other process is to announce it.
RowAwaits(w) ==
    /\ newId[w] \in DOMAIN table
    /\ table[newId[w]] = [key |-> Key(job[w]), from |-> job[w]]

StoredKnown ==
    /\ \A w \in Processes : step[w] = "stored" => RowAwaits(w)
    /\ \A v, w \in Processes :
          step[v] = "stored" /\ step[w] = "stored" /\ newId[v] = newId[w] => v = w

\* A step that neither stores nor announces a row.
NoNews ==
    /\ UNCHANGED table
    /\ \A v \in Processes : step'[v] = "stored" =>
          step[v] = "stored" /\ newId'[v] = newId[v] /\ job'[v] = job[v]

LEMMA NoNewsKeeps == StoredKnown /\ NoNews => StoredKnown'
  BY DEF StoredKnown, NoNews, RowAwaits, Key

LEMMA QuietStep ==
  TypeOK /\ [Next]_vars => NoNews \/ \E w \in Processes : Insert(w)
<1> SUFFICES ASSUME TypeOK, [Next]_vars, ~\E w \in Processes : Insert(w)
             PROVE  NoNews
  OBVIOUS
<1>1. ASSUME NEW w \in Processes, Handle(w)
      PROVE  NoNews
  <2>1. UNCHANGED table
    BY <1>1 DEF Handle, Refuse, LookupHit, LookupMiss, LookupFails, Accept, InsertConflict,
       InsertFails, Reselect, ReselectFails
  <2>2. CASE JobDone(w) /\ newId' = [newId EXCEPT ![w] = 0]
    BY <2>1, <2>2 DEF JobDone, NoNews, TypeOK
  <2>3. CASE LookupMiss(w)
    BY <2>3 DEF LookupMiss, NoNews, TypeOK
  <2>4. CASE InsertConflict(w)
    BY <2>4 DEF InsertConflict, NoNews, TypeOK
  <2>5. LookupMiss(w) \/ InsertConflict(w) \/ JobDone(w)
    BY <1>1, HandleEnds
  <2>6. LookupMiss(w) \/ InsertConflict(w) \/ newId' = [newId EXCEPT ![w] = 0]
    BY <1>1 DEF Handle, Refuse, LookupHit, LookupFails, Accept, InsertFails, Reselect,
       ReselectFails, Respond
  <2> QED
    BY <2>2, <2>3, <2>4, <2>5, <2>6
<1>2. ASSUME NEW c \in Submissions, NEW w \in Processes, Send(c, w)
      PROVE  NoNews
  BY <1>2 DEF Send, NoNews, TypeOK
<1>3. ASSUME NEW w \in Processes, Crash(w)
      PROVE  NoNews
  BY <1>3 DEF Crash, NoNews, TypeOK
<1> QED
  BY <1>1, <1>2, <1>3 DEF Next, GiveUpWaiting, NoNews, vars, server

\* What an INSERT does to the rows.
LEMMA InsertedRow ==
  ASSUME TypeOK, NEW w \in Processes, Insert(w)
  PROVE  LET k == Len(table) + 1
             r == [key |-> Key(job[w]), from |-> job[w]]
         IN  /\ k \notin DOMAIN table
             /\ DOMAIN table' = DOMAIN table \cup {k}
             /\ \A i \in DOMAIN table : table'[i] = table[i]
             /\ table'[k] = r
             /\ newId' = [newId EXCEPT ![w] = k]
<1> DEFINE k == Len(table) + 1
           r == [key |-> Key(job[w]), from |-> job[w]]
<1>1. r \in Row /\ table' = Append(table, r)
  BY DEF Insert, TypeOK, Row
<1>2. /\ Len(table) \in Nat
      /\ DOMAIN table = 1..Len(table)
      /\ DOMAIN table' = 1..k
      /\ \A i \in DOMAIN table : table'[i] = table[i]
      /\ table'[k] = r
  BY <1>1, AppendedRow
<1>3. Len(table') = k
  <2>1. table \in Seq(Row)
    BY DEF TypeOK
  <2> QED
    BY <1>1, <2>1, AppendProperties
<1> QED
  BY <1>2, <1>3 DEF Insert

LEMMA StoredStep ==
  TypeOK /\ StoredKnown /\ [Next]_vars => StoredKnown'
<1> SUFFICES ASSUME TypeOK, StoredKnown, NEW w \in Processes, Insert(w)
             PROVE  StoredKnown'
  BY QuietStep, NoNewsKeeps
<1> DEFINE k == Len(table) + 1
<1>1. /\ k \notin DOMAIN table
      /\ DOMAIN table' = DOMAIN table \cup {k}
      /\ \A i \in DOMAIN table : table'[i] = table[i]
      /\ table'[k] = [key |-> Key(job[w]), from |-> job[w]]
      /\ newId' = [newId EXCEPT ![w] = k]
  BY InsertedRow
<1> HIDE DEF k
<1>2. /\ job' = job
      /\ \A v \in Processes : v # w => step'[v] = step[v] /\ newId'[v] = newId[v]
      /\ newId'[w] = k
  BY <1>1 DEF Insert, TypeOK
<1>3. \A v \in Processes : v # w /\ step'[v] = "stored" => RowAwaits(v) /\ newId[v] # k
  BY <1>1, <1>2 DEF StoredKnown, RowAwaits
<1>4. \A v \in Processes : step'[v] = "stored" => RowAwaits(v)'
  BY <1>1, <1>2, <1>3 DEF RowAwaits, Key
<1>5. \A u, v \in Processes :
         step'[u] = "stored" /\ step'[v] = "stored" /\ newId'[u] = newId'[v] => u = v
  BY <1>2, <1>3 DEF StoredKnown
<1> QED
  BY <1>4, <1>5 DEF StoredKnown

\* A handler that ends without announcing a row has none to announce.
LEMMA OwedKept ==
  ASSUME TypeOK, NEW w \in Processes, step[w] # "stored", step'[w] # "stored",
         \A v \in Processes \ {w} : step'[v] = step[v] /\ newId'[v] = newId[v]
  PROVE  Owed' = Owed
<1>1. \A i \in Owed : i \in Owed'
  BY DEF Owed
<1>2. \A i \in Owed' : i \in Owed
  BY DEF Owed
<1> QED
  BY <1>1, <1>2

\* The row of a process that stops being about to announce it.
LEMMA OwedLost ==
  ASSUME TypeOK, StoredKnown, NEW w \in Processes, step[w] = "stored",
         step'[w] # "stored",
         \A v \in Processes \ {w} : step'[v] = step[v] /\ newId'[v] = newId[v]
  PROVE  newId[w] \in Owed /\ Owed' = Owed \ {newId[w]}
<1>1. newId[w] \in Owed
  BY DEF Owed
<1>2. \A i \in Owed \ {newId[w]} : i \in Owed'
  BY DEF Owed
<1>3. \A i \in Owed' : i \in Owed /\ i # newId[w]
  BY DEF Owed, StoredKnown
<1> QED
  BY <1>1, <1>2, <1>3

LEMMA OwedMore ==
  ASSUME TypeOK, NEW w \in Processes, Insert(w)
  PROVE  Owed' = Owed \cup {Len(table) + 1}
<1> DEFINE k == Len(table) + 1
<1>1. newId' = [newId EXCEPT ![w] = k]
  BY InsertedRow
<1> HIDE DEF k
<1>2. /\ step[w] = "insert" /\ step'[w] = "stored" /\ newId'[w] = k
      /\ \A v \in Processes \ {w} : step'[v] = step[v] /\ newId'[v] = newId[v]
  BY <1>1 DEF Insert, TypeOK
<1>3. \A i \in Owed' : i \in Owed \cup {k}
  BY <1>2 DEF Owed
<1>4. \A i \in Owed \cup {k} : i \in Owed'
  BY <1>2 DEF Owed
<1> QED
  BY <1>3, <1>4 DEF k

\* What Respond leaves of the handlers.
LEMMA RespondEnds ==
  ASSUME TypeOK, NEW w \in Processes, NEW code, NEW id, NEW dup,
         Respond(w, code, id, dup)
  PROVE  /\ step'[w] # "stored"
         /\ \A v \in Processes \ {w} : step'[v] = step[v] /\ newId'[v] = newId[v]
  BY DEF Respond, TypeOK

\* A step of the store in which no answer is lost.
StoreActs ==
    \/ \E c \in Submissions :
          StoreImpl!Store(c) \/ StoreImpl!Repeat(c) \/ StoreImpl!Decline(c)
    \/ \E i \in Owed : StoreImpl!Announce(i)

\* The answer of the two statements that find a row.
NamesRow(w) ==
    \E i \in DOMAIN table : table[i].key = Key(job[w]) /\ Respond(w, 202, i, TRUE)

\* The step a respond with a 202 for a stored row is in the store.
LEMMA RepeatStep ==
  ASSUME TypeOK, NEW w \in Processes, job[w] \in Submissions, step[w] # "stored",
         Verdict(job[w]) = 202, UNCHANGED table,
         NamesRow(w)
  PROVE  StoreActs
<1> DEFINE c == job[w]
<1>0. PICK i \in DOMAIN table : table[i].key = Key(c) /\ Respond(w, 202, i, TRUE)
  BY DEF NamesRow
<1>1. StoreImpl!Answer(c, 202, i, TRUE)
  BY <1>0 DEF StoreImpl!Answer, Respond
<1>2. Owed' = Owed
  <2>1. /\ step'[w] # "stored"
        /\ \A v \in Processes \ {w} : step'[v] = step[v] /\ newId'[v] = newId[v]
    BY <1>0 DEF Respond, TypeOK
  <2> QED
    BY <2>1, OwedKept
<1>3. StoreImpl!Repeat(c)
  <2>1. [d \in Submissions |-> Verdict(d)][c] = 202
    OBVIOUS
  <2>2. [d \in Submissions |-> Key(d)][c] = Key(c)
    OBVIOUS
  <2>3. table[i].key = Key(c)
    BY <1>0
  <2>4. UNCHANGED <<table, Owed>>
    BY <1>2
  <2> QED
    BY <1>1, <2>1, <2>2, <2>3, <2>4 DEF StoreImpl!Repeat
<1> QED
  BY <1>3 DEF StoreActs

LEMMA DeclineStep ==
  ASSUME TypeOK, NEW w \in Processes, job[w] \in Submissions, step[w] # "stored",
         UNCHANGED table,
         NEW code \in Errors \cup ({Verdict(job[w])} \ {202}),
         Respond(w, code, 0, FALSE)
  PROVE  StoreActs
<1> DEFINE c == job[w]
<1>1. StoreImpl!Answer(c, code, 0, FALSE)
  BY DEF StoreImpl!Answer, Respond
<1>2. Owed' = Owed
  BY RespondEnds, OwedKept
<1>3. StoreImpl!Decline(c)
  BY <1>1, <1>2 DEF StoreImpl!Decline
<1> QED
  BY <1>3 DEF StoreActs

LEMMA CrashForgets ==
  ASSUME TypeOK, StoredKnown, NEW w \in Processes, Crash(w)
  PROVE  \/ UNCHANGED <<table, answers, Owed>>
         \/ StoreImpl!Forget(newId[w]) /\ newId[w] \in Owed
<1>1. /\ step'[w] # "stored"
      /\ \A v \in Processes \ {w} : step'[v] = step[v] /\ newId'[v] = newId[v]
      /\ UNCHANGED <<table, answers>>
  BY DEF Crash, TypeOK
<1>2. CASE step[w] = "stored"
  <2>1. newId[w] \in Owed /\ Owed' = Owed \ {newId[w]}
    BY <1>1, <1>2, OwedLost
  <2> QED
    BY <1>1, <2>1 DEF StoreImpl!Forget
<1>3. CASE step[w] # "stored"
  BY <1>1, <1>3, OwedKept
<1> QED
  BY <1>2, <1>3

LEMMA AcceptAnnounces ==
  ASSUME TypeOK, StoredKnown, NEW w \in Processes, Accept(w)
  PROVE  StoreImpl!Announce(newId[w]) /\ newId[w] \in Owed
<1>1. Respond(w, 202, newId[w], FALSE) /\ step[w] = "stored" /\ UNCHANGED table
  BY DEF Accept
<1>2. newId[w] \in Owed /\ Owed' = Owed \ {newId[w]}
  BY <1>1, RespondEnds, OwedLost
<1>3. table[newId[w]].from = job[w]
  <2>1. table[newId[w]] = [key |-> Key(job[w]), from |-> job[w]]
    BY <1>1 DEF StoredKnown, RowAwaits
  <2> QED
    BY <2>1
<1>4. StoreImpl!Answer(table[newId[w]].from, 202, newId[w], FALSE)
  BY <1>1, <1>3 DEF Respond, StoreImpl!Answer
<1> QED
  BY <1>1, <1>2, <1>4 DEF StoreImpl!Announce

\* Each statement of the handler is a step of the store or leaves it alone.
LEMMA HandleActs ==
  ASSUME TypeOK, ConflictKnown, Admitted, StoredKnown, NEW w \in Processes, Handle(w)
  PROVE  StoreActs \/ UNCHANGED <<table, answers, Owed>>
<1>0. step[w] # "idle" => job[w] \in Submissions
  BY DEF TypeOK
<1>1. CASE Refuse(w)
  BY <1>0, <1>1, DeclineStep DEF Refuse
<1>2. CASE LookupHit(w)
  <2>1. job[w] \in Submissions /\ Verdict(job[w]) = 202
    BY <1>0, <1>2 DEF LookupHit
  <2>2. NamesRow(w)
    BY <1>2 DEF LookupHit, NamesRow
  <2>3. UNCHANGED table
    BY <1>2 DEF LookupHit
  <2>4. step[w] # "stored"
    BY <1>2 DEF LookupHit
  <2> QED
    BY <2>1, <2>2, <2>3, <2>4, RepeatStep
<1>3. CASE LookupMiss(w)
  <2>1. /\ step[w] # "stored" /\ step'[w] # "stored"
        /\ \A v \in Processes \ {w} : step'[v] = step[v] /\ newId'[v] = newId[v]
        /\ UNCHANGED <<table, answers>>
    BY <1>3 DEF LookupMiss, TypeOK
  <2> QED
    BY <2>1, OwedKept
<1>4. CASE LookupFails(w)
  <2>1. 500 \in Errors /\ job[w] \in Submissions
    BY <1>0, <1>4 DEF Errors, LookupFails
  <2>2. Respond(w, 500, 0, FALSE) /\ UNCHANGED table
    BY <1>4 DEF LookupFails
  <2>3. step[w] # "stored"
    BY <1>4 DEF LookupFails
  <2> QED
    BY <2>1, <2>2, <2>3, DeclineStep
<1>5. CASE Insert(w)
  <2> DEFINE c == job[w]
  <2>1. c \in Submissions /\ Verdict(c) = 202
    BY <1>0, <1>5 DEF Insert, Admitted
  <2>2. Owed' = Owed \cup {Len(table) + 1}
    BY <1>5, OwedMore
  <2>3. StoreImpl!Store(c)
    BY <1>5, <2>1, <2>2 DEF Insert, Known, StoreImpl!Store
  <2> QED
    BY <2>1, <2>3 DEF StoreActs
<1>10. CASE Accept(w)
  BY <1>10, AcceptAnnounces DEF StoreActs
<1>6. CASE InsertConflict(w)
  <2>1. /\ step[w] # "stored" /\ step'[w] # "stored"
        /\ \A v \in Processes \ {w} : step'[v] = step[v] /\ newId'[v] = newId[v]
        /\ UNCHANGED <<table, answers>>
    BY <1>6 DEF InsertConflict, counts, TypeOK
  <2> QED
    BY <2>1, OwedKept
<1>7. CASE InsertFails(w)
  <2>1. 503 \in Errors /\ job[w] \in Submissions
    BY <1>0, <1>7 DEF Errors, InsertFails
  <2>2. Respond(w, 503, 0, FALSE) /\ UNCHANGED table
    BY <1>7 DEF InsertFails
  <2>3. step[w] # "stored"
    BY <1>7 DEF InsertFails
  <2> QED
    BY <2>1, <2>2, <2>3, DeclineStep
<1>8. CASE Reselect(w)
  <2>1. Known(job[w]) /\ job[w] \in Submissions /\ Verdict(job[w]) = 202
    BY <1>0, <1>8 DEF Reselect, ConflictKnown, Admitted
  <2>2. NamesRow(w)
    BY <1>8, <2>1 DEF Reselect, NamesRow
  <2>3. UNCHANGED table
    BY <1>8 DEF Reselect
  <2>4. step[w] # "stored"
    BY <1>8 DEF Reselect
  <2> QED
    BY <2>1, <2>2, <2>3, <2>4, RepeatStep
<1>9. CASE ReselectFails(w)
  <2>1. 500 \in Errors /\ job[w] \in Submissions
    BY <1>0, <1>9 DEF Errors, ReselectFails
  <2>2. Respond(w, 500, 0, FALSE) /\ UNCHANGED table
    BY <1>9 DEF ReselectFails
  <2>3. step[w] # "stored"
    BY <1>9 DEF ReselectFails
  <2> QED
    BY <2>1, <2>2, <2>3, DeclineStep
<1> QED
  BY <1>1, <1>2, <1>3, <1>4, <1>5, <1>6, <1>7, <1>8, <1>9, <1>10 DEF Handle

LEMMA StoreStep ==
  TypeOK /\ ConflictKnown /\ Admitted /\ StoredKnown /\ [Next]_vars
    => \/ StoreActs
       \/ UNCHANGED <<table, answers, Owed>>
       \/ \E w \in Processes :
             Crash(w) /\ StoreImpl!Forget(newId[w]) /\ newId[w] \in Owed
<1> DEFINE Goal == \/ StoreActs
                   \/ UNCHANGED <<table, answers, Owed>>
                   \/ \E w \in Processes :
                         Crash(w) /\ StoreImpl!Forget(newId[w]) /\ newId[w] \in Owed
<1> SUFFICES ASSUME TypeOK, ConflictKnown, Admitted, StoredKnown, [Next]_vars
             PROVE  Goal
  OBVIOUS
<1>1. ASSUME NEW w \in Processes, Handle(w)
      PROVE  Goal
  BY <1>1, HandleActs
<1>2. ASSUME NEW c \in Submissions, NEW w \in Processes, Send(c, w)
      PROVE  Goal
  <2>1. /\ step[w] # "stored" /\ step'[w] # "stored"
        /\ \A v \in Processes \ {w} : step'[v] = step[v] /\ newId'[v] = newId[v]
        /\ UNCHANGED <<table, answers>>
    BY <1>2 DEF Send, TypeOK
  <2> QED
    BY <2>1, OwedKept
<1>3. ASSUME NEW w \in Processes, Crash(w)
      PROVE  Goal
  BY <1>3, CrashForgets
<1>4. CASE UNCHANGED <<table, answers, step, newId>>
  BY <1>4 DEF Owed
<1> QED
  BY <1>1, <1>2, <1>3, <1>4 DEF Next, GiveUpWaiting, vars, server

\* TypeOK with what is known of a handler past its first SELECT.
Handlers == TypeOK /\ ConflictKnown /\ Admitted /\ StoredKnown

LEMMA HandlersInvariant == Spec => []Handlers
<1>1. Init => Handlers
  BY InitTyped DEF Handlers, Init, ConflictKnown, Admitted, StoredKnown
<1>2. Handlers /\ [Next]_vars => Handlers'
  BY TypeStep, ConflictStep, AdmittedStep, StoredStep DEF Handlers
<1> QED
  BY <1>1, <1>2, PTL DEF Spec

\* The SELECT, the INSERT and the second SELECT behave, under any
\* interleaving of processes, errors, crashes and lost answers, as one
\* atomic look-up-or-store, followed by one answer that the row is new or, if
\* the process dies before it, by none; the handler's 409 is never given.
THEOREM IntakeImplementsStore == Spec => ImplementsStore
<1>1. Init => StoreImpl!Init
  BY DEF Init, StoreImpl!Init, Owed
<1>2. Handlers /\ [Next]_vars => [StoreImpl!Next]_<<table, answers, Owed>>
  BY StoreStep DEF Handlers, StoreActs, StoreImpl!Next
<1> QED
  BY <1>1, <1>2, HandlersInvariant, PTL
  DEF Spec, ImplementsStore, StoreImpl!Spec, StoreImpl!store

-----------------------------------------------------------------------------
(* What the store promises holds of the handler.                           *)

\* Each row carries the key of the submission it was made from.
RowsOwnKey == \A i \in DOMAIN table : table[i].key = Key(table[i].from)

OneRowPerKey == \A i, j \in DOMAIN table : table[i].key = table[j].key => i = j

\* The first two parts of FreshOnce.
OnlyMaker ==
    \A a \in answers :
        a.code = 202 /\ ~a.duplicated =>
            a.id \in DOMAIN table /\ a.to = table[a.id].from

OwedStored == Owed \subseteq DOMAIN table /\ Owed \cap Announced = {}

StoreInv == RowsOwnKey /\ OneRowPerKey /\ AnswerNamesRow /\ OnlyMaker /\ OwedStored

\* What an answer adds to the announcements.
LEMMA AnnouncedMore ==
  ASSUME NEW c, NEW code, NEW id, NEW dup,
         answers' = answers \cup
           {[to |-> c, code |-> code, id |-> id, duplicated |-> dup]}
  PROVE  Announced' = IF code = 202 /\ ~dup THEN Announced \cup {id} ELSE Announced
<1> DEFINE a == [to |-> c, code |-> code, id |-> id, duplicated |-> dup]
<1>1. a.code = code /\ a.id = id /\ a.duplicated = dup
  OBVIOUS
<1> HIDE DEF a
<1>2. answers' = answers \cup {a}
  BY DEF a
<1>3. CASE code = 202 /\ ~dup
  <2>1. \A i \in Announced \cup {id} : i \in Announced'
    BY <1>1, <1>2, <1>3 DEF Announced
  <2>2. \A i \in Announced' : i \in Announced \cup {id}
    BY <1>1, <1>2 DEF Announced
  <2> QED
    BY <1>3, <2>1, <2>2
<1>4. CASE ~(code = 202 /\ ~dup)
  <2>1. \A i \in Announced : i \in Announced'
    BY <1>2 DEF Announced
  <2>2. \A i \in Announced' : i \in Announced
    BY <1>1, <1>2, <1>4 DEF Announced
  <2> QED
    BY <1>4, <2>1, <2>2
<1> QED
  BY <1>3, <1>4

\* What the abstract Store does.
LEMMA StoreAdds ==
  ASSUME TypeOK, StoreInv, NEW c \in Submissions, StoreImpl!Store(c)
  PROVE  LET k == Len(table) + 1
         IN  /\ k \notin DOMAIN table
             /\ DOMAIN table' = DOMAIN table \cup {k}
             /\ \A i \in DOMAIN table : table'[i] = table[i] /\ table[i].key # Key(c)
             /\ table'[k] = [key |-> Key(c), from |-> c]
             /\ Owed' = Owed \cup {k}
             /\ UNCHANGED <<answers, Announced>>
             /\ k \notin Announced
<1> DEFINE k == Len(table) + 1
           r == [key |-> Key(c), from |-> c]
<1>1. r \in Row /\ table' = Append(table, r) /\ Owed' = Owed \cup {k} /\ answers' = answers
  BY DEF StoreImpl!Store, Row
<1>2. \A i \in DOMAIN table : table[i].key # Key(c)
  BY DEF StoreImpl!Store
<1>3. /\ k \notin DOMAIN table
      /\ DOMAIN table' = DOMAIN table \cup {k}
      /\ \A i \in DOMAIN table : table'[i] = table[i]
      /\ table'[k] = r
  BY <1>1, AppendedRow
<1>4. Announced' = Announced /\ Announced \subseteq DOMAIN table
  BY <1>1 DEF Announced, StoreInv, OnlyMaker
<1> QED
  BY <1>1, <1>2, <1>3, <1>4

\* Inductive under the steps of the abstract store.
LEMMA StoreInvStep ==
  TypeOK /\ StoreInv /\ [StoreImpl!Next]_<<table, answers, Owed>> => StoreInv'
<1> SUFFICES ASSUME TypeOK, StoreInv,
                    StoreImpl!Next \/ UNCHANGED <<table, answers, Owed>>
             PROVE  StoreInv'
  OBVIOUS
<1>1. ASSUME NEW c \in Submissions, StoreImpl!Store(c)
      PROVE  StoreInv'
  <2> DEFINE k == Len(table) + 1
  <2>1. /\ k \notin DOMAIN table
        /\ DOMAIN table' = DOMAIN table \cup {k}
        /\ \A i \in DOMAIN table : table'[i] = table[i] /\ table[i].key # Key(c)
        /\ table'[k] = [key |-> Key(c), from |-> c]
        /\ Owed' = Owed \cup {k}
        /\ UNCHANGED <<answers, Announced>>
        /\ k \notin Announced
    BY <1>1, StoreAdds
  <2> HIDE DEF k
  <2>2. RowsOwnKey'
    BY <2>1 DEF StoreInv, RowsOwnKey, Key
  <2>3. OneRowPerKey'
    BY <2>1 DEF StoreInv, OneRowPerKey
  <2>4. AnswerNamesRow'
    BY <2>1 DEF StoreInv, AnswerNamesRow, Key
  <2>5. OnlyMaker'
    BY <2>1 DEF StoreInv, OnlyMaker
  <2>6. OwedStored'
    BY <2>1 DEF StoreInv, OwedStored
  <2> QED
    BY <2>2, <2>3, <2>4, <2>5, <2>6 DEF StoreInv
<1>2. ASSUME NEW i \in Owed, StoreImpl!Announce(i)
      PROVE  StoreInv'
  <2>1. /\ answers' = answers \cup
              {[to |-> table[i].from, code |-> 202, id |-> i, duplicated |-> FALSE]}
        /\ Owed' = Owed \ {i} /\ table' = table
    BY <1>2 DEF StoreImpl!Announce, StoreImpl!Answer
  <2>2. Announced' = Announced \cup {i}
    BY <2>1, AnnouncedMore
  <2>3. i \in DOMAIN table /\ table[i].key = Key(table[i].from)
    BY DEF StoreInv, OwedStored, RowsOwnKey
  <2>4. AnswerNamesRow'
    BY <2>1, <2>3 DEF StoreInv, AnswerNamesRow, Key
  <2>5. OnlyMaker'
    BY <2>1, <2>3 DEF StoreInv, OnlyMaker
  <2>6. OwedStored'
    BY <2>1, <2>2 DEF StoreInv, OwedStored
  <2> QED
    BY <2>1, <2>4, <2>5, <2>6 DEF StoreInv, RowsOwnKey, OneRowPerKey, Key
<1>3. ASSUME NEW c \in Submissions, StoreImpl!Repeat(c)
      PROVE  StoreInv'
  <2>1. PICK i \in DOMAIN table :
           /\ table[i].key = Key(c)
           /\ answers' = answers \cup
                {[to |-> c, code |-> 202, id |-> i, duplicated |-> TRUE]}
    BY <1>3 DEF StoreImpl!Repeat, StoreImpl!Answer
  <2>2. table' = table /\ Owed' = Owed
    BY <1>3 DEF StoreImpl!Repeat
  <2>3. Announced' = Announced
    BY <2>1, AnnouncedMore
  <2>4. AnswerNamesRow'
    BY <2>1, <2>2 DEF StoreInv, AnswerNamesRow, Key
  <2>5. OnlyMaker'
    BY <2>1, <2>2 DEF StoreInv, OnlyMaker
  <2> QED
    BY <2>2, <2>3, <2>4, <2>5 DEF StoreInv, RowsOwnKey, OneRowPerKey, OwedStored, Key
<1>4. ASSUME NEW c \in Submissions, StoreImpl!Decline(c)
      PROVE  StoreInv'
  <2>1. PICK code \in Errors \cup ({Verdict(c)} \ {202}) :
           answers' = answers \cup
             {[to |-> c, code |-> code, id |-> 0, duplicated |-> FALSE]}
    BY <1>4 DEF StoreImpl!Decline, StoreImpl!Answer
  <2>2. code # 202 /\ table' = table /\ Owed' = Owed
    BY <1>4 DEF StoreImpl!Decline, Errors
  <2>3. Announced' = Announced
    <3> DEFINE b == [to |-> c, code |-> code, id |-> 0, duplicated |-> FALSE]
    <3>1. answers' = answers \cup {b} /\ b.code # 202
      BY <2>1, <2>2
    <3> HIDE DEF b
    <3> QED
      BY <3>1 DEF Announced
  <2>4. AnswerNamesRow'
    BY <2>1, <2>2 DEF StoreInv, AnswerNamesRow, Key
  <2>5. OnlyMaker'
    BY <2>1, <2>2 DEF StoreInv, OnlyMaker
  <2> QED
    BY <2>2, <2>3, <2>4, <2>5 DEF StoreInv, RowsOwnKey, OneRowPerKey, OwedStored, Key
<1>5. ASSUME UNCHANGED <<table, answers>>, Owed' \subseteq Owed
      PROVE  StoreInv'
  BY <1>5 DEF StoreInv, RowsOwnKey, OneRowPerKey, AnswerNamesRow, OnlyMaker, OwedStored,
     Announced, Key
<1>6. ASSUME NEW i \in Owed, StoreImpl!Forget(i)
      PROVE  StoreInv'
  BY <1>5, <1>6 DEF StoreImpl!Forget
<1> QED
  BY <1>1, <1>2, <1>3, <1>4, <1>5, <1>6 DEF StoreImpl!Next

LEMMA StoreInvariant == Spec => []StoreInv
<1>1. Init => StoreInv
  BY DEF Init, StoreInv, RowsOwnKey, OneRowPerKey, AnswerNamesRow, OnlyMaker,
     OwedStored, Owed, Announced
<1>2. Handlers /\ StoreInv /\ [Next]_vars => StoreInv'
  <2>1. Handlers /\ [Next]_vars => [StoreImpl!Next]_<<table, answers, Owed>>
    BY StoreStep DEF Handlers, StoreActs, StoreImpl!Next
  <2> QED
    BY <2>1, StoreInvStep DEF Handlers
<1> QED
  BY <1>1, <1>2, HandlersInvariant, PTL DEF Spec

\* A 202 is never given before the row it names is stored.
THEOREM AnswerNamesRowCorrect == Spec => []AnswerNamesRow
<1>1. StoreInv => AnswerNamesRow
  BY DEF StoreInv
<1> QED
  BY <1>1, StoreInvariant, PTL

\* Requests with one key get one id and leave one row.
THEOREM OneIdPerKeyCorrect == Spec => []OneIdPerKey
<1>1. StoreInv => OneIdPerKey
  BY DEF StoreInv, OneIdPerKey, AnswerNamesRow, OneRowPerKey
<1> QED
  BY <1>1, StoreInvariant, PTL

\* Rows of which nobody has been told, or will be, that they are new.
Unheard == DOMAIN table \ (Announced \cup Owed)

UnheardBounded == Cardinality(Unheard) <= restarts

LEMMA UnheardFinite == TypeOK => IsFiniteSet(Unheard)
<1> SUFFICES ASSUME TypeOK PROVE IsFiniteSet(Unheard)
  OBVIOUS
<1>1. table \in Seq(Row)
  BY DEF TypeOK
<1>2. DOMAIN table = 1..Len(table) /\ Len(table) \in Nat
  BY <1>1, LenProperties
<1>3. IsFiniteSet(DOMAIN table)
  BY <1>2, FS_Interval
<1>4. Unheard \subseteq DOMAIN table
  BY DEF Unheard
<1> QED
  BY <1>3, <1>4, FS_Subset

\* Only a crash adds to them, and one row at most.
LEMMA UnheardStep ==
  ASSUME Handlers, StoreInv, [Next]_vars
  PROVE  \/ Unheard' \subseteq Unheard /\ restarts' \in {restarts, restarts + 1}
         \/ \E i : Unheard' \subseteq Unheard \cup {i} /\ restarts' = restarts + 1
<1> DEFINE Fewer == Unheard' \subseteq Unheard
<1>1. TypeOK
  BY DEF Handlers
<1>2. restarts' \in {restarts, restarts + 1}
  BY DEF Next, Handle, Send, GiveUpWaiting, Crash, Refuse, LookupHit, LookupMiss, LookupFails,
     Insert, Accept, InsertConflict, InsertFails, Reselect, ReselectFails, vars, bounds
<1>3. ASSUME NEW c \in Submissions, StoreImpl!Store(c)
      PROVE  Fewer
  <2> DEFINE k == Len(table) + 1
  <2>1. DOMAIN table' = DOMAIN table \cup {k} /\ Owed' = Owed \cup {k} /\ Announced' = Announced
    BY <1>1, <1>3, StoreAdds
  <2> QED
    BY <2>1 DEF Unheard
<1>4. ASSUME NEW i \in Owed, StoreImpl!Announce(i)
      PROVE  Fewer
  <2>1. Announced' = Announced \cup {i}
    BY <1>4, AnnouncedMore DEF StoreImpl!Announce, StoreImpl!Answer
  <2>2. Owed' = Owed \ {i} /\ table' = table
    BY <1>4 DEF StoreImpl!Announce
  <2> QED
    BY <2>1, <2>2 DEF Unheard
<1>5. ASSUME UNCHANGED <<table, Owed>>, answers \subseteq answers'
      PROVE  Fewer
  <2>1. Announced \subseteq Announced'
    BY <1>5 DEF Announced
  <2> QED
    BY <1>5, <2>1 DEF Unheard
<1>6. ASSUME NEW c \in Submissions, StoreImpl!Repeat(c) \/ StoreImpl!Decline(c)
      PROVE  Fewer
  BY <1>5, <1>6 DEF StoreImpl!Repeat, StoreImpl!Decline, StoreImpl!Answer
<1>7. ASSUME NEW w \in Processes, Crash(w), StoreImpl!Forget(newId[w])
      PROVE  \E i : Unheard' \subseteq Unheard \cup {i} /\ restarts' = restarts + 1
  <2>1. /\ Owed' = Owed \ {newId[w]} /\ UNCHANGED <<table, answers>>
        /\ restarts' = restarts + 1
    BY <1>7 DEF StoreImpl!Forget, Crash
  <2>2. Announced' = Announced
    BY <2>1 DEF Announced
  <2>3. Unheard' \subseteq Unheard \cup {newId[w]}
    BY <2>1, <2>2 DEF Unheard
  <2> QED
    BY <2>1, <2>3
<1>8. \/ StoreActs
      \/ UNCHANGED <<table, answers, Owed>>
      \/ \E w \in Processes : Crash(w) /\ StoreImpl!Forget(newId[w]) /\ newId[w] \in Owed
  BY StoreStep DEF Handlers
<1> QED
  BY <1>2, <1>3, <1>4, <1>5, <1>6, <1>7, <1>8 DEF StoreActs

LEMMA UnheardBoundedStep ==
  ASSUME Handlers, StoreInv, UnheardBounded, [Next]_vars
  PROVE  UnheardBounded'
<1>1. IsFiniteSet(Unheard) /\ Cardinality(Unheard) \in Nat /\ restarts \in Nat
  BY UnheardFinite, FS_CardinalityType DEF Handlers, TypeOK
<1>2. ASSUME NEW S, IsFiniteSet(S), Unheard' \subseteq S
      PROVE  Cardinality(Unheard') <= Cardinality(S)
  BY <1>2, FS_Subset
<1>3. CASE Unheard' \subseteq Unheard /\ restarts' \in {restarts, restarts + 1}
  <2>1. Cardinality(Unheard') \in Nat
    BY <1>1, <1>3, FS_Subset, FS_CardinalityType
  <2>2. Cardinality(Unheard') <= Cardinality(Unheard)
    BY <1>1, <1>2, <1>3
  <2>3. restarts <= restarts' /\ restarts' \in Nat
    BY <1>1, <1>3
  <2> QED
    BY <1>1, <2>1, <2>2, <2>3 DEF UnheardBounded
<1>4. ASSUME NEW i, Unheard' \subseteq Unheard \cup {i}, restarts' = restarts + 1
      PROVE  UnheardBounded'
  <2>1. /\ IsFiniteSet(Unheard \cup {i})
        /\ Cardinality(Unheard \cup {i}) \in {Cardinality(Unheard), Cardinality(Unheard) + 1}
    BY <1>1, FS_AddElement
  <2>2. Cardinality(Unheard') \in Nat
    BY <1>4, <2>1, FS_Subset, FS_CardinalityType
  <2>3. Cardinality(Unheard') <= Cardinality(Unheard \cup {i})
    BY <1>2, <1>4, <2>1
  <2> QED
    BY <1>1, <1>4, <2>1, <2>2, <2>3 DEF UnheardBounded
<1> QED
  BY <1>3, <1>4, UnheardStep

LEMMA UnheardInvariant == Spec => []UnheardBounded
<1>1. Init => UnheardBounded
  <2> SUFFICES ASSUME Init PROVE UnheardBounded
    OBVIOUS
  <2>1. Unheard = {} /\ restarts = 0
    BY DEF Init, Unheard
  <2> QED
    BY <2>1, FS_EmptySet DEF UnheardBounded
<1>2. Handlers /\ StoreInv /\ UnheardBounded /\ [Next]_vars => UnheardBounded'
  BY UnheardBoundedStep
<1> QED
  BY <1>1, <1>2, HandlersInvariant, StoreInvariant, PTL DEF Spec

\* "new" is said of a row to nobody but the submission that made it, and of
\* all rows but one for each crash it is said.
THEOREM FreshOnceCorrect == Spec => []FreshOnce
<1>1. StoreInv /\ UnheardBounded => FreshOnce
  BY DEF StoreInv, OnlyMaker, OwedStored, UnheardBounded, Unheard, FreshOnce
<1> QED
  BY <1>1, StoreInvariant, UnheardInvariant, PTL

\* Submissions without a header are merged only with their like.
THEOREM HeaderlessKeepsContentCorrect == Spec => []HeaderlessKeepsContent
<1>1. StoreInv => HeaderlessKeepsContent
  <2> SUFFICES ASSUME StoreInv, NEW a \in answers, a.code = 202,
                      Header[a.to] = NoHeader
               PROVE  /\ Provider[table[a.id].from] = Provider[a.to]
                      /\ Payload[table[a.id].from] = Payload[a.to]
    BY DEF HeaderlessKeepsContent
  <2> DEFINE c == table[a.id].from
  <2>1. Key(c) = Key(a.to)
    BY DEF StoreInv, AnswerNamesRow, RowsOwnKey
  <2>2. Key(a.to) = <<"auto", Provider[a.to], Payload[a.to]>>
    BY DEF Key
  <2>3. CASE Header[c] = NoHeader
    BY <2>1, <2>2, <2>3 DEF Key
  <2>4. CASE Header[c] # NoHeader
    <3>1. Key(c) = <<"header", Header[c]>>
      BY <2>4 DEF Key
    <3>2. Key(c)[1] = "header" /\ Key(a.to)[1] = "auto"
      BY <3>1, <2>2
    <3> QED
      BY <2>1, <3>2
  <2> QED
    BY <2>3, <2>4
<1> QED
  BY <1>1, StoreInvariant, PTL

-----------------------------------------------------------------------------
(* The counter of received notifications.                                  *)

\* What a 202 does to the counts.
LEMMA AnswerCounts ==
  ASSUME TypeOK, NEW w \in Processes, NEW id, NEW dup,
         Respond(w, 202, id, dup), NEW v \in Processes
  PROVE  /\ acknowledged'[v] = acknowledged[v] + (IF v = w THEN 1 ELSE 0)
         /\ step'[v] = IF v = w THEN "idle" ELSE step[v]
  BY DEF Respond, TypeOK

LEMMA CountCounts ==
  ASSUME TypeOK, NEW w \in Processes, Count(w), NEW v \in Processes
  PROVE  received'[v] = received[v] + (IF v = w THEN 1 ELSE 0)
  BY DEF Count, TypeOK

\* Inductive next to ConflictKnown: were the second SELECT to find nothing,
\* a request would be counted and neither answered with 202 nor failed.
LEMMA ReceivedStep == Handlers /\ ReceivedBounded /\ [Next]_vars => ReceivedBounded'
<1> SUFFICES ASSUME TypeOK, ConflictKnown, ReceivedBounded, [Next]_vars,
                    NEW v \in Processes
             PROVE  LET handling == IF step'[v] \in {"insert", "stored", "reselect"} THEN 1 ELSE 0
                    IN  /\ acknowledged'[v] + handling <= received'[v]
                        /\ received'[v] <= acknowledged'[v] + handling + faults'
  BY DEF Handlers, ReceivedBounded
<1> DEFINE Goal == LET handling == IF step'[v] \in {"insert", "stored", "reselect"} THEN 1 ELSE 0
                   IN  /\ acknowledged'[v] + handling <= received'[v]
                       /\ received'[v] <= acknowledged'[v] + handling + faults'
<1>0. /\ received[v] \in Nat /\ acknowledged[v] \in Nat /\ faults \in Nat
      /\ LET handling == IF step[v] \in {"insert", "stored", "reselect"} THEN 1 ELSE 0
         IN  /\ acknowledged[v] + handling <= received[v]
             /\ received[v] <= acknowledged[v] + handling + faults
  BY DEF TypeOK, ReceivedBounded
<1>1. ASSUME NEW c \in Submissions, NEW w \in Processes, Send(c, w) PROVE Goal
  BY <1>0, <1>1 DEF Send, TypeOK, counts, bounds
<1>2. ASSUME NEW c \in Submissions, GiveUpWaiting(c) PROVE Goal
  BY <1>0, <1>2 DEF GiveUpWaiting, counts
<1>3. ASSUME NEW w \in Processes, Crash(w) PROVE Goal
  BY <1>0, <1>3 DEF Crash, TypeOK
<1>4. ASSUME NEW w \in Processes, Handle(w) PROVE Goal
  <2>1. CASE Refuse(w)
    <3>0. Verdict(job[w]) # 202
      BY <2>1 DEF Refuse
    <3>1. Respond(w, Verdict(job[w]), 0, FALSE)
      BY <2>1 DEF Refuse
    <3>2. UNCHANGED <<received, faults>> /\ step[w] = "validate"
      BY <2>1 DEF Refuse, bounds
    <3>3. /\ acknowledged'[v] = acknowledged[v]
          /\ step'[v] = IF v = w THEN "idle" ELSE step[v]
      BY <3>0, <3>1 DEF Respond, TypeOK
    <3> QED
      BY <1>0, <3>2, <3>3
  <2>2. CASE LookupHit(w)
    <3>1. PICK i : Respond(w, 202, i, TRUE)
      BY <2>2 DEF LookupHit
    <3>2. UNCHANGED faults /\ step[w] = "validate"
      BY <2>2 DEF LookupHit, bounds
    <3>3. /\ acknowledged'[v] = acknowledged[v] + (IF v = w THEN 1 ELSE 0)
          /\ step'[v] = IF v = w THEN "idle" ELSE step[v]
      BY <3>1, AnswerCounts
    <3>4. Count(w)
      BY <2>2 DEF LookupHit
    <3>5. received'[v] = received[v] + (IF v = w THEN 1 ELSE 0)
      BY <3>4, CountCounts
    <3> QED
      BY <1>0, <3>2, <3>3, <3>5
  <2>3. CASE LookupMiss(w)
    <3>1. Count(w) /\ faults' = faults /\ step[w] = "validate" /\ acknowledged' = acknowledged
      BY <2>3 DEF LookupMiss, bounds
    <3>2. step'[v] = IF v = w THEN "insert" ELSE step[v]
      BY <2>3 DEF LookupMiss, TypeOK
    <3> QED
      BY <1>0, <3>1, <3>2, CountCounts
  <2>4. CASE LookupFails(w)
    <3>1. Respond(w, 500, 0, FALSE)
      BY <2>4 DEF LookupFails
    <3>2. faults' = faults + 1 /\ step[w] = "validate"
      BY <2>4 DEF LookupFails, Fault
    <3>3. /\ acknowledged'[v] = acknowledged[v]
          /\ step'[v] = IF v = w THEN "idle" ELSE step[v]
      BY <3>1 DEF Respond, TypeOK
    <3>4. Count(w)
      BY <2>4 DEF LookupFails
    <3>5. received'[v] = received[v] + (IF v = w THEN 1 ELSE 0)
      BY <3>4, CountCounts
    <3> QED
      BY <1>0, <3>2, <3>3, <3>5
  <2>5. CASE Insert(w)
    BY <1>0, <2>5 DEF Insert, TypeOK, counts, bounds
  <2>10. CASE Accept(w)
    <3>1. Respond(w, 202, newId[w], FALSE)
      BY <2>10 DEF Accept
    <3>2. UNCHANGED <<received, faults>> /\ step[w] = "stored"
      BY <2>10 DEF Accept, bounds
    <3>3. /\ acknowledged'[v] = acknowledged[v] + (IF v = w THEN 1 ELSE 0)
          /\ step'[v] = IF v = w THEN "idle" ELSE step[v]
      BY <3>1, AnswerCounts
    <3> QED
      BY <1>0, <3>2, <3>3
  <2>6. CASE InsertConflict(w)
    BY <1>0, <2>6 DEF InsertConflict, TypeOK, counts, bounds
  <2>7. CASE InsertFails(w)
    <3>1. Respond(w, 503, 0, FALSE)
      BY <2>7 DEF InsertFails
    <3>2. UNCHANGED received /\ faults' = faults + 1 /\ step[w] = "insert"
      BY <2>7 DEF InsertFails, Fault
    <3>3. /\ acknowledged'[v] = acknowledged[v]
          /\ step'[v] = IF v = w THEN "idle" ELSE step[v]
      BY <3>1 DEF Respond, TypeOK
    <3> QED
      BY <1>0, <3>2, <3>3
  <2>8. CASE Reselect(w)
    <3>1. Known(job[w]) /\ UNCHANGED <<received, faults>> /\ step[w] = "reselect"
      BY <2>8 DEF Reselect, ConflictKnown, bounds
    <3>2. PICK i : Respond(w, 202, i, TRUE)
      BY <2>8, <3>1 DEF Reselect
    <3>3. /\ acknowledged'[v] = acknowledged[v] + (IF v = w THEN 1 ELSE 0)
          /\ step'[v] = IF v = w THEN "idle" ELSE step[v]
      BY <3>2, AnswerCounts
    <3> QED
      BY <1>0, <3>1, <3>2, <3>3
  <2>9. CASE ReselectFails(w)
    <3>1. Respond(w, 500, 0, FALSE)
      BY <2>9 DEF ReselectFails
    <3>2. UNCHANGED received /\ faults' = faults + 1 /\ step[w] = "reselect"
      BY <2>9 DEF ReselectFails, Fault
    <3>3. /\ acknowledged'[v] = acknowledged[v]
          /\ step'[v] = IF v = w THEN "idle" ELSE step[v]
      BY <3>1 DEF Respond, TypeOK
    <3> QED
      BY <1>0, <3>2, <3>3
  <2> QED
    BY <1>4, <2>1, <2>2, <2>3, <2>4, <2>5, <2>6, <2>7, <2>8, <2>9, <2>10 DEF Handle
<1>5. CASE UNCHANGED vars
  BY <1>0, <1>5 DEF vars, server, counts, bounds
<1> QED
  BY <1>1, <1>2, <1>3, <1>4, <1>5 DEF Next

\* The counter stays within the 202 answers, the request under way and the
\* database errors, in every process and after any number of restarts.
THEOREM ReceivedBoundedCorrect == Spec => []ReceivedBounded
<1>1. Init => ReceivedBounded
  BY DEF Init, ReceivedBounded
<1>2. Handlers /\ ReceivedBounded /\ [Next]_vars => ReceivedBounded'
  BY ReceivedStep
<1> QED
  BY <1>1, <1>2, HandlersInvariant, PTL DEF Spec
=============================================================================
