--------------------------- MODULE GatewayProofs ---------------------------
(***************************************************************************)
(* Theorems about Gateway: both halves keep their own specifications, so   *)
(* their theorems hold of the whole, and the rows they speak of are the    *)
(* same.                                                                   *)
(***************************************************************************)
EXTENDS Gateway, TLAPS

LEMMA DeliveryUnchanged ==
  ASSUME UNCHANGED delivery PROVE UNCHANGED D!vars
  BY DEF delivery, D!vars, D!table, D!process, D!history

LEMMA IntakeUnchanged ==
  ASSUME UNCHANGED intake PROVE UNCHANGED I!vars
  BY DEF intake, I!vars, I!server, I!counts, I!bounds

-----------------------------------------------------------------------------
(* The intake inside the gateway.                                          *)

LEMMA IntakeStep ==
  ASSUME [Next]_vars PROVE [I!Next]_I!vars
<1>1. CASE UNCHANGED vars
  BY <1>1, IntakeUnchanged DEF vars
<1>2. CASE Clock
  BY <1>2, IntakeUnchanged DEF Clock
<1>3. ASSUME NEW c \in Submissions, GiveUpWaiting(c) \/ \E w \in Workers : Send(c, w)
      PROVE  I!Next
  BY <1>3 DEF GiveUpWaiting, Send, I!Next
<1>4. ASSUME NEW w \in Workers, Handle(w)
      PROVE  I!Next
  <2>1. I!Handle(w)
    BY <1>4 DEF Handle, Insert, InsertConflict, Answer, AnswerFails, I!Handle
  <2> QED
    BY <2>1 DEF I!Next
<1>5. ASSUME NEW w \in Workers, Crash(w) \/ Exit(w)
      PROVE  I!Next
  BY <1>5 DEF Crash, Exit, I!Next
<1>6. ASSUME NEW w \in Workers,
             \/ Work(w) \/ WorkFails(w) \/ DispatchClosed(w) \/ PollProvider(w)
             \/ Stop(w) \/ Start(w)
      PROVE  UNCHANGED I!vars
  BY <1>6, IntakeUnchanged DEF Work, WorkFails, DispatchClosed, PollProvider, Stop, Start
<1> QED
  BY <1>1, <1>2, <1>3, <1>4, <1>5, <1>6 DEF Next

\* Sharing its event loop with the worker, its table with other processes and
\* its life with both adds nothing to what the intake does.
THEOREM GatewayImplementsIntake == Spec => ImplementsIntake
<1>1. Init => I!Init
  BY DEF Init
<1>2. [Next]_vars => [I!Next]_I!vars
  BY IntakeStep
<1> QED
  BY <1>1, <1>2, PTL DEF Spec, ImplementsIntake, I!Spec

\* So a gateway of any number of processes, each busy delivering as well, still
\* stores and answers as the one atomic store IdempotentStore does; a process
\* that dies between the commit of a row and its answer loses that answer only.
THEOREM GatewayImplementsStore == Spec => I!ImplementsStore
<1>1. I!Spec => I!ImplementsStore
  BY I!IntakeImplementsStore, GatewayAssumption
<1> QED
  BY <1>1, GatewayImplementsIntake, PTL DEF ImplementsIntake

\* What IntakeProofs proves of the intake, in the gateway.
LEMMA IntakeCorrect == Spec => [](I!TypeOK /\ I!OneIdPerKey /\ I!AnswerNamesRow)
<1>1. I!Spec => []I!TypeOK
  BY I!TypeCorrect, GatewayAssumption
<1>2. I!Spec => []I!OneIdPerKey
  BY I!OneIdPerKeyCorrect, GatewayAssumption
<1>3. I!Spec => []I!AnswerNamesRow
  BY I!AnswerNamesRowCorrect, GatewayAssumption
<1> QED
  BY <1>1, <1>2, <1>3, GatewayImplementsIntake, PTL DEF ImplementsIntake

-----------------------------------------------------------------------------
(* The workers inside the gateway.                                         *)

LEMMA DeliveryStep ==
  ASSUME I!TypeOK, [Next]_vars PROVE [D!Next]_D!vars
<1>1. CASE UNCHANGED vars
  BY <1>1, DeliveryUnchanged DEF vars
<1>2. CASE Clock
  BY <1>2 DEF Clock, D!Next
<1>3. ASSUME NEW c \in Submissions, GiveUpWaiting(c) \/ \E w \in Workers : Send(c, w)
      PROVE  UNCHANGED D!vars
  BY <1>3, DeliveryUnchanged DEF GiveUpWaiting, Send
<1>4. ASSUME NEW w \in Workers, Insert(w)
      PROVE  D!Next
  <2>1. job[w] \in Submissions
    BY <1>4 DEF Insert, I!Insert, I!TypeOK
  <2> QED
    BY <1>4, <2>1 DEF Insert, D!Next
<1>5. ASSUME NEW w \in Workers, InsertConflict(w) \/ Answer(w) \/ AnswerFails(w)
      PROVE  UNCHANGED D!vars
  BY <1>5, DeliveryUnchanged DEF InsertConflict, Answer, AnswerFails
<1>6. ASSUME NEW w \in Workers,
             \/ Work(w) \/ WorkFails(w) \/ DispatchClosed(w) \/ PollProvider(w)
             \/ Crash(w) \/ Stop(w) \/ Exit(w) \/ Start(w)
      PROVE  D!Next
  BY <1>6 DEF Work, WorkFails, DispatchClosed, PollProvider, Crash, Stop, Exit, Start, D!Next
<1> QED
  BY <1>1, <1>2, <1>3, <1>4, <1>5, <1>6 DEF Next, Handle

\* Nor does the intake disturb the workers: its INSERT is the only step it
\* makes in their table, and one that Delivery foresees.
THEOREM GatewayImplementsDelivery == Spec => ImplementsDelivery
<1>1. Init => D!Init
  BY DEF Init
<1>2. I!TypeOK /\ [Next]_vars => [D!Next]_D!vars
  BY DeliveryStep
<1>3. Spec => []I!TypeOK
  BY IntakeCorrect, PTL
<1> QED
  BY <1>1, <1>2, <1>3, PTL DEF Spec, ImplementsDelivery, D!Spec

\* So rows that callers insert, repeat and ask for are handed out, tried and
\* settled as Outbox allows.
THEOREM GatewayImplementsOutbox == Spec => D!ImplementsOutbox
<1>1. D!Spec => D!ImplementsOutbox
  BY D!DeliveryImplementsOutbox, GatewayAssumption DEF IsFiniteSet, D!IsFiniteSet
<1> QED
  BY <1>1, GatewayImplementsDelivery, PTL DEF ImplementsDelivery

LEMMA DeliveryCorrect ==
  Spec => /\ [](D!TypeOK /\ D!OneDispatcher /\ D!ClaimIsolated /\ D!RetryBudget)
          /\ D!TerminalStable
<1>1. D!Spec => []D!TypeOK
  BY D!TypeCorrect, GatewayAssumption DEF IsFiniteSet, D!IsFiniteSet
<1>2. D!Spec => []D!OneDispatcher
  BY D!OneDispatcherCorrect, GatewayAssumption DEF IsFiniteSet, D!IsFiniteSet
<1>3. D!Spec => []D!ClaimIsolated
  BY D!ClaimIsolatedCorrect, GatewayAssumption DEF IsFiniteSet, D!IsFiniteSet
<1>4. D!Spec => []D!RetryBudget
  BY D!RetryBudgetCorrect, GatewayAssumption DEF IsFiniteSet, D!IsFiniteSet
<1>5. D!Spec => D!TerminalStable
  BY D!TerminalStableCorrect, GatewayAssumption DEF IsFiniteSet, D!IsFiniteSet
<1> QED
  BY <1>1, <1>2, <1>3, <1>4, <1>5, GatewayImplementsDelivery, PTL DEF ImplementsDelivery

-----------------------------------------------------------------------------
(* Both halves speak of the same rows.                                     *)

Halves == I!TypeOK /\ D!TypeOK /\ D!OneDispatcher /\ D!ClaimIsolated

OneTable ==
  /\ Stored = {n \in Submissions : status[n] # "absent"}
  /\ \A n \in Submissions : calls[n] > 0 => status[n] # "absent"
  /\ \A i \in DOMAIN table : table[i].key = I!Key(table[i].from)

\* A step that stores and removes no row, and calls only for stored ones.
RowsKept ==
  /\ UNCHANGED table
  /\ \A n \in Submissions :
        /\ status'[n] = "absent" <=> status[n] = "absent"
        /\ calls'[n] > 0 => calls[n] > 0 \/ status[n] # "absent"

LEMMA KeptRows == OneTable /\ RowsKept => OneTable'
  BY DEF OneTable, RowsKept, Stored, I!Key

LEMMA OutcomeKeeps ==
  ASSUME D!TypeOK, NEW w \in Workers, NEW n \in Submissions, NEW k, NEW result,
         status[n] # "absent", D!ApplyOutcome(w, n, k, result)
  PROVE  \A m \in Submissions : status'[m] = "absent" <=> status[m] = "absent"
<1>1. D!Decide(result, k) \in {"SUCCEEDED", "DEAD_LETTER", "RETRY"}
  BY DEF D!Decide
<1> QED
  BY <1>1 DEF D!ApplyOutcome, D!Persist, D!TypeOK

LEMMA PutBackKeeps ==
  ASSUME D!TypeOK, NEW n \in Submissions, D!PutBack(n)
  PROVE  \A m \in Submissions : status'[m] = "absent" <=> status[m] = "absent"
  BY DEF D!PutBack, D!TypeOK

LEMMA WorkKeepsRows ==
  ASSUME Halves, NEW w \in Workers, Work(w)
  PROVE  RowsKept
<1>1. UNCHANGED table
  BY DEF Work, intake
<1>2. ASSUME D!TickSelect(w) \/ D!ClaimRow(w) \/ D!TickDone(w)
      PROVE  UNCHANGED <<status, calls>>
  BY <1>2 DEF D!TickSelect, D!ClaimRow, D!TickDone, D!table, D!history
<1>3. ASSUME D!ClaimCommit(w)
      PROVE  /\ \A m \in Submissions : status'[m] = "absent" <=> status[m] = "absent"
             /\ UNCHANGED calls
  <2>1. \A n \in claimed[w] : status[n] = "PENDING"
    BY DEF Halves, D!ClaimIsolated
  <2> QED
    BY <1>3, <2>1 DEF D!ClaimCommit, D!history
<1>4. ASSUME NEW n \in Submissions, D!DispatchBegin(w, n)
      PROVE  RowsKept
  <2>1. status[n] = "IN_FLIGHT" /\ UNCHANGED status
    BY <1>4 DEF Halves, D!OneDispatcher, D!Holders, D!DispatchBegin, D!table
  <2> QED
    BY <1>1, <1>4, <2>1 DEF RowsKept, Halves, D!TypeOK, D!DispatchBegin
<1>5. ASSUME NEW n \in Submissions, D!DispatchUndeliverable(w, n) \/ D!DispatchEnd(w, n)
      PROVE  RowsKept
  <2>1. status[n] = "IN_FLIGHT"
    BY <1>5 DEF Halves, D!OneDispatcher, D!Holders, D!DispatchUndeliverable, D!DispatchEnd
  <2>2. PICK k, result : D!ApplyOutcome(w, n, k, result)
    BY <1>5, <2>1 DEF D!DispatchUndeliverable, D!EndUnsent, D!DispatchEnd
  <2>3. UNCHANGED calls
    BY <1>5 DEF D!DispatchUndeliverable, D!DispatchEnd, D!history
  <2> QED
    BY <1>1, <2>1, <2>2, <2>3, OutcomeKeeps DEF RowsKept, Halves
<1>6. ASSUME NEW n \in Submissions, D!RequestEnds(w, n)
      PROVE  UNCHANGED <<status, calls>>
  BY <1>6 DEF D!RequestEnds, D!table
<1> QED
  BY <1>1, <1>2, <1>3, <1>4, <1>5, <1>6 DEF Work, D!Work, RowsKept

LEMMA OthersKeepRows ==
  ASSUME Halves, NEW w \in Workers,
         \/ WorkFails(w) \/ DispatchClosed(w) \/ PollProvider(w)
         \/ Crash(w) \/ Stop(w) \/ Exit(w) \/ Start(w)
  PROVE  RowsKept
<1>1. UNCHANGED table
  BY DEF WorkFails, DispatchClosed, PollProvider, Crash, Stop, Exit, Start, intake, I!Crash
<1>2. ASSUME \/ D!ClaimFails(w) \/ D!Crash(w) \/ D!Stop(w) \/ D!Exit(w) \/ D!Start(w)
             \/ \E p \in Providers : D!PollProvider(w, p)
      PROVE  UNCHANGED <<status, calls>>
  BY <1>2 DEF D!ClaimFails, D!Crash, D!Stop, D!Exit, D!Start, D!PollProvider, D!Vanish,
              D!table, D!history
<1>3. ASSUME NEW n \in Submissions, D!SnapshotFails(w, n) \/ D!PersistFails(w, n)
      PROVE  RowsKept
  <2>1. D!PutBack(n) /\ UNCHANGED calls
    BY <1>3 DEF D!SnapshotFails, D!PersistFails, D!history
  <2> QED
    BY <1>1, <2>1, PutBackKeeps DEF RowsKept, Halves
<1>4. ASSUME NEW n \in Submissions, D!DispatchClosed(w, n)
      PROVE  RowsKept
  <2>1. status[n] = "IN_FLIGHT" /\ UNCHANGED calls
    BY <1>4 DEF Halves, D!OneDispatcher, D!Holders, D!DispatchClosed, D!history
  <2>2. CASE UNCHANGED D!table
    BY <1>1, <2>1, <2>2 DEF RowsKept, D!table
  <2>3. CASE \E k, result : D!ApplyOutcome(w, n, k, result)
    BY <1>1, <2>1, <2>3, OutcomeKeeps DEF RowsKept, Halves
  <2> QED
    BY <1>4, <2>1, <2>2, <2>3 DEF D!DispatchClosed, D!EndUnsent, D!table
<1> QED
  BY <1>1, <1>2, <1>3, <1>4
  DEF WorkFails, DispatchClosed, PollProvider, Crash, Stop, Exit, Start, RowsKept

LEMMA InsertAddsRow ==
  ASSUME Halves, OneTable, NEW w \in Workers, Insert(w)
  PROVE  OneTable'
<1> DEFINE c == job[w]
<1>1. c \in Submissions
  BY DEF Halves, Insert, I!Insert, I!TypeOK
<1>2. /\ table' = Append(table, [key |-> I!Key(c), from |-> c])
      /\ table \in Seq(I!Row)
  BY DEF Halves, Insert, I!Insert, I!TypeOK
<1>3. status' = [status EXCEPT ![c] = "PENDING"] /\ UNCHANGED calls
  BY DEF Insert, D!Submit, D!history
<1>4. Stored' = Stored \cup {c}
  <2>1. DOMAIN table' = DOMAIN table \cup {Len(table) + 1}
    BY <1>2
  <2>2. \A i \in DOMAIN table : table'[i] = table[i]
    BY <1>2
  <2>3. table'[Len(table) + 1].from = c
    BY <1>2
  <2> QED
    BY <2>1, <2>2, <2>3 DEF Stored
<1>5. \A i \in DOMAIN table' : table'[i].key = I!Key(table'[i].from)
  BY <1>2 DEF OneTable
<1>6. \A n \in Submissions : status'[n] # "absent" <=> status[n] # "absent" \/ n = c
  BY <1>1, <1>3 DEF Halves, D!TypeOK
<1>7. \A n \in Submissions : calls'[n] > 0 => status'[n] # "absent"
  BY <1>3, <1>6 DEF OneTable
<1>8. (\A i \in DOMAIN table : table[i].key = I!Key(table[i].from))'
  BY <1>5 DEF I!Key
<1> QED
  BY <1>1, <1>4, <1>6, <1>7, <1>8 DEF OneTable

LEMMA OneTableStep ==
  ASSUME Halves, OneTable, [Next]_vars
  PROVE  OneTable'
<1>1. CASE UNCHANGED vars
  BY <1>1, KeptRows DEF vars, intake, delivery, RowsKept
<1>2. CASE Clock
  BY <1>2, KeptRows DEF Clock, intake, D!Clock, D!history, RowsKept
<1>3. ASSUME NEW c \in Submissions, GiveUpWaiting(c) \/ \E w \in Workers : Send(c, w)
      PROVE  OneTable'
  BY <1>3, KeptRows DEF GiveUpWaiting, Send, I!GiveUpWaiting, I!Send, delivery, RowsKept
<1>4. ASSUME NEW w \in Workers, InsertConflict(w) \/ Answer(w) \/ AnswerFails(w)
      PROVE  OneTable'
  <2>1. UNCHANGED <<table, status, calls>>
    BY <1>4
    DEF InsertConflict, Answer, AnswerFails, delivery, I!InsertConflict, I!Refuse, I!LookupHit,
        I!LookupMiss, I!Accept, I!Reselect, I!LookupFails, I!InsertFails, I!ReselectFails
  <2> QED
    BY <2>1, KeptRows DEF RowsKept
<1>5. ASSUME NEW w \in Workers, Work(w)
      PROVE  OneTable'
  BY <1>5, WorkKeepsRows, KeptRows
<1>6. ASSUME NEW w \in Workers,
             \/ WorkFails(w) \/ DispatchClosed(w) \/ PollProvider(w)
             \/ Crash(w) \/ Stop(w) \/ Exit(w) \/ Start(w)
      PROVE  OneTable'
  BY <1>6, OthersKeepRows, KeptRows
<1> QED
  BY <1>1, <1>2, <1>3, <1>4, <1>5, <1>6, InsertAddsRow DEF Next, Handle

LEMMA OneTableCorrect == Spec => []OneTable
<1>1. Init => OneTable
  BY DEF Init, OneTable, Stored, I!Init, D!Init
<1>2. Halves /\ OneTable /\ [Next]_vars => OneTable'
  BY OneTableStep
<1>3. Spec => []Halves
  BY IntakeCorrect, DeliveryCorrect, PTL DEF Halves
<1> QED
  BY <1>1, <1>2, <1>3, PTL DEF Spec

\* Every variable of the composition keeps its type, and a row is in the
\* intake's view of the table exactly if it is in the workers'.
THEOREM TypeCorrect == Spec => []TypeOK
<1>1. I!TypeOK /\ D!TypeOK /\ OneTable => TypeOK
  BY DEF OneTable, TypeOK
<1> QED
  BY <1>1, IntakeCorrect, DeliveryCorrect, OneTableCorrect, PTL

-----------------------------------------------------------------------------
(* From a caller's answer to the vendor.                                   *)

LEMMA OneRowPerKey ==
  ASSUME OneTable, I!OneIdPerKey,
         NEW c \in Submissions, NEW d \in Submissions,
         status[c] # "absent", status[d] # "absent", I!Key(c) = I!Key(d)
  PROVE  c = d
<1>1. PICK i \in DOMAIN table : table[i].from = c
  BY DEF OneTable, Stored
<1>2. PICK j \in DOMAIN table : table[j].from = d
  BY DEF OneTable, Stored
<1>3. i = j
  BY <1>1, <1>2 DEF OneTable, I!OneIdPerKey
<1> QED
  BY <1>1, <1>2, <1>3

\* The vendor hears of at most one submission of a key, for any numbers of
\* callers, processes, errors, crashes and repetitions.
THEOREM OneDeliveryPerKeyCorrect == Spec => []OneDeliveryPerKey
<1>1. OneTable /\ I!OneIdPerKey => OneDeliveryPerKey
  BY OneRowPerKey DEF OneTable, OneDeliveryPerKey
<1> QED
  BY <1>1, IntakeCorrect, OneTableCorrect, PTL

\* What a 202 stands for: a stored row made from a submission of the caller's
\* key, the only one of that key the vendor can hear of, no more often than
\* max_retry_attempts and the database errors allow.
AnsweredHasOneRow ==
  \A a \in answers : a.code = 202 =>
    LET n == table[a.id].from
    IN  /\ n \in Stored /\ I!Key(n) = I!Key(a.to)
        /\ \A c \in Submissions : calls[c] > 0 /\ I!Key(c) = I!Key(a.to) => c = n
        /\ calls[n] <= MaxAttempts + faults

\* Every 202, first or repeated, heard or lost, stands for one row whose
\* deliveries are bounded, in any number of processes and after any crashes.
THEOREM AnsweredHasOneRowCorrect == Spec => []AnsweredHasOneRow
<1>1. /\ I!TypeOK /\ I!OneIdPerKey /\ I!AnswerNamesRow /\ OneTable
      /\ D!TypeOK /\ D!RetryBudget
      => AnsweredHasOneRow
  <2> SUFFICES ASSUME I!TypeOK, I!OneIdPerKey, I!AnswerNamesRow, OneTable,
                      D!TypeOK, D!RetryBudget,
                      NEW a \in answers, a.code = 202
               PROVE  LET n == table[a.id].from
                      IN  /\ n \in Stored /\ I!Key(n) = I!Key(a.to)
                          /\ \A c \in Submissions :
                                calls[c] > 0 /\ I!Key(c) = I!Key(a.to) => c = n
                          /\ calls[n] <= MaxAttempts + faults
    BY DEF AnsweredHasOneRow
  <2> DEFINE n == table[a.id].from
  <2>1. a.id \in DOMAIN table /\ table[a.id].key = I!Key(a.to)
    BY DEF I!AnswerNamesRow
  <2>2. n \in Stored /\ n \in Submissions /\ status[n] # "absent" /\ I!Key(n) = I!Key(a.to)
    BY <2>1 DEF OneTable, Stored
  <2> HIDE DEF n
  <2>3. ASSUME NEW c \in Submissions, calls[c] > 0, I!Key(c) = I!Key(a.to)
        PROVE  c = n
    BY <2>2, <2>3, OneRowPerKey DEF OneTable
  <2>4. calls[n] <= MaxAttempts + faults
    <3>1. /\ calls[n] \in Nat /\ attempts[n] \in Nat /\ faults \in Nat /\ MaxAttempts \in Nat
          /\ status[n] \in {"absent", "PENDING", "IN_FLIGHT", "SUCCEEDED", "DEAD_LETTER"}
      BY <2>2, GatewayAssumption DEF D!TypeOK, D!Statuses
    <3>2. /\ attempts[n] <= MaxAttempts
          /\ status[n] = "IN_FLIGHT" => attempts[n] < MaxAttempts
          /\ calls[n] <= attempts[n] + faults + (IF status[n] = "IN_FLIGHT" THEN 1 ELSE 0)
      BY <2>2 DEF D!RetryBudget
    <3> QED
      BY <3>1, <3>2
  <2> QED
    BY <2>2, <2>3, <2>4 DEF n
<1> QED
  BY <1>1, IntakeCorrect, DeliveryCorrect, OneTableCorrect, PTL

\* Once a row is settled no repetition of its key reaches the vendor.
SettledIsSentNoMore ==
  [][\A n, c \in Submissions :
        status[n] \in D!Terminal /\ I!Key(c) = I!Key(n) => calls'[c] = calls[c]]_vars

\* Whatever callers go on repeating, and whichever processes come and go, a
\* key whose row SUCCEEDED or is a DEAD_LETTER is not sent again.
THEOREM SettledIsSentNoMoreCorrect == Spec => SettledIsSentNoMore
<1> DEFINE Final == \A n \in Submissions : status[n] \in D!Terminal =>
                       status'[n] = status[n] /\ calls'[n] = calls[n]
           Once  == OneTable /\ I!OneIdPerKey /\ D!TypeOK
           Quiet == \A n, c \in Submissions :
                       status[n] \in D!Terminal /\ I!Key(c) = I!Key(n) => calls'[c] = calls[c]
<1>1. Once /\ Once' /\ Final => Quiet
  <2> SUFFICES ASSUME Once, Once', Final,
                      NEW n \in Submissions, NEW c \in Submissions,
                      status[n] \in D!Terminal, I!Key(c) = I!Key(n)
               PROVE  calls'[c] = calls[c]
    BY DEF Quiet
  <2>1. status[n] # "absent" /\ status'[n] # "absent" /\ calls'[n] = calls[n]
    BY DEF Final, D!Terminal
  <2>2. calls[c] \in Nat /\ calls'[c] \in Nat
    BY DEF Once, D!TypeOK
  <2>3. CASE calls[c] > 0
    <3>1. c = n
      BY <2>1, <2>3, OneRowPerKey DEF Once, OneTable
    <3> QED
      BY <2>1, <3>1
  <2>4. CASE calls'[c] > 0
    <3>1. status'[c] # "absent"
      BY <2>4 DEF Once, OneTable
    <3>2. I!Key(c)' = I!Key(c) /\ I!Key(n)' = I!Key(n)
      BY DEF I!Key
    <3>3. c = n
      <4>1. PICK i \in DOMAIN table' : table'[i].from = c
        BY <3>1 DEF Once, OneTable, Stored
      <4>2. PICK j \in DOMAIN table' : table'[j].from = n
        BY <2>1 DEF Once, OneTable, Stored
      <4>3. i = j
        BY <4>1, <4>2, <3>2 DEF Once, OneTable, I!OneIdPerKey
      <4> QED
        BY <4>1, <4>2, <4>3
    <3> QED
      BY <2>1, <3>3
  <2> QED
    BY <2>2, <2>3, <2>4
<1>2. D!TerminalStable => [][Final]_D!vars
  <2>1. [\A n \in Submissions : status[n] \in D!Terminal =>
            /\ status'[n] = status[n]
            /\ attempts'[n] = attempts[n]
            /\ calls'[n] = calls[n]]_D!vars => [Final]_D!vars
    BY DEF Final
  <2> QED
    BY <2>1, PTL DEF D!TerminalStable
<1>3. [Final]_D!vars => Final
  BY DEF Final, D!vars, D!table, D!process, D!history
<1>4. Spec => []Once
  BY IntakeCorrect, DeliveryCorrect, OneTableCorrect, PTL DEF Once
<1> QED
  BY <1>1, <1>2, <1>3, <1>4, DeliveryCorrect, PTL DEF SettledIsSentNoMore, Quiet
=============================================================================
