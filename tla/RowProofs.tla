------------------------------ MODULE RowProofs ------------------------------
(***************************************************************************)
(* Theorems about RowDetails, for any vendors, limits and number of rows,  *)
(* clicks and failures, and for the gateway and the mock.                  *)
(***************************************************************************)
EXTENDS RowDetails, FiniteSetTheorems, WellFoundedInduction, TLAPS

-----------------------------------------------------------------------------
(* The inductive invariant.                                                *)

Unsettled == {"PENDING", "IN_FLIGHT"}

\* The server's rows are not at odds with themselves, and one that may still
\* be delivered has an attempt left.
Kept(i, r) ==
    /\ r.id = i
    /\ Agrees(r)
    /\ server = "gateway" /\ r.status \in Unsettled => r.attempts < MaxAttempts

\* Every row of an answer to a query for dead letters is still in the table as
\* it was answered, and the dead letters are no fewer.
Held(k, a) ==
    /\ a.total <= Cardinality(Asked(k))
    /\ \A r \in a.items : r.id \in Asked(k) /\ table[r.id] = r

\* An answer has all rows of an earlier one, but for those that a page full of
\* newer ones pushes off it.
NoOlder(before, after) ==
    /\ after.total >= before.total
    /\ \A r \in before.items :
          \/ r \in after.items
          \/ /\ Cardinality(after.items) >= Limit
             /\ \A s \in after.items : s.id > r.id

\* What is cached, and what is on its way to be.
Copied(k, e) ==
    /\ e.fetch = "served" => e.coming # NoData
    /\ \A a \in {e.data, e.coming} \ {NoData} :
          /\ \A r \in a.items : Agrees(r)
          /\ k \in DeadKeys => Held(k, a)
    /\ k \in DeadKeys /\ e.data # NoData /\ e.coming # NoData => NoOlder(e.data, e.coming)

\* What was counted for a request: only while it is under way, and between
\* the total of the answer before it and the dead letters there are.
Bounded(k, e, n) ==
    n # NoData
    => /\ e.fetch = "asked"
       /\ k \in DeadKeys => /\ n <= Cardinality(Asked(k))
                            /\ e.data # NoData => n >= e.data.total

Inv ==
    /\ TypeOK
    /\ \A i \in DOMAIN table : Kept(i, table[i])
    /\ \A k \in Keys : Copied(k, cache[k]) /\ Bounded(k, cache[k], counted[k])
    /\ open => selected # NoData /\ Agrees(selected)

-----------------------------------------------------------------------------
(* Keys, rows and answers.                                                 *)

LEMMA KeyFields ==
  /\ ListKey \in Keys
  /\ \A v \in Vendors \cup {""} : [kind |-> "dead", provider |-> v] \in DeadKeys
  /\ DeadKeys \subseteq Keys
  /\ \A k \in DeadKeys : k.kind = "dead"
BY DEF Keys, ListKey, DeadKeys

LEMMA MainIsKey ==
  ASSUME TypeOK
  PROVE  MainKey \in Keys /\ (page = "dead" => MainKey \in DeadKeys)
BY KeyFields DEF TypeOK, MainKey

LEMMA TableLength ==
  ASSUME TypeOK
  PROVE  /\ Len(table) \in Nat /\ Len(table) <= MaxRows
         /\ DOMAIN table = 1..Len(table) /\ DOMAIN table \subseteq 1..MaxRows
         /\ \A i \in DOMAIN table : table[i] \in Row
<1>1. table \in Seq(Row) /\ Len(table) <= MaxRows
  BY DEF TypeOK
<1>2. MaxRows \in Nat
  BY RowAssumption
<1> QED
  BY <1>1, <1>2

LEMMA AskedFinite ==
  ASSUME TypeOK, NEW k
  PROVE  /\ Asked(k) \subseteq DOMAIN table
         /\ IsFiniteSet(Asked(k))
         /\ Cardinality(Asked(k)) \in 0..MaxRows
<1>1. Asked(k) \subseteq 1..Len(table) /\ DOMAIN table = 1..Len(table)
  BY TableLength DEF Asked
<1>2. Len(table) \in Nat /\ Len(table) <= MaxRows
  BY TableLength
<1> DEFINE S == Asked(k)
<1> HIDE DEF S
<1>3. IsFiniteSet(1..Len(table)) /\ Cardinality(1..Len(table)) = Len(table)
  <2>1. Len(table) \in Int /\ 1 \in Int
    BY <1>2
  <2>2. IsFiniteSet(1..Len(table))
    BY <2>1, FS_Interval
  <2>3. Cardinality(1..Len(table)) = IF 1 > Len(table) THEN 0 ELSE Len(table) - 1 + 1
    BY <2>1, FS_Interval
  <2> QED
    BY <1>2, <2>2, <2>3
<1>4. S \subseteq 1..Len(table)
  BY <1>1 DEF S
<1>5. IsFiniteSet(S) /\ Cardinality(S) <= Len(table)
  BY <1>3, <1>4, FS_Subset
<1>6. Cardinality(S) \in Nat
  BY <1>5, FS_CardinalityType
<1>7. Cardinality(S) \in 0..MaxRows
  <2>1. MaxRows \in Nat
    BY RowAssumption
  <2> QED
    BY <1>2, <1>5, <1>6, <2>1
<1> QED
  BY <1>1, <1>5, <1>7 DEF S

LEMMA AnswerTyped ==
  ASSUME TypeOK, NEW k, NEW total \in 0..MaxRows
  PROVE  /\ Answer(k, total) \in Answers
         /\ Answer(k, total).total = total
         /\ \A r \in Answer(k, total).items : \E i \in Asked(k) : r = table[i]
<1> DEFINE newest == {i \in Asked(k) : Cardinality({j \in Asked(k) : j > i}) < Limit}
           items  == {table[i] : i \in newest}
<1>1. Answer(k, total) = [items |-> items, total |-> total]
  BY DEF Answer
<1>2. \A r \in items : \E i \in Asked(k) : r = table[i]
  OBVIOUS
<1>3. items \subseteq Row
  BY <1>2, AskedFinite, TableLength
<1> HIDE DEF items
<1> QED
  BY <1>1, <1>2, <1>3 DEF Answers

\* Of finitely many numbers there is a largest.
LEMMA Largest ==
  ASSUME NEW S \in SUBSET Nat, IsFiniteSet(S), NEW B \in SUBSET S, B # {}
  PROVE  \E m \in B : \A i \in B : i <= m
<1> DEFINE later(i) == {j \in S : j > i}
           F == {later(i) : i \in B}
<1>1. FiniteSubsetsOf(S) = SUBSET S
  BY FS_FiniteSubsetsOfFinite
<1>2. IsWellFoundedOn(StrictSubsetOrdering(S), SUBSET S)
  BY <1>1, FS_StrictSubsetOrderingWellFounded
<1>3. F \subseteq SUBSET S /\ F # {}
  OBVIOUS
<1> HIDE DEF F
<1>4. PICK X \in F : \A Y \in F : ~(<<Y, X>> \in StrictSubsetOrdering(S))
  BY <1>2, <1>3, WFMin
<1>5. PICK m \in B : X = later(m)
  BY DEF F
<1>6. ASSUME NEW i \in B, i > m
      PROVE  FALSE
  <2>1. i \in Nat /\ m \in Nat /\ i \in S /\ \A j \in S : j \in Nat
    OBVIOUS
  <2>2. later(i) \in SUBSET S /\ X \in SUBSET S /\ later(i) \in F
    BY <1>3 DEF F
  <2>3. later(i) \subseteq X /\ i \in X /\ i \notin later(i)
    <3>1. \A j \in S : j > i => j > m
      BY <1>6, <2>1
    <3>2. ~(i > i)
      BY <2>1
    <3> QED
      BY <1>5, <1>6, <2>1, <3>1, <3>2
  <2> HIDE DEF later
  <2>4. <<later(i), X>> \in StrictSubsetOrdering(S)
    BY <2>2, <2>3 DEF StrictSubsetOrdering
  <2> QED
    BY <1>4, <2>2, <2>4
<1>7. \A i \in B : i \in Nat /\ m \in Nat
  OBVIOUS
<1> QED
  BY <1>6, <1>7

\* A page that leaves a number out is full.
LEMMA NewestFillPage ==
  ASSUME NEW S \in SUBSET Nat, IsFiniteSet(S), NEW n \in S,
         ~(Cardinality({j \in S : j > n}) < Limit)
  PROVE  Cardinality({i \in S : Cardinality({j \in S : j > i}) < Limit}) >= Limit
<1> DEFINE later(i) == {j \in S : j > i}
           newest == {i \in S : Cardinality(later(i)) < Limit}
           behind == S \ newest
<1>1. n \in behind
  OBVIOUS
<1>2. PICK m \in behind : \A i \in behind : i <= m
  <2> HIDE DEF newest
  <2>1. behind \in SUBSET S /\ behind # {}
    BY <1>1
  <2> HIDE DEF behind
  <2> QED
    BY <2>1, Largest
<1>3. later(m) \subseteq newest /\ newest \subseteq S
  <2>1. ASSUME NEW j \in later(m)
        PROVE  j \in newest
    <3>1. j \in S /\ j \in Nat /\ m \in Nat /\ j > m
      OBVIOUS
    <3> HIDE DEF newest, later
    <3> QED
      BY <1>2, <3>1
  <2> QED
    BY <2>1
<1>4. ~(Cardinality(later(m)) < Limit)
  BY <1>2
<1> DEFINE L == later(m)
<1>5. L \subseteq newest /\ newest \subseteq S /\ ~(Cardinality(L) < Limit)
  BY <1>3, <1>4
<1> HIDE DEF L, newest, later, behind
<1>6. IsFiniteSet(newest)
  BY <1>5, FS_Subset
<1>7. IsFiniteSet(L) /\ Cardinality(L) <= Cardinality(newest)
  BY <1>5, <1>6, FS_Subset
<1>8. Cardinality(L) \in Nat /\ Cardinality(newest) \in Nat /\ Limit \in Nat
  BY <1>6, <1>7, FS_CardinalityType, RowAssumption
<1>9. Cardinality(newest) >= Limit
  BY <1>5, <1>7, <1>8
<1> QED
  BY <1>9 DEF newest, later

\* What is answered now is no older than what was answered before and still
\* holds: a row that is missing has a whole page of newer ones before it.
LEMMA AnswerNoOlder ==
  ASSUME TypeOK, \A i \in DOMAIN table : Kept(i, table[i]),
         NEW k, NEW a \in Answers, Held(k, a),
         NEW total \in 0..MaxRows, total >= a.total
  PROVE  NoOlder(a, Answer(k, total))
<1> DEFINE S == Asked(k)
           later(i) == {j \in S : j > i}
           newest == {i \in S : Cardinality(later(i)) < Limit}
           items  == {table[i] : i \in newest}
<1>1. Answer(k, total) = [items |-> items, total |-> total]
  BY DEF Answer
<1>2. IsFiniteSet(S) /\ S \subseteq DOMAIN table
  BY AskedFinite
<1>3. S \in SUBSET Nat
  BY <1>2, TableLength
<1>4. \A i \in S : table[i].id = i
  BY <1>2 DEF Kept
<1>5. Limit \in Nat
  BY RowAssumption
<1>6. ASSUME NEW r \in a.items, r \notin items
      PROVE  Cardinality(items) >= Limit /\ \A i \in newest : table[i].id > r.id
  <2> DEFINE L == later(r.id)
  <2>1. r.id \in S /\ table[r.id] = r
    BY DEF Held
  <2>2. r.id \notin newest
    BY <1>6, <2>1
  <2>3. ~(Cardinality(L) < Limit)
    BY <2>1, <2>2
  <2>4. L \subseteq S /\ r.id \in Nat
    BY <1>3, <2>1
  <2>5. Cardinality(newest) >= Limit
    BY <1>2, <1>3, <2>1, <2>3, NewestFillPage
  <2>6. Cardinality(items) >= Cardinality(newest) /\ Cardinality(items) \in Nat
        /\ Cardinality(newest) \in Nat
    <3> DEFINE f == [i \in newest |-> table[i]]
    <3>1. newest \subseteq S
      OBVIOUS
    <3>2. f \in [newest -> items] /\ \A i, j \in newest : f[i] = f[j] => i = j
      BY <1>4
    <3>3. f \in Injection(newest, items)
      BY <3>2 DEF Injection, IsInjective
    <3>4. \A i \in items : \E j \in newest : f[j] = i
      OBVIOUS
    <3>5. f \in Surjection(newest, items)
      BY <3>2, <3>4 DEF Surjection
    <3> HIDE DEF newest, items, f
    <3>6. IsFiniteSet(newest)
      BY <1>2, <3>1, FS_Subset
    <3>7. IsFiniteSet(items)
      BY <3>5, <3>6, FS_Surjection
    <3> QED
      BY <3>3, <3>6, <3>7, FS_Injection, FS_CardinalityType
  <2>7. Cardinality(items) >= Limit
    <3> HIDE DEF newest, items
    <3> QED
      BY <1>5, <2>5, <2>6
  <2>8. ASSUME NEW i \in newest
        PROVE  table[i].id > r.id
    <3>1. i \in S /\ i \in Nat /\ Cardinality(later(i)) < Limit
      BY <1>3
    <3>2. SUFFICES ASSUME ~(i > r.id)
                   PROVE  FALSE
      BY <1>4, <3>1
    <3>3. L \subseteq later(i) /\ later(i) \subseteq S
      BY <1>3, <2>4, <3>1, <3>2
    <3> DEFINE M == later(i)
    <3>4. M \subseteq S /\ L \subseteq M /\ Cardinality(M) < Limit
      BY <3>1, <3>3
    <3> HIDE DEF L, M, S
    <3>5. IsFiniteSet(M)
      BY <1>2, <3>4, FS_Subset
    <3>6. IsFiniteSet(L) /\ Cardinality(L) <= Cardinality(M)
      BY <3>4, <3>5, FS_Subset
    <3>7. Cardinality(L) \in Nat /\ Cardinality(M) \in Nat
      BY <3>5, <3>6, FS_CardinalityType
    <3> QED
      BY <1>5, <2>3, <3>4, <3>6, <3>7
  <2> QED
    BY <2>7, <2>8
<1> HIDE DEF newest
<1>7. ASSUME NEW r \in a.items
      PROVE  \/ r \in items
             \/ Cardinality(items) >= Limit /\ \A s \in items : s.id > r.id
  BY <1>6
<1> HIDE DEF items
<1> QED
  BY <1>1, <1>7 DEF NoOlder

-----------------------------------------------------------------------------
(* The operators on an entry keep what it holds.                           *)

LEMMA StartFetchCopied ==
  ASSUME NEW k, NEW e \in Entry(Answers), Copied(k, e)
  PROVE  StartFetch(e) \in Entry(Answers) /\ Copied(k, StartFetch(e))
<1>1. 0 \in 0..Retries
  BY DEF Retries
<1>2. StartFetch(e) \in Entry(Answers)
  BY <1>1 DEF StartFetch, Entry
<1>3. /\ StartFetch(e).fetch = "asked" /\ StartFetch(e).coming = NoData
      /\ StartFetch(e).data = e.data
  BY DEF StartFetch, Entry
<1> QED
  BY <1>2, <1>3 DEF Copied

LEMMA ObserveCopied ==
  ASSUME NEW k, NEW e \in Entry(Answers), Copied(k, e), NEW expired \in BOOLEAN
  PROVE  Observe(e, expired) \in Entry(Answers) /\ Copied(k, Observe(e, expired))
BY StartFetchCopied DEF Observe

LEMMA RefetchCopied ==
  ASSUME NEW k, NEW e \in Entry(Answers), Copied(k, e)
  PROVE  Refetch(e) \in Entry(Answers) /\ Copied(k, Refetch(e))
BY StartFetchCopied DEF Refetch

LEMMA ServeCopied ==
  ASSUME NEW k, NEW e \in Entry(Answers), Copied(k, e), NEW a \in Answers,
         \A r \in a.items : Agrees(r),
         k \in DeadKeys => Held(k, a),
         k \in DeadKeys /\ e.data # NoData => NoOlder(e.data, a)
  PROVE  Serve(e, a) \in Entry(Answers) /\ Copied(k, Serve(e, a))
<1>1. a # NoData
  BY RowAssumption
<1>2. Serve(e, a) \in Entry(Answers)
  BY DEF Serve, Entry
<1>3. Serve(e, a).coming = a /\ Serve(e, a).data = e.data
  BY DEF Serve, Entry
<1> QED
  BY <1>1, <1>2, <1>3 DEF Copied

LEMMA ReceiveCopied ==
  ASSUME NEW k, NEW e \in Entry(Answers), Copied(k, e), e.fetch = "served", NEW keep \in BOOLEAN
  PROVE  Receive(e, keep) \in Entry(Answers) /\ Copied(k, Receive(e, keep))
<1>1. Receive(e, keep) \in Entry(Answers)
  BY DEF Receive, Entry
<1>2. /\ Receive(e, keep).data = e.coming /\ Receive(e, keep).coming = NoData
      /\ Receive(e, keep).fetch = "idle"
  BY DEF Receive, Entry
<1> QED
  BY <1>1, <1>2 DEF Copied

LEMMA FailCopied ==
  ASSUME NEW k, NEW e \in Entry(Answers), Copied(k, e), NEW inUse
  PROVE  Fail(e, inUse) \in Entry(Answers) /\ Copied(k, Fail(e, inUse))
<1> DEFINE again == [e EXCEPT !.fetch = "asked", !.coming = NoData, !.tries = @ + 1]
           over  == [e EXCEPT !.fetch = "idle", !.coming = NoData, !.status = "error",
                              !.stale = TRUE]
<1>1. e.tries < Retries => again \in Entry(Answers) /\ Copied(k, again)
  <2> SUFFICES ASSUME e.tries < Retries
               PROVE  again \in Entry(Answers) /\ Copied(k, again)
    OBVIOUS
  <2>2. e.tries + 1 \in 0..Retries
    BY DEF Entry, Retries
  <2>3. again \in Entry(Answers)
    BY <2>2 DEF Entry
  <2>4. again.fetch = "asked" /\ again.coming = NoData /\ again.data = e.data
    BY <2>2 DEF Entry
  <2> QED
    BY <2>3, <2>4 DEF Copied
<1>2. over \in Entry(Answers) /\ Copied(k, over)
  BY DEF Entry, Copied
<1>3. Fail(e, inUse) = IF inUse /\ e.tries < Retries THEN again ELSE over
  BY DEF Fail
<1> HIDE DEF again, over
<1> QED
  BY <1>1, <1>2, <1>3

-----------------------------------------------------------------------------
(* The steps.                                                              *)

\* Of a step that leaves the table alone.
LEMMA CacheKept ==
  ASSUME Inv, NEW k \in Keys, NEW e \in Entry(Answers), Copied(k, e),
         NEW n \in 0..MaxRows \cup {NoData}, Bounded(k, e, n),
         cache' = [cache EXCEPT ![k] = e],
         counted' = [counted EXCEPT ![k] = n],
         UNCHANGED <<server, table>>
  PROVE  /\ cache' \in [Keys -> Entry(Answers)]
         /\ counted' \in [Keys -> 0..MaxRows \cup {NoData}]
         /\ \A q \in Keys : (Copied(q, cache[q]) /\ Bounded(q, cache[q], counted[q]))'
         /\ \A i \in DOMAIN table' : Kept(i, table[i])'
<1>1. /\ cache' \in [Keys -> Entry(Answers)]
      /\ counted' \in [Keys -> 0..MaxRows \cup {NoData}]
  BY DEF Inv, TypeOK
<1>2. ASSUME NEW q \in Keys
      PROVE  (Copied(q, cache[q]) /\ Bounded(q, cache[q], counted[q]))'
  <2>1. Copied(q, cache'[q])
    BY DEF Inv, TypeOK
  <2>2. Bounded(q, cache'[q], counted'[q])
    BY DEF Inv, TypeOK
  <2>3. Asked(q)' = Asked(q)
    BY DEF Asked
  <2> QED
    BY <2>1, <2>2, <2>3 DEF Copied, Held, Bounded
<1>3. \A i \in DOMAIN table' : Kept(i, table[i])'
  BY DEF Inv, Kept
<1> QED
  BY <1>1, <1>2, <1>3

\* Of a step that leaves the answers alone as well.
LEMMA StillKept ==
  ASSUME Inv, UNCHANGED <<server, table, counted, cache>>
  PROVE  /\ \A i \in DOMAIN table' : Kept(i, table[i])'
         /\ \A k \in Keys : (Copied(k, cache[k]) /\ Bounded(k, cache[k], counted[k]))'
<1>1. \A k : Asked(k)' = Asked(k)
  BY DEF Asked
<1> QED
  BY <1>1 DEF Inv, Kept, Copied, Held, Bounded

LEMMA CacheStep ==
  ASSUME Inv, NEW k \in Keys, NEW e \in Entry(Answers), Copied(k, e),
         NEW n \in 0..MaxRows \cup {NoData}, Bounded(k, e, n),
         cache' = [cache EXCEPT ![k] = e],
         counted' = [counted EXCEPT ![k] = n],
         UNCHANGED <<server, table, client>>
  PROVE  Inv'
<1>1. TypeOK'
  BY CacheKept DEF Inv, TypeOK, client
<1>2. (open => selected # NoData /\ Agrees(selected))'
  BY DEF Inv, client
<1> QED
  BY <1>1, <1>2, CacheKept DEF Inv

\* Of a step of the server: no row goes away, and no dead letter changes.
LEMMA TableStep ==
  ASSUME Inv, UNCHANGED <<server, counted, cache, client>>,
         table' \in Seq(Row), Len(table') <= MaxRows,
         DOMAIN table \subseteq DOMAIN table',
         \A i \in DOMAIN table' : Kept(i, table'[i]),
         \A i \in DOMAIN table : table[i].status = "DEAD_LETTER" => table'[i] = table[i]
  PROVE  Inv'
<1>1. TypeOK'
  BY DEF Inv, TypeOK, client
<1>2. (open => selected # NoData /\ Agrees(selected))'
  BY DEF Inv, client
<1>3. \A i \in DOMAIN table' : Kept(i, table[i])'
  BY DEF Kept
<1>4. ASSUME NEW q \in DeadKeys
      PROVE  /\ Asked(q) \subseteq Asked(q)'
             /\ \A i \in Asked(q) : table'[i] = table[i]
             /\ Cardinality(Asked(q)) <= Cardinality(Asked(q)')
             /\ Cardinality(Asked(q)) \in Nat /\ Cardinality(Asked(q)') \in Nat
  <2>1. Asked(q) \subseteq Asked(q)' /\ \A i \in Asked(q) : table'[i] = table[i]
    BY KeyFields DEF Asked
  <2>2. IsFiniteSet(Asked(q)')
    <3>1. Asked(q)' \subseteq DOMAIN table'
      BY DEF Asked
    <3>2. DOMAIN table' = 1..Len(table') /\ Len(table') \in Int /\ 1 \in Int
      OBVIOUS
    <3>3. IsFiniteSet(1..Len(table'))
      BY <3>2, FS_Interval
    <3> QED
      BY <3>1, <3>2, <3>3, FS_Subset
  <2> QED
    BY <2>1, <2>2, FS_Subset, FS_CardinalityType
<1>5. ASSUME NEW q \in Keys
      PROVE  (Copied(q, cache[q]) /\ Bounded(q, cache[q], counted[q]))'
  <2>1. Copied(q, cache[q]) /\ Bounded(q, cache[q], counted[q]) /\ cache[q] \in Entry(Answers)
    BY DEF Inv, TypeOK
  <2>2. ASSUME NEW a \in {cache[q].data, cache[q].coming} \ {NoData}, q \in DeadKeys
        PROVE  Held(q, a)'
    <3>1. Held(q, a) /\ a \in Answers
      BY <2>1, <2>2 DEF Copied, Entry
    <3>2. a.total <= Cardinality(Asked(q)')
      BY <3>1, <2>2, <1>4 DEF Held, Answers
    <3> QED
      BY <3>1, <3>2, <2>2, <1>4 DEF Held
  <2>3. Copied(q, cache[q])'
    BY <2>1, <2>2 DEF Copied
  <2>4. ASSUME q \in DeadKeys, counted[q] # NoData
        PROVE  counted[q] <= Cardinality(Asked(q)')
    <3>1. counted[q] <= Cardinality(Asked(q)) /\ counted[q] \in Nat
      <4>1. counted[q] \in 0..MaxRows /\ MaxRows \in Nat
        BY <2>4, RowAssumption DEF Inv, TypeOK
      <4> QED
        BY <2>1, <2>4, <4>1 DEF Bounded
    <3> QED
      BY <1>4, <2>4, <3>1
  <2>5. Bounded(q, cache[q], counted[q])'
    BY <2>1, <2>4 DEF Bounded
  <2> QED
    BY <2>3, <2>5
<1> QED
  BY <1>1, <1>2, <1>3, <1>5 DEF Inv

LEMMA InsertKeepsInv ==
  ASSUME Inv, NEW v \in Vendors, Insert(v)
  PROVE  Inv'
<1> DEFINE n == Len(table) + 1
           r == NewRow(v)
<1>1. /\ Len(table) \in Nat /\ Len(table) < MaxRows /\ MaxRows \in Nat
      /\ MaxAttempts \in Nat \ {0} /\ table \in Seq(Row)
  BY RowAssumption, TableLength DEF Inv, TypeOK, Insert
<1>2. r \in Row /\ Kept(n, r)
  <2>1. n \in 1..MaxRows /\ 0 \in 0..MaxAttempts /\ 0 < MaxAttempts
    BY <1>1
  <2>2. (server = "gateway") \in BOOLEAN
    OBVIOUS
  <2>3. r = [id |-> n, provider |-> v, status |-> "PENDING", attempts |-> 0,
             lastError |-> FALSE, deliveredAt |-> FALSE, nextRetryAt |-> server = "gateway"]
    BY DEF NewRow
  <2> HIDE DEF r, n
  <2>4. r \in Row
    BY <2>1, <2>2, <2>3 DEF Row, Statuses
  <2>5. Kept(n, r)
    BY <2>1, <2>3 DEF Kept, Agrees
  <2> QED
    BY <2>4, <2>5
<1>3. table' = Append(table, r)
  BY DEF Insert, Write
<1> HIDE DEF r
<1>4. /\ table' \in Seq(Row) /\ Len(table') = n /\ DOMAIN table' = 1..n
      /\ \A i \in DOMAIN table : table'[i] = table[i]
      /\ table'[n] = r
      /\ DOMAIN table = 1..Len(table)
  BY <1>1, <1>2, <1>3
<1>5. \A i \in DOMAIN table' : Kept(i, table'[i])
  <2>1. \A i \in DOMAIN table : Kept(i, table[i])
    BY DEF Inv
  <2>2. \A i \in DOMAIN table' : i \in DOMAIN table \/ i = n
    BY <1>1, <1>4
  <2> HIDE DEF n
  <2> QED
    BY <1>2, <1>4, <2>1, <2>2
<1>6. Len(table') <= MaxRows /\ DOMAIN table \subseteq DOMAIN table'
  BY <1>1, <1>4
<1>7. UNCHANGED <<server, counted, cache, client>>
  BY DEF Insert, Write
<1> QED
  BY <1>4, <1>5, <1>6, <1>7, TableStep

\* A row that is not a dead letter may become any row that is kept.
LEMMA RowStep ==
  ASSUME Inv, NEW i \in DOMAIN table, table[i].status \in Unsettled,
         NEW r \in Row, Kept(i, r), Write([table EXCEPT ![i] = r])
  PROVE  Inv'
<1>1. table \in Seq(Row) /\ Len(table) <= MaxRows
  BY DEF Inv, TypeOK
<1>2. table' = [table EXCEPT ![i] = r] /\ UNCHANGED <<server, counted, cache, client>>
  BY DEF Write
<1>3. table' \in Seq(Row) /\ Len(table') = Len(table) /\ DOMAIN table' = DOMAIN table
  BY <1>1, <1>2
<1>4. \A j \in DOMAIN table' : Kept(j, table'[j])
  BY <1>1, <1>2 DEF Inv
<1>5. \A j \in DOMAIN table : table[j].status = "DEAD_LETTER" => table'[j] = table[j]
  BY <1>1, <1>2 DEF Unsettled
<1> QED
  BY <1>1, <1>2, <1>3, <1>4, <1>5, TableStep

LEMMA DeliverKeepsInv ==
  ASSUME Inv, Deliver
  PROVE  Inv'
<1>1. server = "gateway"
  BY DEF Deliver
<1>2. PICK i \in DOMAIN table :
         Claim(i) \/ Succeeded(i) \/ DeadLettered(i) \/ Retried(i) \/ PutBack(i)
  BY DEF Deliver
<1> DEFINE t == table[i]
<1>3. t \in Row /\ Kept(i, t) /\ t.status \in Unsettled
  BY <1>2, TableLength
     DEF Inv, Unsettled, Claim, Succeeded, DeadLettered, Retried, PutBack
<1>4. /\ t.attempts \in Nat /\ t.attempts < MaxAttempts /\ MaxAttempts \in Nat
      /\ t.attempts + 1 \in 0..MaxAttempts /\ t.attempts + 1 > 0
  <2>1. t.attempts \in 0..MaxAttempts /\ MaxAttempts \in Nat /\ t.attempts < MaxAttempts
    BY <1>1, <1>3, RowAssumption DEF Row, Kept
  <2> QED
    BY <2>1
<1>5. CASE Claim(i)
  <2> DEFINE r == [t EXCEPT !.status = "IN_FLIGHT"]
  <2>1. r \in Row /\ Kept(i, r)
    BY <1>3, <1>4, <1>5 DEF Row, Statuses, Kept, Agrees, Claim
  <2>2. Write([table EXCEPT ![i] = r])
    BY <1>5 DEF Claim
  <2> QED
    BY <1>3, <2>1, <2>2, RowStep
<1>6. CASE Succeeded(i)
  <2> DEFINE r == [t EXCEPT !.status = "SUCCEEDED", !.attempts = @ + 1,
                            !.lastError = FALSE, !.deliveredAt = TRUE]
  <2>1. r \in Row /\ Kept(i, r)
    BY <1>3, <1>4 DEF Row, Statuses, Kept, Agrees, Unsettled
  <2>2. Write([table EXCEPT ![i] = r])
    BY <1>6 DEF Succeeded
  <2> QED
    BY <1>3, <2>1, <2>2, RowStep
<1>7. CASE DeadLettered(i)
  <2> DEFINE r == [t EXCEPT !.status = "DEAD_LETTER", !.attempts = @ + 1, !.lastError = TRUE]
  <2>1. r \in Row /\ Kept(i, r)
    BY <1>3, <1>4 DEF Row, Statuses, Kept, Agrees, Unsettled
  <2>2. Write([table EXCEPT ![i] = r])
    BY <1>7 DEF DeadLettered
  <2> QED
    BY <1>3, <2>1, <2>2, RowStep
<1>8. CASE Retried(i)
  <2> DEFINE r == [t EXCEPT !.status = "PENDING", !.attempts = @ + 1,
                            !.nextRetryAt = TRUE, !.lastError = TRUE]
  <2>1. t.attempts + 1 < MaxAttempts
    BY <1>8 DEF Retried
  <2>2. r \in Row /\ Kept(i, r)
    BY <1>3, <1>4, <2>1 DEF Row, Statuses, Kept, Agrees, Unsettled
  <2>3. Write([table EXCEPT ![i] = r])
    BY <1>8 DEF Retried
  <2> QED
    BY <1>3, <2>2, <2>3, RowStep
<1>9. CASE PutBack(i)
  <2> DEFINE r == [t EXCEPT !.status = "PENDING", !.nextRetryAt = TRUE]
  <2>1. r \in Row /\ Kept(i, r)
    BY <1>3, <1>4 DEF Row, Statuses, Kept, Agrees, Unsettled
  <2>2. Write([table EXCEPT ![i] = r])
    BY <1>9 DEF PutBack
  <2> QED
    BY <1>3, <2>1, <2>2, RowStep
<1> QED
  BY <1>2, <1>5, <1>6, <1>7, <1>8, <1>9

\* The rows on screen are rows of an answer that is cached.
LEMMA ItemsAreRows ==
  ASSUME Inv, NEW r \in Items
  PROVE  r \in Row /\ Agrees(r)
<1>1. MainKey \in Keys
  BY MainIsKey DEF Inv
<1>2. PICK k \in Keys : Data = cache[k].data /\ Data # NoData
  <2>1. Data # NoData
    BY DEF Items
  <2>2. last # NoData => last \in Keys
    BY KeyFields DEF Inv, TypeOK
  <2> QED
    BY <1>1, <2>1, <2>2 DEF Data
<1>3. cache[k].data \in Answers /\ r \in cache[k].data.items
  BY <1>2 DEF Inv, TypeOK, Entry, Items
<1>4. Copied(k, cache[k])
  BY DEF Inv
<1> QED
  BY <1>2, <1>3, <1>4 DEF Copied, Answers

LEMMA CountedKeepsInv ==
  ASSUME Inv, NEW k \in Keys, Counted(k)
  PROVE  Inv'
<1> DEFINE n == Cardinality(Asked(k))
<1>1. cache[k] \in Entry(Answers) /\ Copied(k, cache[k])
  BY DEF Inv, TypeOK
<1>2. n \in 0..MaxRows /\ MaxRows \in Nat
  BY AskedFinite, RowAssumption DEF Inv
<1>3. Bounded(k, cache[k], n)
  <2>1. ASSUME k \in DeadKeys, cache[k].data # NoData
        PROVE  n >= cache[k].data.total
    <3>1. Held(k, cache[k].data) /\ cache[k].data \in Answers
      BY <1>1, <2>1 DEF Copied, Entry
    <3>2. cache[k].data.total <= n /\ cache[k].data.total \in 0..MaxRows
      BY <3>1 DEF Held, Answers
    <3> HIDE DEF n
    <3> QED
      BY <1>2, <3>2
  <2>2. n <= n
    BY <1>2
  <2> QED
    BY <2>1, <2>2 DEF Bounded, Counted
<1>4. cache' = [cache EXCEPT ![k] = cache[k]]
  BY DEF Counted, Inv, TypeOK
<1>5. counted' = [counted EXCEPT ![k] = n] /\ UNCHANGED <<server, table, client>>
  BY DEF Counted
<1> HIDE DEF n
<1> QED
  BY <1>1, <1>2, <1>3, <1>4, <1>5, CacheStep

LEMMA ServedKeepsInv ==
  ASSUME Inv, NEW k \in Keys, Served(k)
  PROVE  Inv'
<1> DEFINE m == Cardinality(Asked(k))
           n == IF server = "gateway" THEN counted[k] ELSE m
           a == Answer(k, n)
<1>1. /\ cache[k] \in Entry(Answers) /\ Copied(k, cache[k])
      /\ Bounded(k, cache[k], counted[k])
      /\ counted[k] \in 0..MaxRows \cup {NoData}
  BY DEF Inv, TypeOK
<1>2. TypeOK /\ \A i \in DOMAIN table : Kept(i, table[i])
  BY DEF Inv
<1>3. m \in 0..MaxRows /\ MaxRows \in Nat
  BY <1>2, AskedFinite, RowAssumption
<1>4. cache' = [cache EXCEPT ![k] = Serve(cache[k], a)]
      /\ counted' = [counted EXCEPT ![k] = NoData]
      /\ UNCHANGED <<server, table, client>>
  BY DEF Served, Fetch
<1>5. server = "gateway" => counted[k] # NoData
  BY DEF Served
<1> HIDE DEF m
<1>6. n \in 0..MaxRows
  BY <1>1, <1>3, <1>5
<1>7. ASSUME k \in DeadKeys
      PROVE  n <= m /\ (cache[k].data # NoData => n >= cache[k].data.total)
  <2>1. ASSUME cache[k].data # NoData
        PROVE  cache[k].data.total \in 0..MaxRows /\ cache[k].data.total <= m
    BY <1>1, <1>7, <2>1 DEF Copied, Entry, Held, Answers, m
  <2>2. counted[k] # NoData => /\ counted[k] <= m
                               /\ cache[k].data # NoData => counted[k] >= cache[k].data.total
    BY <1>1, <1>7 DEF Bounded, m
  <2> QED
    BY <1>3, <1>5, <2>1, <2>2
<1> HIDE DEF n
<1>8. a \in Answers /\ a.total = n
  BY <1>2, <1>6, AnswerTyped
<1>9. \A r \in a.items : r.id \in Asked(k) /\ table[r.id] = r /\ Agrees(r)
  <2>1. \A r \in a.items : \E i \in Asked(k) : r = table[i]
    BY <1>2, <1>6, AnswerTyped
  <2>2. \A i \in Asked(k) : table[i].id = i /\ Agrees(table[i])
    BY <1>2 DEF Asked, Kept
  <2> HIDE DEF a
  <2> QED
    BY <2>1, <2>2
<1>10. k \in DeadKeys => Held(k, a)
  BY <1>7, <1>8, <1>9 DEF Held, m
<1>11. k \in DeadKeys /\ cache[k].data # NoData => NoOlder(cache[k].data, a)
  BY <1>1, <1>2, <1>6, <1>7, AnswerNoOlder DEF Copied, Entry
<1> HIDE DEF a
<1>12. Serve(cache[k], a) \in Entry(Answers) /\ Copied(k, Serve(cache[k], a))
  BY <1>1, <1>8, <1>9, <1>10, <1>11, ServeCopied
<1>13. Bounded(k, Serve(cache[k], a), NoData)
  BY DEF Bounded
<1> QED
  BY <1>4, <1>12, <1>13, CacheStep

LEMMA FetchKeepsInv ==
  ASSUME Inv, NEW k \in Keys, Received(k) \/ Failed(k)
  PROVE  Inv'
<1>1. cache[k] \in Entry(Answers) /\ Copied(k, cache[k])
  BY DEF Inv, TypeOK
<1>2. \A e : Bounded(k, e, NoData)
  BY DEF Bounded
<1>3. CASE Received(k)
  <2>1. (k = ListKey) \in BOOLEAN
    OBVIOUS
  <2>2. /\ Receive(cache[k], k = ListKey) \in Entry(Answers)
        /\ Copied(k, Receive(cache[k], k = ListKey))
    BY <1>1, <1>3, <2>1, ReceiveCopied DEF Received
  <2> QED
    BY <1>2, <1>3, <2>2, CacheStep DEF Received, Fetch
<1>4. CASE Failed(k)
  <2>1. PICK e : e = Fail(cache[k], k = MainKey)
    OBVIOUS
  <2>2. e \in Entry(Answers) /\ Copied(k, e)
    BY <1>1, <2>1, FailCopied
  <2>3. cache' = [cache EXCEPT ![k] = e] /\ counted' = [counted EXCEPT ![k] = NoData]
        /\ UNCHANGED <<server, table, client>>
    BY <1>4, <2>1 DEF Failed, Fetch
  <2> QED
    BY <1>2, <2>2, <2>3, CacheStep
<1> QED
  BY <1>3, <1>4

LEMMA RefreshKeepsInv ==
  ASSUME Inv, Refresh
  PROVE  Inv'
<1> DEFINE k == MainKey
           n == IF cache[k].data = NoData THEN counted[k] ELSE NoData
<1>1. k \in Keys /\ cache[k] \in Entry(Answers) /\ Copied(k, cache[k])
      /\ Bounded(k, cache[k], counted[k])
  BY MainIsKey DEF Inv, TypeOK
<1>2. cache' = [cache EXCEPT ![k] = Refetch(cache[k])]
      /\ counted' = [counted EXCEPT ![k] = n]
      /\ UNCHANGED <<server, table, client>>
  BY <1>1 DEF Refresh, Inv, TypeOK
<1> HIDE DEF k
<1>3. Refetch(cache[k]) \in Entry(Answers) /\ Copied(k, Refetch(cache[k]))
  BY <1>1, RefetchCopied
<1>4. n \in 0..MaxRows \cup {NoData}
  BY <1>1 DEF Inv, TypeOK
<1>5. Bounded(k, Refetch(cache[k]), n)
  BY <1>1 DEF Bounded, Refetch
<1> HIDE DEF n
<1> QED
  BY <1>1, <1>2, <1>3, <1>4, <1>5, CacheStep

LEMMA ObservedKept ==
  ASSUME Inv, NEW k \in Keys, cache' \in Observed(k), UNCHANGED <<server, table, counted>>
  PROVE  /\ cache' \in [Keys -> Entry(Answers)]
         /\ counted' \in [Keys -> 0..MaxRows \cup {NoData}]
         /\ \A q \in Keys : (Copied(q, cache[q]) /\ Bounded(q, cache[q], counted[q]))'
         /\ \A i \in DOMAIN table' : Kept(i, table[i])'
<1>1. PICK expired \in BOOLEAN : cache' = [cache EXCEPT ![k] = Observe(cache[k], expired)]
  BY DEF Observed
<1>2. /\ cache[k] \in Entry(Answers) /\ Copied(k, cache[k])
      /\ Bounded(k, cache[k], counted[k])
      /\ counted[k] \in 0..MaxRows \cup {NoData}
  BY DEF Inv, TypeOK
<1>3. /\ Observe(cache[k], expired) \in Entry(Answers)
      /\ Copied(k, Observe(cache[k], expired))
  BY <1>2, ObserveCopied
<1>4. Bounded(k, Observe(cache[k], expired), counted[k])
  BY <1>2 DEF Bounded, Observe
<1>5. counted' = [counted EXCEPT ![k] = counted[k]]
  BY DEF Inv, TypeOK
<1> QED
  BY <1>1, <1>2, <1>3, <1>4, <1>5, CacheKept

LEMMA ShowKeepsInv ==
  ASSUME Inv, NEW p \in {"list", "dead"}, Show(p)
  PROVE  Inv'
<1> DEFINE k == IF p = "list" THEN ListKey ELSE [kind |-> "dead", provider |-> ""]
<1>1. k \in Keys
  BY KeyFields
<1>2. cache' \in Observed(k) /\ UNCHANGED <<server, table, counted>>
  BY DEF Show
<1> HIDE DEF k
<1>3. /\ cache' \in [Keys -> Entry(Answers)]
      /\ counted' \in [Keys -> 0..MaxRows \cup {NoData}]
      /\ \A q \in Keys : (Copied(q, cache[q]) /\ Bounded(q, cache[q], counted[q]))'
      /\ \A i \in DOMAIN table' : Kept(i, table[i])'
  BY <1>1, <1>2, ObservedKept
<1>4. TypeOK'
  BY <1>3 DEF Show, Inv, TypeOK
<1> QED
  BY <1>3, <1>4 DEF Show, Inv

LEMMA SelectVendorKeepsInv ==
  ASSUME Inv, NEW v \in Vendors \cup {""}, SelectVendor(v)
  PROVE  Inv'
<1> DEFINE k == [kind |-> "dead", provider |-> v]
<1>1. k \in Keys
  BY KeyFields
<1>2. cache' \in Observed(k) /\ UNCHANGED <<server, table, counted>>
  BY DEF SelectVendor
<1> HIDE DEF k
<1>3. /\ cache' \in [Keys -> Entry(Answers)]
      /\ counted' \in [Keys -> 0..MaxRows \cup {NoData}]
      /\ \A q \in Keys : (Copied(q, cache[q]) /\ Bounded(q, cache[q], counted[q]))'
      /\ \A i \in DOMAIN table' : Kept(i, table[i])'
  BY <1>1, <1>2, ObservedKept
<1>4. last' \in DeadKeys \cup {NoData}
  BY MainIsKey DEF Inv, TypeOK, SelectVendor
<1>5. TypeOK'
  BY <1>3, <1>4 DEF SelectVendor, Inv, TypeOK
<1>6. (open => selected # NoData /\ Agrees(selected))'
  BY DEF SelectVendor, Inv
<1> QED
  BY <1>3, <1>5, <1>6 DEF Inv

\* The clicks that ask the server for nothing.
LEMMA ClickKeepsInv ==
  ASSUME Inv,
         CloseSheet \/ \E r \in Items : OpenSheet(r) \/ Toggle(r)
  PROVE  Inv'
<1>1. UNCHANGED <<server, table, counted, cache, vendor, last>>
  BY DEF CloseSheet, OpenSheet, Toggle
<1> DEFINE Fits == /\ selected' \in Row \cup {NoData} /\ open' \in BOOLEAN
                   /\ expanded' \subseteq 1..MaxRows
                   /\ open' => selected' # NoData /\ Agrees(selected')
<1>2. Fits
  <2>1. CASE CloseSheet
    BY <2>1 DEF CloseSheet, Inv, TypeOK
  <2>2. ASSUME NEW r \in Items, OpenSheet(r)
        PROVE  Fits
    <3>1. r \in Row /\ Agrees(r) /\ r # NoData
      BY ItemsAreRows, RowAssumption
    <3> QED
      BY <2>2, <3>1 DEF OpenSheet, Inv, TypeOK
  <2>3. ASSUME NEW r \in Items, Toggle(r)
        PROVE  Fits
    <3>1. RowKey(r) \in 1..MaxRows
      BY ItemsAreRows DEF RowKey, Row
    <3> QED
      BY <2>3, <3>1 DEF Toggle, Inv, TypeOK
  <2> QED
    BY <2>1, <2>2, <2>3
<1>3. TypeOK'
  BY <1>1, <1>2 DEF Inv, TypeOK
<1>4. /\ \A i \in DOMAIN table' : Kept(i, table[i])'
      /\ \A k \in Keys : (Copied(k, cache[k]) /\ Bounded(k, cache[k], counted[k]))'
  BY <1>1, StillKept
<1>5. (open => selected # NoData /\ Agrees(selected))'
  BY <1>2
<1> QED
  BY <1>3, <1>4, <1>5 DEF Inv

LEMMA SeedKept ==
  ASSUME server = "mock",
         NEW v \in Vendors, NEW s \in Statuses, NEW n \in 1..MaxAttempts
  PROVE  Seed(1, v, s, n) \in Row /\ Kept(1, Seed(1, v, s, n))
<1> DEFINE r == Seed(1, v, s, n)
<1>1. /\ 1 \in 1..MaxRows /\ 1 \in 0..MaxAttempts /\ 1 > 0
      /\ n \in 0..MaxAttempts /\ n > 0
  <2>1. MaxRows \in Nat \ {0} /\ MaxAttempts \in Nat \ {0}
    BY RowAssumption
  <2> QED
    BY <2>1
<1>2. r \in Row
  BY <1>1 DEF Seed, Row
<1>3. r.id = 1 /\ r.status = s /\ r.attempts > 0
  BY <1>1 DEF Seed
<1>4. CASE s = "SUCCEEDED"
  <2>1. r.deliveredAt /\ ~r.lastError
    BY <1>4 DEF Seed
  <2> QED
    BY <1>2, <1>3, <1>4, <2>1 DEF Kept, Agrees
<1>5. CASE s # "SUCCEEDED"
  <2>1. ~r.deliveredAt /\ r.lastError
    BY <1>5 DEF Seed
  <2> QED
    BY <1>2, <1>3, <1>5, <2>1 DEF Kept, Agrees
<1> QED
  BY <1>4, <1>5

LEMMA InitInv == Init => Inv
<1> SUFFICES ASSUME Init
             PROVE  Inv
  OBVIOUS
<1>1. MaxRows \in Nat \ {0} /\ MaxAttempts \in Nat \ {0}
  BY RowAssumption
<1>2. /\ table \in Seq(Row) /\ Len(table) <= MaxRows
      /\ \A i \in DOMAIN table : Kept(i, table[i])
  <2>1. CASE server = "mock"
    <3>1. table \in MockTables
      BY <2>1 DEF Init
    <3>2. PICK r \in {Seed(1, v, s, n) : v \in Vendors, s \in Statuses, n \in 1..MaxAttempts} :
             table = <<r>>
      BY <3>1 DEF MockTables
    <3>3. r \in Row /\ Kept(1, r)
      BY <2>1, SeedKept
    <3> QED
      BY <1>1, <3>2, <3>3
  <2>2. CASE server # "mock"
    <3>1. table = <<>>
      BY <2>2 DEF Init
    <3>2. table \in Seq(Row) /\ Len(table) = 0 /\ DOMAIN table = {}
      BY <3>1
    <3> QED
      BY <1>1, <3>2
  <2> QED
    BY <2>1, <2>2
<1>3. NewEntry \in Entry(Answers) /\ \A k : Copied(k, NewEntry)
  <2>1. 0 \in 0..Retries
    BY DEF Retries
  <2> QED
    BY <2>1 DEF NewEntry, Entry, Copied
<1>4. \A k : Observe(NewEntry, FALSE) \in Entry(Answers) /\ Copied(k, Observe(NewEntry, FALSE))
  BY <1>3, ObserveCopied
<1>5. cache \in [Keys -> Entry(Answers)] /\ \A k \in Keys : Copied(k, cache[k])
  BY <1>3, <1>4 DEF Init
<1>6. /\ counted \in [Keys -> 0..MaxRows \cup {NoData}]
      /\ \A k \in Keys : Bounded(k, cache[k], counted[k])
  BY DEF Init, Bounded
<1> QED
  BY <1>2, <1>5, <1>6 DEF Init, Inv, TypeOK

LEMMA NextInv == Inv /\ [Next]_vars => Inv'
<1> SUFFICES ASSUME Inv, [Next]_vars
             PROVE  Inv'
  OBVIOUS
<1>1. CASE Next
  <2>1. ASSUME NEW v \in Vendors, Insert(v)
        PROVE  Inv'
    BY <2>1, InsertKeepsInv
  <2>2. CASE Deliver
    BY <2>2, DeliverKeepsInv
  <2>3. ASSUME NEW p \in {"list", "dead"}, Show(p)
        PROVE  Inv'
    BY <2>3, ShowKeepsInv
  <2>4. CASE CloseSheet \/ \E r \in Items : OpenSheet(r) \/ Toggle(r)
    BY <2>4, ClickKeepsInv
  <2>5. CASE Refresh
    BY <2>5, RefreshKeepsInv
  <2>6. ASSUME NEW v \in Vendors \cup {""}, SelectVendor(v)
        PROVE  Inv'
    BY <2>6, SelectVendorKeepsInv
  <2>7. ASSUME NEW k \in Keys, Counted(k) \/ Served(k) \/ Received(k) \/ Failed(k)
        PROVE  Inv'
    BY <2>7, CountedKeepsInv, ServedKeepsInv, FetchKeepsInv
  <2> QED
    BY <1>1, <2>1, <2>2, <2>3, <2>4, <2>5, <2>6, <2>7 DEF Next
<1>2. CASE UNCHANGED vars
  <2>1. UNCHANGED <<server, table, counted, cache, client>>
    BY <1>2 DEF vars
  <2>2. TypeOK' /\ (open => selected # NoData /\ Agrees(selected))'
    BY <1>2 DEF vars, client, Inv, TypeOK
  <2> QED
    BY <2>1, <2>2, StillKept DEF Inv
<1> QED
  BY <1>1, <1>2

-----------------------------------------------------------------------------
(* The theorems.                                                           *)

\* The invariant of this module, in every reachable state.
THEOREM InvCorrect == Spec => []Inv
  BY InitInv, NextInv, PTL DEF Spec

\* lib/types.ts, NotificationItem and the row's columns: attempts stay within
\* their limit and every copy of a row is a row.
THEOREM TypeCorrect == Spec => []TypeOK
<1>1. Inv => TypeOK
  BY DEF Inv
<1> QED
  BY <1>1, InvCorrect, PTL

\* dispatcher.py's outcomes, worker.py's _dispatch_one and mock.ts's rows:
\* what the list, its sheet and the dead-letter page show of a row never
\* disagrees with its badge.
THEOREM ShownRowAgreesCorrect == Spec => []ShownRowAgrees
<1>1. Inv => ShownRowAgrees
  BY ItemsAreRows DEF Inv, ShownRowAgrees, Agrees, Meta
<1> QED
  BY <1>1, InvCorrect, PTL

\* Data changes only by being received.
LEMMA DataChange ==
  ASSUME Inv, [Next]_vars, NEW k \in Keys
  PROVE  Received(k) \/ cache'[k].data = cache[k].data
<1>1. cache \in [Keys -> Entry(Answers)]
  BY DEF Inv, TypeOK
<1>2. \A e \in Entry(Answers) :
         /\ StartFetch(e).data = e.data /\ Refetch(e).data = e.data
         /\ \A x \in BOOLEAN : Observe(e, x).data = e.data
         /\ \A a : Serve(e, a).data = e.data
         /\ \A x : Fail(e, x).data = e.data
  BY DEF StartFetch, Refetch, Observe, Serve, Fail, Entry
<1>3. ASSUME NEW q \in Keys, cache' \in Observed(q)
      PROVE  cache'[k].data = cache[k].data
  BY <1>1, <1>2, <1>3 DEF Observed
<1>4. CASE \E p \in {"list", "dead"} : Show(p)
  BY <1>3, <1>4, KeyFields DEF Show
<1>5. CASE \E v \in Vendors \cup {""} : SelectVendor(v)
  BY <1>3, <1>5, KeyFields DEF SelectVendor
<1>6. CASE Refresh
  BY <1>1, <1>2, <1>6 DEF Refresh
<1>7. ASSUME NEW q \in Keys, Served(q) \/ Failed(q) \/ (Received(q) /\ q # k)
      PROVE  cache'[k].data = cache[k].data
  BY <1>1, <1>2, <1>7 DEF Served, Failed, Received, Fetch
<1>8. CASE UNCHANGED cache
  BY <1>8
<1>9. \/ UNCHANGED cache \/ Refresh
      \/ \E p \in {"list", "dead"} : Show(p)
      \/ \E v \in Vendors \cup {""} : SelectVendor(v)
      \/ \E q \in Keys : Served(q) \/ Failed(q) \/ Received(q)
  BY DEF Next, vars, Counted, Insert, Deliver, Claim, Succeeded, DeadLettered, Retried, PutBack,
         Write, OpenSheet, Toggle, CloseSheet
<1> QED
  BY <1>4, <1>5, <1>6, <1>7, <1>8, <1>9

\* The answers of the dead-letter page, whichever vendor is chosen and however
\* late they come: no refresh goes back, no row leaves but for a page of newer ones.
THEOREM DeadLettersStayCorrect == Spec => DeadLettersStay
<1> DEFINE Stays(k) ==
      cache[k].data # NoData
      => LET before == cache[k].data
             after  == cache'[k].data
         IN  /\ after # NoData
             /\ after.total >= before.total
             /\ \A r \in before.items :
                   \/ r \in after.items
                   \/ /\ Cardinality(after.items) >= Limit
                      /\ \A s \in after.items : s.id > r.id
<1>1. Inv /\ [Next]_vars => \A k \in DeadKeys : Stays(k)
  <2> SUFFICES ASSUME Inv, [Next]_vars, NEW k \in DeadKeys, cache[k].data # NoData
               PROVE  Stays(k)
    OBVIOUS
  <2>1. k \in Keys /\ cache[k] \in Entry(Answers) /\ Copied(k, cache[k])
    BY KeyFields DEF Inv, TypeOK
  <2>2. CASE Received(k)
    <3>1. cache[k].coming # NoData /\ NoOlder(cache[k].data, cache[k].coming)
      BY <2>1, <2>2 DEF Received, Copied
    <3>2. cache'[k].data = cache[k].coming
      BY <2>1, <2>2 DEF Received, Fetch, Receive, Inv, TypeOK, Entry
    <3> QED
      BY <3>1, <3>2 DEF NoOlder
  <2>3. CASE cache'[k].data = cache[k].data
    <3>1. cache[k].data.total \in Nat
      <4>1. cache[k].data \in Answers
        BY <2>1 DEF Entry
      <4>2. cache[k].data.total \in 0..MaxRows
        BY <4>1 DEF Answers
      <4>3. MaxRows \in Nat
        BY RowAssumption
      <4> QED
        BY <4>2, <4>3
    <3>2. cache[k].data.total >= cache[k].data.total
      BY <3>1
    <3> QED
      BY <2>3, <3>2
  <2>4. Received(k) \/ cache'[k].data = cache[k].data
    BY <2>1, DataChange
  <2> QED
    BY <2>2, <2>3, <2>4
<1>2. Spec => [][\A k \in DeadKeys : Stays(k)]_vars
  BY <1>1, InvCorrect, PTL DEF Spec
<1> QED
  BY <1>2 DEF DeadLettersStay
=============================================================================
