--------------------------- MODULE ConsoleProofs ---------------------------
(***************************************************************************)
(* Theorems about Console, for any vendors, payloads, page size, number of *)
(* clicks, submissions and failures, and for the gateway and the mock.     *)
(***************************************************************************)
EXTENDS Console, FiniteSetTheorems, TLAPS

-----------------------------------------------------------------------------
(* The inductive invariant.                                                *)

\* What the wizard's steps have established.
Formed ==
    /\ form.step # 0 => form.provider # NoVendor
    /\ form.step = 2 => Parses

OnScreen(i) == posts[i] # NoData /\ posts[i].here

\* The wizard that is shown waits for at most one submission, and cannot be
\* edited while it does.
Waiting ==
    \A i \in 1..MaxPosts : OnScreen(i) =>
        /\ mutation = "pending" /\ form.step = 2
        /\ posts[i].provider = form.provider /\ posts[i].body = form.text
        /\ \A j \in 1..MaxPosts : OnScreen(j) => j = i

\* Without a key, a submission's row is its own or one of the same content.
StoredAsSent ==
    \A i \in 1..MaxPosts :
        posts[i] # NoData /\ posts[i].id # 0 /\ posts[i].key = "" =>
            /\ table[posts[i].id].provider = posts[i].provider
            /\ table[posts[i].id].body = posts[i].body

\* An entry and an answer on its way are about their own key.  Those of a
\* list that count as current, and were not invalidated under way, are later
\* than every acceptance in ids.
Sound(k, e, ids) ==
    /\ e \in Entry(Answers)
    /\ e.fetch = "served" => e.coming # NoData
    /\ k.kind \in {"list", "dead"} =>
        /\ e.data # NoData => e.data.url = k.url
        /\ e.coming # NoData => e.coming.url = k.url
    /\ k.kind = "list" /\ ~e.raced =>
        /\ e.fetch = "idle" /\ ~e.stale /\ e.data # NoData => \A id \in ids : id <= e.data.rows
        /\ e.fetch = "served" => \A id \in ids : id <= e.coming.rows

CacheSound == \A k \in Keys : Sound(k, cache[k], acked)

\* A query in use is fetched as long as there is reason to.
Tended(k, e) ==
    /\ e.data = NoData /\ e.status = "pending" => e.fetch # "idle"
    /\ k.kind = "list" /\ e.fetch = "idle" /\ e.stale => e.status = "error"

Inv ==
    /\ TypeOK
    /\ Formed /\ Waiting /\ StoredAsSent
    /\ CacheSound
    /\ Tended(MainKey, cache[MainKey])
    /\ page = "dead" => url \in DeadUrls

-----------------------------------------------------------------------------
(* Keys and URLs.                                                          *)

LEMMA TopUrl == Top \in DeadUrls /\ DeadUrls \subseteq Urls
<1>1. 0 = 0 * PageSize /\ 0 \in 0..MaxRows - 1
  BY ConsoleAssumption
<1>2. NoFilter \in Filters
  BY DEF NoFilter, Filters
<1> QED
  BY <1>1, <1>2 DEF Top, DeadUrls, Urls, NoFilter

LEMMA KeyFields ==
  ASSUME NEW k \in Keys
  PROVE  k.kind \in {"metrics", "providers", "list", "dead"} /\ k.url \in Urls
BY TopUrl DEF Keys, MetricsKey, ProvidersKey, ListKey, DeadKey

LEMMA QueryOfIsKey ==
  ASSUME NEW p, NEW u \in Urls, p = "dead" => u \in DeadUrls
  PROVE  /\ QueryOf(p, u) \in Keys
         /\ p \in {"list", "dead"} => QueryOf(p, u).url = u
         /\ QueryOf(p, u).kind = "list" <=> p = "list"
BY DEF QueryOf, Keys, MetricsKey, ProvidersKey, ListKey, DeadKey

LEMMA MainIsKey ==
  ASSUME Inv
  PROVE  /\ MainKey \in Keys
         /\ page \in {"list", "dead"} => MainKey.url = url
         /\ MainKey.kind = "list" <=> page = "list"
BY QueryOfIsKey DEF Inv, TypeOK, MainKey

-----------------------------------------------------------------------------
(* The operators on an entry keep it sound; those that a query in use goes *)
(* through keep it tended.                                                 *)

LEMMA StartFetchSound ==
  ASSUME NEW k, NEW e, NEW ids, NEW ids2, Sound(k, e, ids)
  PROVE  Sound(k, StartFetch(e), ids2) /\ Tended(k, StartFetch(e))
<1>1. 0 \in 0..Retries
  BY DEF Retries
<1>2. StartFetch(e) \in Entry(Answers)
  BY <1>1 DEF Sound, StartFetch, Entry
<1>3. /\ StartFetch(e).fetch = "asked" /\ StartFetch(e).coming = NoData
      /\ StartFetch(e).data = e.data
  BY DEF Sound, StartFetch, Entry
<1> QED
  BY <1>2, <1>3 DEF Sound, Tended

LEMMA ObserveSound ==
  ASSUME NEW k, NEW e, NEW ids, NEW expired \in BOOLEAN, Sound(k, e, ids)
  PROVE  Sound(k, Observe(e, expired), ids) /\ Tended(k, Observe(e, expired))
<1>1. CASE e.fetch = "idle" /\ (e.data = NoData \/ e.stale \/ expired)
  BY <1>1, StartFetchSound DEF Observe
<1>2. CASE ~(e.fetch = "idle" /\ (e.data = NoData \/ e.stale \/ expired))
  BY <1>2 DEF Observe, Tended
<1> QED
  BY <1>1, <1>2

LEMMA RefetchSound ==
  ASSUME NEW k, NEW e, NEW ids, Sound(k, e, ids)
  PROVE  Sound(k, Refetch(e), ids) /\ Tended(k, Refetch(e))
<1>1. CASE e.fetch = "idle" \/ e.data # NoData
  BY <1>1, StartFetchSound DEF Refetch
<1>2. CASE ~(e.fetch = "idle" \/ e.data # NoData)
  BY <1>2 DEF Refetch, Tended
<1> QED
  BY <1>1, <1>2

\* Whatever has been accepted meanwhile, an invalidated entry does not count
\* as current.
LEMMA InvalidateSound ==
  ASSUME NEW k, NEW e, NEW ids, NEW ids2, NEW inUse \in BOOLEAN, Sound(k, e, ids)
  PROVE  /\ Sound(k, Invalidate(e, inUse), ids2)
         /\ inUse => Tended(k, Invalidate(e, inUse))
<1> DEFINE marked == [e EXCEPT !.stale = TRUE]
<1>1. CASE inUse /\ (e.fetch = "idle" \/ e.data # NoData)
  <2>1. Sound(k, marked, ids)
    BY DEF Sound, Entry
  <2> QED
    BY <1>1, <2>1, StartFetchSound DEF Invalidate
<1>2. CASE ~(inUse /\ (e.fetch = "idle" \/ e.data # NoData))
  <2>1. Invalidate(e, inUse) = [marked EXCEPT !.raced = e.fetch # "idle"]
    BY <1>2 DEF Invalidate
  <2>2. (e.fetch # "idle") \in BOOLEAN
    OBVIOUS
  <2>3. Sound(k, Invalidate(e, inUse), ids2)
    BY <2>1, <2>2 DEF Sound, Entry
  <2>4. inUse => Tended(k, Invalidate(e, inUse))
    BY <1>2, <2>1 DEF Sound, Entry, Tended
  <2> QED
    BY <2>3, <2>4
<1> QED
  BY <1>1, <1>2

LEMMA ServeSound ==
  ASSUME NEW k, NEW e, NEW ids, Sound(k, e, ids),
         NEW answer \in Answers,
         k.kind \in {"list", "dead"} => answer.url = k.url,
         k.kind = "list" => \A id \in ids : id <= answer.rows
  PROVE  Sound(k, Serve(e, answer), ids) /\ Tended(k, Serve(e, answer))
<1>1. answer # NoData
  BY ConsoleAssumption
<1> QED
  BY <1>1 DEF Sound, Tended, Serve, Entry

LEMMA ReceiveSound ==
  ASSUME NEW k, NEW e, NEW ids, Sound(k, e, ids), e.fetch = "served"
  PROVE  Sound(k, Receive(e, Lasting(k)), ids) /\ Tended(k, Receive(e, Lasting(k)))
<1>1. Lasting(k) \in BOOLEAN /\ (k.kind = "list" => Lasting(k))
  BY DEF Lasting
<1> QED
  BY <1>1 DEF Sound, Tended, Receive, Entry

LEMMA FailSound ==
  ASSUME NEW k, NEW e, NEW ids, Sound(k, e, ids), e.fetch # "idle", NEW inUse
  PROVE  Sound(k, Fail(e, inUse), ids) /\ Tended(k, Fail(e, inUse))
<1> DEFINE again == [e EXCEPT !.fetch = "asked", !.coming = NoData, !.tries = @ + 1]
           over  == [e EXCEPT !.fetch = "idle", !.coming = NoData, !.status = "error",
                              !.stale = TRUE]
<1>1. e.tries < Retries => Sound(k, again, ids) /\ Tended(k, again)
  <2> SUFFICES ASSUME e.tries < Retries
               PROVE  Sound(k, again, ids) /\ Tended(k, again)
    OBVIOUS
  <2>1. e \in Entry(Answers) /\ e.tries + 1 \in 0..Retries
    BY DEF Sound, Entry, Retries
  <2>2. again \in Entry(Answers)
    BY <2>1 DEF Entry
  <2>3. again.fetch = "asked" /\ again.coming = NoData /\ again.data = e.data
    BY <2>1 DEF Entry
  <2> QED
    BY <2>2, <2>3 DEF Sound, Tended
<1>2. Sound(k, over, ids) /\ Tended(k, over)
  BY DEF Sound, Tended, Entry
<1>3. Fail(e, inUse) = IF inUse /\ e.tries < Retries THEN again ELSE over
  BY DEF Fail
<1> HIDE DEF again, over
<1> QED
  BY <1>1, <1>2, <1>3

\* What a GET finds is about its query, and knows every row of the table.
LEMMA AnswerTyped ==
  ASSUME TypeOK, NEW k \in Keys
  PROVE  /\ Answer(k) \in Answers
         /\ k.kind \in {"list", "dead"} => Answer(k).url = k.url
         /\ k.kind = "list" => Answer(k).rows = Len(table)
<1> DEFINE f == k.url.filter
           S == {i \in DOMAIN table :
                   /\ f.provider \in {"", table[i].provider}
                   /\ f.q \in {"", table[i].body}
                   /\ k.kind = "dead" => i \in DeadRows}
           items == {i \in S : Cardinality({j \in S : j > i})
                                   \in k.url.offset..k.url.offset + PageSize - 1}
<1>1. Len(table) \in 0..MaxRows /\ DOMAIN table = 1..Len(table)
  <2>1. table \in Seq(Row) /\ Len(table) <= MaxRows
    BY DEF TypeOK
  <2>2. MaxRows \in Nat
    BY ConsoleAssumption
  <2> HIDE DEF S, items
  <2> QED
    BY <2>1, <2>2
<1>2. S \subseteq 1..Len(table) /\ items \in SUBSET (1..MaxRows)
  <2>1. MaxRows \in Nat
    BY ConsoleAssumption
  <2>2. S \subseteq 1..Len(table) /\ items \subseteq S
    BY <1>1
  <2> HIDE DEF S, items
  <2> QED
    BY <1>1, <2>1, <2>2
<1>3. IsFiniteSet(1..Len(table)) /\ Cardinality(1..Len(table)) = Len(table)
  <2> HIDE DEF S, items
  <2>1. Len(table) \in Nat /\ Len(table) \in Int /\ 1 \in Int
    BY <1>1
  <2>2. IsFiniteSet(1..Len(table))
    BY <2>1, FS_Interval
  <2>3. Cardinality(1..Len(table)) = IF 1 > Len(table) THEN 0 ELSE Len(table) - 1 + 1
    BY <2>1, FS_Interval
  <2> QED
    BY <2>1, <2>2, <2>3
<1>4. Cardinality(S) \in 0..MaxRows
  <2> HIDE DEF S
  <2>1. IsFiniteSet(S) /\ Cardinality(S) <= Len(table)
    BY <1>2, <1>3, FS_Subset
  <2>2. Cardinality(S) \in Nat
    BY <2>1, FS_CardinalityType
  <2> QED
    BY <1>1, <2>1, <2>2, ConsoleAssumption
<1>5. k.url \in Urls /\ Top \in Urls
  BY KeyFields, TopUrl
<1>6. CASE k.kind \in {"metrics", "providers"}
  <2>1. Answer(k) = [url |-> Top, items |-> {}, total |-> 0, rows |-> 0]
    BY <1>6 DEF Answer
  <2>2. 0 \in 0..MaxRows
    BY ConsoleAssumption
  <2> QED
    BY <1>5, <1>6, <2>1, <2>2 DEF Answers
<1>7. CASE k.kind \in {"list", "dead"}
  <2>1. Answer(k) = [url |-> k.url, rows |-> Len(table), total |-> Cardinality(S),
                     items |-> items]
    BY <1>7 DEF Answer
  <2> HIDE DEF S, items
  <2> QED
    BY <1>1, <1>2, <1>4, <1>5, <2>1 DEF Answers
<1> QED
  BY <1>6, <1>7, KeyFields
-----------------------------------------------------------------------------
(* The steps, by what they change.                                         *)

\* What a step that changes only the cache leaves of the invariant to show.
LEMMA CacheStep ==
  ASSUME Inv, NEW k \in Keys, NEW e, Sound(k, e, acked),
         k = MainKey => Tended(k, e),
         cache' = [cache EXCEPT ![k] = e],
         UNCHANGED <<world, client, wizard, net, submitted>>
  PROVE  Inv'
<1> USE DEF world, client, wizard, net
<1>1. TypeOK'
  BY DEF Inv, TypeOK, Sound
<1>2. Formed' /\ Waiting' /\ StoredAsSent'
  BY DEF Inv, Formed, Parses, Waiting, OnScreen, StoredAsSent
<1>3. CacheSound'
  BY DEF Inv, TypeOK, CacheSound
<1>4. Tended(MainKey, cache[MainKey])'
  <2>1. MainKey' = MainKey
    BY DEF MainKey
  <2>2. Tended(MainKey, cache'[MainKey])
    BY MainIsKey DEF Inv, TypeOK
  <2> QED
    BY <2>1, <2>2
<1> QED
  BY <1>1, <1>2, <1>3, <1>4 DEF Inv

LEMMA SettleKeepsInv ==
  ASSUME Inv, NEW k \in Keys, Settle(k) \/ Polled(k)
  PROVE  Inv'
<1>1. Sound(k, cache[k], acked)
  BY DEF Inv, CacheSound
<1>2. CASE Served(k)
  <2>1. \A id \in acked : id <= Len(table)
    BY DEF Inv, TypeOK
  <2>2. Sound(k, Serve(cache[k], Answer(k)), acked) /\ Tended(k, Serve(cache[k], Answer(k)))
    BY <1>1, <2>1, AnswerTyped, ServeSound DEF Inv
  <2> QED
    BY <1>2, <2>2, CacheStep DEF Served, Fetch, bounds
<1>3. CASE Received(k)
  <2>1. /\ Sound(k, Receive(cache[k], Lasting(k)), acked)
        /\ Tended(k, Receive(cache[k], Lasting(k)))
    BY <1>1, <1>3, ReceiveSound DEF Received
  <2> QED
    BY <1>3, <2>1, CacheStep DEF Received, Fetch, bounds
<1>4. CASE Failed(k)
  <2>1. PICK e : e = Fail(cache[k], k \in InUse)
    OBVIOUS
  <2>2. Sound(k, e, acked) /\ Tended(k, e)
    BY <1>1, <1>4, <2>1, FailSound DEF Failed
  <2>3. cache' = [cache EXCEPT ![k] = e]
    BY <1>4, <2>1 DEF Failed
  <2> QED
    BY <1>4, <2>2, <2>3, CacheStep DEF Failed
<1>5. CASE Polled(k)
  <2>1. Sound(k, StartFetch(cache[k]), acked) /\ Tended(k, StartFetch(cache[k]))
    BY <1>1, StartFetchSound
  <2> QED
    BY <1>5, <2>1, CacheStep DEF Polled, Fetch, bounds
<1> QED
  BY <1>2, <1>3, <1>4, <1>5 DEF Settle

LEMMA RetryKeepsInv ==
  ASSUME Inv, Retry
  PROVE  Inv'
<1>1. MainKey \in Keys
  BY MainIsKey
<1>2. Sound(MainKey, cache[MainKey], acked)
  BY <1>1 DEF Inv, CacheSound
<1>3. Sound(MainKey, Refetch(cache[MainKey]), acked) /\ Tended(MainKey, Refetch(cache[MainKey]))
  BY <1>2, RefetchSound
<1>4. cache' = [cache EXCEPT ![MainKey] = Refetch(cache[MainKey])]
  BY DEF Retry
<1> QED
  BY <1>1, <1>3, <1>4, CacheStep DEF Retry, bounds

\* The cache once another query is used.
LEMMA ObservedSound ==
  ASSUME Inv, NEW k \in Keys, NEW c \in Observed(cache, k)
  PROVE  /\ c \in [Keys -> Entry(Answers)]
         /\ \A j \in Keys : Sound(j, c[j], acked)
         /\ Tended(k, c[k])
<1>1. PICK expired \in BOOLEAN : c = [cache EXCEPT ![k] = Observe(cache[k], expired)]
  BY DEF Observed
<1>2. Sound(k, Observe(cache[k], expired), acked) /\ Tended(k, Observe(cache[k], expired))
  BY ObserveSound DEF Inv, CacheSound
<1> QED
  BY <1>1, <1>2 DEF Inv, TypeOK, CacheSound, Sound

LEMMA SwitchKeepsInv ==
  ASSUME Inv, NEW u \in Urls, page = "dead" => u \in DeadUrls,
         Switch(u), target' \in Urls,
         UNCHANGED <<world, page, wizard, net, submitted>>
  PROVE  Inv'
<1> USE DEF world, wizard, net
<1>1. QueryOf(page, u) \in Keys
  BY QueryOfIsKey
<1>2. cache' \in Observed(cache, QueryOf(page, u)) /\ url' = u
  BY DEF Switch
<1>3. /\ cache' \in [Keys -> Entry(Answers)]
      /\ \A j \in Keys : Sound(j, cache'[j], acked)
      /\ Tended(QueryOf(page, u), cache'[QueryOf(page, u)])
  BY <1>1, <1>2, ObservedSound
<1>4. last' \in Keys \cup {NoData}
  BY MainIsKey DEF Switch, Inv, TypeOK
<1>5. TypeOK'
  BY <1>2, <1>3, <1>4 DEF Inv, TypeOK
<1>6. Formed' /\ Waiting' /\ StoredAsSent'
  BY DEF Inv, Formed, Parses, Waiting, OnScreen, StoredAsSent
<1>7. CacheSound'
  BY <1>3 DEF CacheSound
<1>8. MainKey' = QueryOf(page, u)
  BY <1>2 DEF MainKey
<1>9. Tended(MainKey, cache[MainKey])'
  BY <1>3, <1>8
<1> QED
  BY <1>2, <1>5, <1>6, <1>7, <1>9 DEF Inv

LEMMA ShowKeepsInv ==
  ASSUME Inv, NEW p \in {"home", "list", "new", "dead", "providers"},
         Show(p), redirects' \in Nat,
         UNCHANGED <<world, acked, submitted>>
  PROVE  Inv'
<1> USE DEF world
<1>1. Top \in Urls /\ Top \in DeadUrls
  BY TopUrl
<1>2. QueryOf(p, Top) \in Keys
  BY <1>1, QueryOfIsKey
<1>3. /\ cache' \in [Keys -> Entry(Answers)]
      /\ \A j \in Keys : Sound(j, cache'[j], acked)
      /\ Tended(QueryOf(p, Top), cache'[QueryOf(p, Top)])
  BY <1>2, ObservedSound DEF Show
<1>4. \A i \in 1..MaxPosts :
        /\ posts[i] = NoData => posts'[i] = NoData
        /\ posts[i] # NoData => posts'[i] = [posts[i] EXCEPT !.here = FALSE]
  BY DEF Show, Inv, TypeOK
<1>5. \A i \in 1..MaxPosts :
        /\ posts'[i] \in Post \cup {NoData}
        /\ posts'[i] # NoData =>
              /\ posts[i] # NoData /\ ~posts'[i].here
              /\ posts'[i].id = posts[i].id /\ posts'[i].key = posts[i].key
              /\ posts'[i].provider = posts[i].provider /\ posts'[i].body = posts[i].body
  BY <1>4 DEF Inv, TypeOK, Post
<1>6. posts' \in [1..MaxPosts -> Post \cup {NoData}]
  <2>1. posts' = [i \in 1..MaxPosts |-> posts'[i]]
    BY DEF Show, Inv, TypeOK
  <2> QED
    BY <1>5, <2>1
<1>7. EmptyForm \in [step : Steps, provider : Vendors \cup {NoVendor}, text : Texts, key : Header]
  BY DEF EmptyForm, Steps, Texts, Header
<1>8. TypeOK'
  BY <1>1, <1>3, <1>5, <1>6, <1>7 DEF Show, Inv, TypeOK
<1>9. Formed'
  <2>1. form' = EmptyForm
    BY DEF Show
  <2>2. form'.step = 0
    BY <2>1 DEF EmptyForm
  <2> QED
    BY <2>2 DEF Formed
<1>10. Waiting' /\ StoredAsSent'
  BY <1>5 DEF Waiting, OnScreen, Inv, StoredAsSent
<1>11. CacheSound'
  BY <1>3 DEF CacheSound
<1>12. Tended(MainKey, cache[MainKey])'
  <2>1. MainKey' = QueryOf(p, Top)
    BY DEF Show, MainKey
  <2> QED
    BY <1>3, <2>1
<1> QED
  BY <1>1, <1>8, <1>9, <1>10, <1>11, <1>12 DEF Inv, Show
\* Filters, the pager and a timer on the list change the URL on its way.
LEMMA TargetKeepsInv ==
  ASSUME Inv, target' \in Urls, redirects' \in Nat,
         UNCHANGED <<world, cache, page, url, last, wizard, posts, acked, submitted>>
  PROVE  Inv'
<1> USE DEF world, wizard
<1>1. TypeOK'
  BY DEF Inv, TypeOK
<1>2. Formed' /\ Waiting' /\ StoredAsSent' /\ CacheSound'
  BY DEF Inv, Formed, Parses, Waiting, OnScreen, StoredAsSent, CacheSound
<1>3. MainKey' = MainKey
  BY DEF MainKey
<1> QED
  BY <1>1, <1>2, <1>3 DEF Inv

\* The wizard's fields; no submission of it is under way.
LEMMA FillKeepsInv ==
  ASSUME Inv, NEW f, Fill(f),
         form.step # 2 \/ mutation # "pending",
         f \in [step : Steps, provider : Vendors \cup {NoVendor}, text : Texts, key : Header],
         f.step # 0 => f.provider # NoVendor,
         f.step = 2 => f.text \in Bodies
  PROVE  Inv'
<1> USE DEF world, net, client, bounds
<1>1. form' = f
  BY DEF Fill
<1>2. TypeOK'
  BY <1>1 DEF Fill, Inv, TypeOK
<1>3. Formed'
  BY <1>1 DEF Formed, Parses
<1>4. Waiting'
  <2>1. \A i \in 1..MaxPosts : ~OnScreen(i)
    BY DEF Inv, Waiting
  <2>2. \A i \in 1..MaxPosts : ~OnScreen(i)'
    BY <2>1 DEF OnScreen, Fill
  <2> QED
    BY <2>2 DEF Waiting
<1>5. StoredAsSent' /\ CacheSound'
  BY DEF Fill, Inv, StoredAsSent, CacheSound
<1>6. MainKey' = MainKey
  BY DEF MainKey, Fill
<1> QED
  BY <1>2, <1>3, <1>4, <1>5, <1>6 DEF Inv, Fill

LEMMA WizardKeepsInv ==
  ASSUME Inv,
         \/ \E v \in Vendors : Choose(v)
         \/ \E text \in Bodies \cup {"broken"} : Edit(text)
         \/ \E k \in Header : TypeKey(k)
         \/ Forward \/ Back
  PROVE  Inv'
<1> DEFINE Forms == [step : Steps, provider : Vendors \cup {NoVendor}, text : Texts, key : Header]
<1>1. /\ form \in Forms
      /\ form.step # 0 => form.provider # NoVendor
      /\ form.step = 2 => form.text \in Bodies
  BY DEF Inv, TypeOK, Formed, Parses
<1>2. ASSUME NEW v \in Vendors, Choose(v) PROVE Inv'
  <2> DEFINE f == [form EXCEPT !.provider = v, !.text = Sample]
  <2>1. /\ f \in Forms /\ f.step = 0
    BY <1>1, <1>2, ConsoleAssumption DEF Choose, Steps, Texts
  <2>2. form.step = 0
    BY <1>2 DEF Choose
  <2>3. Fill(f)
    BY <1>2 DEF Choose
  <2> HIDE DEF f
  <2> QED
    BY <2>1, <2>2, <2>3, FillKeepsInv
<1>3. ASSUME NEW text \in Bodies \cup {"broken"}, Edit(text) PROVE Inv'
  <2> DEFINE f == [form EXCEPT !.text = text]
  <2>1. /\ f \in Forms /\ f.step = 1 /\ f.provider = form.provider
    BY <1>1, <1>3 DEF Edit, Steps, Texts
  <2>2. Fill(f) /\ form.step = 1
    BY <1>3 DEF Edit
  <2> HIDE DEF f
  <2> QED
    BY <1>1, <2>1, <2>2, FillKeepsInv
<1>4. ASSUME NEW k \in Header, TypeKey(k) PROVE Inv'
  <2> DEFINE f == [form EXCEPT !.key = k]
  <2>1. /\ f \in Forms /\ f.step = 1 /\ f.provider = form.provider
    BY <1>1, <1>4 DEF TypeKey, Steps
  <2>2. Fill(f) /\ form.step = 1
    BY <1>4 DEF TypeKey
  <2> HIDE DEF f
  <2> QED
    BY <1>1, <2>1, <2>2, FillKeepsInv
<1>5. CASE Forward
  <2> DEFINE f == [form EXCEPT !.step = form.step + 1]
  <2>1. form.step \in {0, 1} /\ CanNext /\ Fill(f)
    BY <1>1, <1>5 DEF Forward, Steps
  <2>2. /\ f \in Forms /\ f.step = form.step + 1
        /\ f.provider = form.provider /\ f.text = form.text
    BY <1>1, <2>1 DEF Steps
  <2>3. form.step = 0 => form.provider # NoVendor
    BY <2>1 DEF CanNext
  <2>4. form.step = 1 => form.text \in Bodies
    BY <2>1 DEF CanNext, Parses
  <2> HIDE DEF f
  <2> QED
    BY <1>1, <2>1, <2>2, <2>3, <2>4, FillKeepsInv
<1>6. CASE Back
  <2> DEFINE f == [form EXCEPT !.step = form.step - 1]
  <2>1. form.step \in {1, 2} /\ mutation # "pending" /\ Fill(f)
    BY <1>1, <1>6 DEF Back, Steps
  <2>2. /\ f \in Forms /\ f.step = form.step - 1
        /\ f.provider = form.provider /\ f.text = form.text
    BY <1>1, <2>1 DEF Steps
  <2> HIDE DEF f
  <2> QED
    BY <1>1, <2>1, <2>2, FillKeepsInv
<1> QED
  BY <1>2, <1>3, <1>4, <1>5, <1>6

LEMMA SubmitKeepsInv ==
  ASSUME Inv, Submit
  PROVE  Inv'
<1> USE DEF world, client
<1> DEFINE n == submitted + 1
           p == [provider |-> form.provider, body |-> form.text, key |-> form.key,
                 here |-> TRUE, id |-> 0]
<1>1. n \in 1..MaxPosts
  BY ConsoleAssumption DEF Submit, Inv, TypeOK
<1>2. p \in Post
  <2>1. form.provider \in Vendors /\ form.text \in Bodies /\ form.key \in Header
    BY DEF Submit, Parses, Inv, TypeOK
  <2> QED
    BY <2>1, ConsoleAssumption DEF Post
<1>3. p # NoData
  BY <1>2, ConsoleAssumption
<1>4. \A i \in 1..MaxPosts : posts'[i] = IF i = n THEN p ELSE posts[i]
  BY <1>1 DEF Submit, Inv, TypeOK
<1> HIDE DEF n
<1>5. TypeOK'
  <2>1. posts' \in [1..MaxPosts -> Post \cup {NoData}] /\ submitted' \in 0..MaxPosts
    BY <1>1, <1>2 DEF Submit, Inv, TypeOK, n
  <2>2. \A i \in 1..MaxPosts : posts'[i] # NoData => posts'[i].id <= Len(table)
    <3>1. p.id = 0 /\ Len(table) \in Nat
      BY DEF Inv, TypeOK
    <3> HIDE DEF p
    <3> QED
      BY <1>4, <3>1 DEF Inv, TypeOK
  <2> QED
    BY <2>1, <2>2 DEF Submit, Inv, TypeOK
<1>6. Waiting'
  <2>1. \A i \in 1..MaxPosts : ~OnScreen(i)
    BY DEF Submit, Inv, Waiting
  <2>2. \A i \in 1..MaxPosts : OnScreen(i)' => i = n
    BY <1>4, <2>1 DEF OnScreen
  <2>3. posts'[n].provider = form'.provider /\ posts'[n].body = form'.text
    BY <1>1, <1>4 DEF Submit
  <2> QED
    BY <2>2, <2>3 DEF Submit, Waiting
<1>7. StoredAsSent'
  <2>1. p.id = 0 /\ table' = table
    BY DEF Submit
  <2> HIDE DEF p
  <2> QED
    BY <1>4, <2>1 DEF Inv, StoredAsSent
<1>8. Formed' /\ CacheSound' /\ MainKey' = MainKey
  BY DEF Submit, Inv, Formed, Parses, CacheSound, MainKey
<1> QED
  BY <1>5, <1>6, <1>7, <1>8 DEF Submit, Inv

LEMMA RowNumber ==
  ASSUME NEW l \in Nat, NEW m \in 0..MaxRows, m # 0, m <= l
  PROVE  m \in 1..l
BY ConsoleAssumption

LEMMA StorePostKeepsInv ==
  ASSUME Inv, NEW i \in 1..MaxPosts, StorePost(i)
  PROVE  Inv'
<1> USE DEF client, wizard, bounds
<1> DEFINE p    == posts[i]
           same == {j \in DOMAIN table : IF server = "mock" THEN MockFinds(p, table[j])
                                          ELSE GatewayFinds(p, table[j])}
<1>1. p \in Post /\ p # NoData /\ p.id = 0
  BY DEF StorePost, Inv, TypeOK
<1>2. table \in Seq(Row) /\ Len(table) \in Nat /\ Len(table) <= MaxRows /\ MaxRows \in Nat
  BY ConsoleAssumption DEF Inv, TypeOK
<1>3. \E n \in 1..MaxRows :
        /\ posts' = [posts EXCEPT ![i].id = n]
        /\ table' \in Seq(Row) /\ n <= Len(table') /\ Len(table') <= MaxRows
        /\ Len(table') \in Nat /\ Len(table) <= Len(table')
        /\ \A j \in 1..Len(table) : table'[j] = table[j]
        /\ p.key = "" => table'[n].provider = p.provider /\ table'[n].body = p.body
  <2>1. CASE same = {}
    <3> DEFINE row == [provider |-> p.provider, body |-> p.body, key |-> p.key]
    <3>1. /\ Len(table) < MaxRows
          /\ table' = Append(table, row)
          /\ posts' = [posts EXCEPT ![i].id = Len(table) + 1]
      BY <2>1 DEF StorePost
    <3>2. row \in Row
      <4>1. p.provider \in Vendors /\ p.body \in Bodies /\ p.key \in Header
        BY <1>1 DEF Post
      <4> HIDE DEF p
      <4> QED
        BY <4>1 DEF Row
    <3> HIDE DEF row, same
    <3>3. /\ table' \in Seq(Row) /\ Len(table') = Len(table) + 1
          /\ \A j \in 1..Len(table) : table'[j] = table[j]
          /\ table'[Len(table) + 1] = row
      BY <1>2, <3>1, <3>2
    <3>4. row.provider = p.provider /\ row.body = p.body
      BY DEF row
    <3>5. Len(table) + 1 \in 1..MaxRows
      BY <1>2, <3>1
    <3> DEFINE n == Len(table) + 1
    <3>6. /\ posts' = [posts EXCEPT ![i].id = n]
          /\ n <= Len(table') /\ Len(table') <= MaxRows
          /\ Len(table') \in Nat /\ Len(table) <= Len(table')
          /\ table'[n].provider = p.provider /\ table'[n].body = p.body
      BY <1>2, <3>1, <3>3, <3>4
    <3> HIDE DEF p, n
    <3>7. n \in 1..MaxRows
      BY <3>5 DEF n
    <3> QED
      BY <3>3, <3>6, <3>7
  <2>2. CASE same # {}
    <3> DEFINE n == CHOOSE j \in same : TRUE
    <3>1. n \in same
      BY <2>2
    <3>2. posts' = [posts EXCEPT ![i].id = n] /\ table' = table
      BY <2>2 DEF StorePost
    <3>3. p.key = "" => table[n].provider = p.provider /\ table[n].body = p.body
      BY <3>1 DEF MockFinds, GatewayFinds
    <3>4. n \in 1..Len(table)
      BY <1>2, <3>1
    <3> HIDE DEF same, n, p
    <3>5. n \in 1..MaxRows /\ n <= Len(table)
      BY <1>2, <3>4
    <3>6. table' \in Seq(Row) /\ Len(table') \in Nat /\ Len(table) <= Len(table')
      BY <1>2, <3>2
    <3> QED
      BY <1>2, <3>2, <3>3, <3>5, <3>6
  <2> QED
    BY <2>1, <2>2
<1> HIDE DEF same, p
<1>4. PICK n \in 1..MaxRows :
        /\ posts' = [posts EXCEPT ![i].id = n]
        /\ table' \in Seq(Row) /\ n <= Len(table') /\ Len(table') <= MaxRows
        /\ Len(table') \in Nat /\ Len(table) <= Len(table')
        /\ \A j \in 1..Len(table) : table'[j] = table[j]
        /\ p.key = "" => table'[n].provider = p.provider /\ table'[n].body = p.body
  BY <1>3
<1>5. \A j \in 1..MaxPosts : posts'[j] = IF j = i THEN [p EXCEPT !.id = n] ELSE posts[j]
  BY <1>4 DEF Inv, TypeOK, p
<1>6. [p EXCEPT !.id = n] \in Post
  <2>1. n \in 0..MaxRows
    BY <1>2
  <2> QED
    BY <1>1, <2>1 DEF Post
<1>7. [p EXCEPT !.id = n] # NoData
  BY <1>6, ConsoleAssumption
<1>8. /\ [p EXCEPT !.id = n].id = n /\ [p EXCEPT !.id = n].key = p.key
      /\ [p EXCEPT !.id = n].here = p.here
      /\ [p EXCEPT !.id = n].provider = p.provider /\ [p EXCEPT !.id = n].body = p.body
  BY <1>1 DEF Post
<1>9. TypeOK'
  <2>1. posts' \in [1..MaxPosts -> Post \cup {NoData}]
    <3>1. posts' = [posts EXCEPT ![i] = [p EXCEPT !.id = n]]
      BY <1>4 DEF p
    <3> QED
      BY <1>6, <3>1 DEF Inv, TypeOK
  <2>2. \A j \in 1..MaxPosts : posts'[j] # NoData => posts'[j].id <= Len(table')
    <3> SUFFICES ASSUME NEW j \in 1..MaxPosts, posts'[j] # NoData
                 PROVE  posts'[j].id <= Len(table')
      OBVIOUS
    <3>1. CASE j = i
      BY <1>4, <1>5, <1>8, <3>1
    <3>2. CASE j # i
      <4>1. posts[j].id <= Len(table) /\ posts[j].id \in Nat /\ posts'[j] = posts[j]
        BY <1>5, <3>2 DEF Inv, TypeOK, Post
      <4>2. Len(table') \in Nat /\ Len(table) <= Len(table')
        BY <1>4
      <4> QED
        BY <1>2, <4>1, <4>2
    <3> QED
      BY <3>1, <3>2
  <2>3. acked' \subseteq 1..Len(table')
    <3>1. acked' = acked /\ acked \subseteq 1..Len(table)
      BY DEF StorePost, Inv, TypeOK
    <3>2. Len(table') \in Nat /\ Len(table) <= Len(table')
      BY <1>4
    <3> QED
      BY <1>2, <3>1, <3>2
  <2> QED
    BY <1>4, <2>1, <2>2, <2>3 DEF StorePost, Inv, TypeOK
<1>10. Waiting'
  <2>1. \A j \in 1..MaxPosts :
          /\ OnScreen(j)' <=> OnScreen(j)
          /\ posts'[j].provider = posts[j].provider /\ posts'[j].body = posts[j].body
    BY <1>1, <1>5, <1>7, <1>8 DEF OnScreen, p
  <2> QED
    BY <2>1 DEF Waiting, Inv, StorePost
<1>11. StoredAsSent'
  <2> SUFFICES ASSUME NEW j \in 1..MaxPosts,
                      posts'[j] # NoData, posts'[j].id # 0, posts'[j].key = ""
               PROVE  /\ table'[posts'[j].id].provider = posts'[j].provider
                      /\ table'[posts'[j].id].body = posts'[j].body
    BY DEF StoredAsSent
  <2>1. CASE j = i
    BY <1>4, <1>5, <1>8, <2>1
  <2>2. CASE j # i
    <3>1. posts'[j] = posts[j]
      BY <1>5, <2>2
    <3>2. posts[j] \in Post /\ posts[j] # NoData /\ posts[j].id <= Len(table)
      BY <3>1 DEF Inv, TypeOK
    <3>3. posts[j].id \in 1..Len(table)
      <4>1. posts[j].id \in 0..MaxRows /\ posts[j].id # 0
        BY <3>1, <3>2 DEF Post
      <4>2. Len(table) \in Nat
        BY <1>2
      <4> QED
        BY <3>2, <4>1, <4>2, RowNumber
    <3> QED
      BY <1>4, <3>1, <3>2, <3>3 DEF Inv, StoredAsSent
  <2> QED
    BY <2>1, <2>2
<1>12. Formed' /\ CacheSound' /\ MainKey' = MainKey
  BY DEF StorePost, Inv, Formed, Parses, CacheSound, MainKey
<1> QED
  BY <1>9, <1>10, <1>11, <1>12 DEF StorePost, Inv

LEMMA AcceptedKeepsInv ==
  ASSUME Inv, NEW i \in 1..MaxPosts, Accepted(i)
  PROVE  Inv'
<1> USE DEF world, client, bounds
<1>1. /\ posts[i] \in Post /\ posts[i] # NoData /\ posts[i].id # 0
      /\ posts[i].id <= Len(table)
  BY DEF Accepted, Inv, TypeOK
<1>2. posts[i].id \in 1..Len(table)
  <2>1. posts[i].id \in 0..MaxRows /\ posts[i].id # 0
    BY <1>1 DEF Post
  <2>2. Len(table) \in Nat
    BY DEF Inv, TypeOK
  <2> QED
    BY <1>1, <2>1, <2>2, RowNumber
<1>3. \A j \in 1..MaxPosts : posts'[j] = IF j = i THEN NoData ELSE posts[j]
  BY DEF Accepted, Inv, TypeOK
<1>4. \A k \in Keys :
        /\ Sound(k, cache'[k], acked')
        /\ k = MainKey => Tended(k, cache'[k])
  <2> SUFFICES ASSUME NEW k \in Keys
               PROVE  /\ Sound(k, cache'[k], acked')
                      /\ k = MainKey => Tended(k, cache'[k])
    OBVIOUS
  <2>1. Sound(k, cache[k], acked)
    BY DEF Inv, CacheSound
  <2>2. CASE k.kind \in {"list", "metrics"}
    <3>1. cache'[k] = Invalidate(cache[k], k \in InUse)
      BY <2>2 DEF Accepted
    <3>2. (k \in InUse) \in BOOLEAN /\ (k \in InUse <=> k = MainKey)
      BY DEF InUse
    <3> QED
      BY <2>1, <3>1, <3>2, InvalidateSound
  <2>3. CASE k.kind \notin {"list", "metrics"}
    <3>1. cache'[k] = cache[k]
      BY <2>3 DEF Accepted
    <3> QED
      BY <2>1, <2>3, <3>1 DEF Sound, Inv
  <2> QED
    BY <2>2, <2>3
<1>5. cache' \in [Keys -> Entry(Answers)]
  <2>1. cache' = [k \in Keys |-> cache'[k]]
    BY DEF Accepted
  <2> QED
    BY <1>4, <2>1 DEF Sound
<1>6. TypeOK'
  <2>1. posts' \in [1..MaxPosts -> Post \cup {NoData}]
    BY DEF Accepted, Inv, TypeOK
  <2>2. \A j \in 1..MaxPosts : posts'[j] # NoData => posts'[j].id <= Len(table)
    BY <1>3 DEF Inv, TypeOK
  <2>3. acked' \subseteq 1..Len(table)
    BY <1>2 DEF Accepted, Inv, TypeOK
  <2>4. redirects' \in Nat
    <3>1. redirects \in Nat /\ redirects' = redirects + 1
      BY DEF Accepted, Inv, TypeOK
    <3> QED
      BY <3>1
  <2> QED
    BY <1>5, <2>1, <2>2, <2>3, <2>4 DEF Accepted, Inv, TypeOK
<1>7. Waiting'
  <2> SUFFICES ASSUME NEW j \in 1..MaxPosts, OnScreen(j)'
               PROVE  /\ mutation' = "pending" /\ form'.step = 2
                      /\ posts'[j].provider = form'.provider /\ posts'[j].body = form'.text
                      /\ \A l \in 1..MaxPosts : OnScreen(l)' => l = j
    BY DEF Waiting
  <2>1. j # i /\ OnScreen(j) /\ posts'[j] = posts[j]
    BY <1>3 DEF OnScreen
  <2>2. ~OnScreen(i)
    BY <2>1 DEF Inv, Waiting
  <2>3. \A l \in 1..MaxPosts : OnScreen(l)' => OnScreen(l)
    BY <1>3 DEF OnScreen
  <2>4. mutation' = mutation
    BY <1>1, <2>2 DEF Accepted, OnScreen
  <2> QED
    BY <2>1, <2>3, <2>4 DEF Accepted, Inv, Waiting
<1>8. Formed' /\ StoredAsSent' /\ MainKey' = MainKey
  <2>1. UNCHANGED <<table, page, url, form>>
    BY DEF Accepted
  <2>2. \A j \in 1..MaxPosts : posts'[j] # NoData => posts'[j] = posts[j]
    BY <1>3
  <2>3. StoredAsSent'
    BY <2>1, <2>2 DEF Inv, StoredAsSent
  <2> QED
    BY <2>1, <2>3 DEF Inv, Formed, Parses, MainKey
<1>9. CacheSound' /\ Tended(MainKey, cache[MainKey])'
  BY <1>4, <1>8, MainIsKey DEF CacheSound
<1> QED
  BY <1>6, <1>7, <1>8, <1>9 DEF Accepted, Inv

LEMMA RefusedKeepsInv ==
  ASSUME Inv, NEW i \in 1..MaxPosts, Refused(i)
  PROVE  Inv'
<1> USE DEF world, client, bounds
<1>1. posts[i] \in Post /\ posts[i] # NoData
  BY DEF Refused, Inv, TypeOK
<1>2. \A j \in 1..MaxPosts : posts'[j] = IF j = i THEN NoData ELSE posts[j]
  BY DEF Refused, Inv, TypeOK
<1>3. TypeOK'
  <2>1. posts' \in [1..MaxPosts -> Post \cup {NoData}]
    BY DEF Refused, Inv, TypeOK
  <2>2. \A j \in 1..MaxPosts : posts'[j] # NoData => posts'[j].id <= Len(table)
    BY <1>2 DEF Inv, TypeOK
  <2> QED
    BY <2>1, <2>2 DEF Refused, Inv, TypeOK
<1>4. Waiting'
  <2> SUFFICES ASSUME NEW j \in 1..MaxPosts, OnScreen(j)'
               PROVE  /\ mutation' = "pending" /\ form'.step = 2
                      /\ posts'[j].provider = form'.provider /\ posts'[j].body = form'.text
                      /\ \A l \in 1..MaxPosts : OnScreen(l)' => l = j
    BY DEF Waiting
  <2>1. j # i /\ OnScreen(j) /\ posts'[j] = posts[j]
    BY <1>2 DEF OnScreen
  <2>2. ~OnScreen(i)
    BY <2>1 DEF Inv, Waiting
  <2>3. \A l \in 1..MaxPosts : OnScreen(l)' => OnScreen(l)
    BY <1>2 DEF OnScreen
  <2>4. mutation' = mutation
    BY <1>1, <2>2 DEF Refused, OnScreen
  <2> QED
    BY <2>1, <2>3, <2>4 DEF Refused, Inv, Waiting
<1>5. Formed' /\ MainKey' = MainKey
  BY DEF Refused, Inv, Formed, Parses, MainKey
<1>6. CacheSound'
  BY DEF Refused, Inv, CacheSound
<1>7. StoredAsSent'
  <2>1. table' = table /\ StoredAsSent
    BY DEF Refused, Inv
  <2> QED
    BY <1>2, <2>1 DEF StoredAsSent
<1> QED
  BY <1>3, <1>4, <1>5, <1>6, <1>7 DEF Refused, Inv

-----------------------------------------------------------------------------
(* The filters and the pager.                                              *)

LEMMA SetParamsKeepsInv ==
  ASSUME Inv, NEW u \in Urls, SetParams(u)
  PROVE  Inv'
<1>1. target' \in Urls /\ redirects' \in Nat
  BY DEF SetParams, net, Inv, TypeOK
<1> QED
  BY <1>1, TargetKeepsInv DEF SetParams, net, Click

\* The rows on screen are a page of the table.
LEMMA DataTyped ==
  ASSUME Inv
  PROVE  Data \in Answers \cup {NoData}
<1>1. \A k \in Keys : cache[k].data \in Answers \cup {NoData}
  BY DEF Inv, TypeOK, Entry
<1>2. MainKey \in Keys /\ last \in Keys \cup {NoData}
  BY MainIsKey DEF Inv, TypeOK
<1> QED
  BY <1>1, <1>2 DEF Data

LEMMA PagerKeepsInv ==
  ASSUME Inv, PrevPage \/ NextPage
  PROVE  Inv'
<1>1. /\ PageSize \in Nat \ {0} /\ MaxRows \in Nat \ {0}
  BY ConsoleAssumption
<1>2. PICK n \in 0..MaxRows - 1 : url.offset = n * PageSize
  BY DEF Inv, TypeOK, Urls
<1>3. url.filter \in Filters /\ url = [filter |-> url.filter, offset |-> url.offset]
  BY DEF Inv, TypeOK, Urls
<1>4. CASE PrevPage
  <2>1. url.offset # 0
    BY <1>4 DEF PrevPage
  <2>2. n - 1 \in 0..MaxRows - 1 /\ url.offset - PageSize = (n - 1) * PageSize
    BY <1>1, <1>2, <2>1
  <2> DEFINE before == IF url.offset > PageSize THEN url.offset - PageSize ELSE 0
             u == [url EXCEPT !.offset = before]
  <2>3. u = [filter |-> url.filter, offset |-> (n - 1) * PageSize]
    <3>1. CASE n = 1
      <4>1. url.offset = PageSize
        BY <1>1, <1>2, <3>1
      <4>2. before = 0 /\ (n - 1) * PageSize = 0
        BY <1>1, <3>1, <4>1
      <4> QED
        BY <1>3, <4>2
    <3>2. CASE n # 1
      <4>1. n - 2 \in Nat
        BY <2>2, <3>2
      <4>2. (n - 2) * PageSize \in Nat /\ url.offset = (n - 2) * PageSize + 2 * PageSize
        BY <1>1, <1>2, <4>1
      <4>3. url.offset > PageSize
        BY <1>1, <4>2
      <4>4. before = (n - 1) * PageSize
        BY <2>2, <4>3
      <4> QED
        BY <1>3, <4>4
    <3> QED
      BY <3>1, <3>2
  <2>4. u \in Urls
    BY <1>3, <2>2, <2>3 DEF Urls
  <2>5. SetParams(u)
    BY <1>4 DEF PrevPage
  <2> HIDE DEF u
  <2> QED
    BY <2>4, <2>5, SetParamsKeepsInv
<1>5. CASE NextPage
  <2>1. url.offset + PageSize < Data.total /\ Data # NoData
    BY <1>5 DEF NextPage, PagerShown
  <2>2. Data.total \in 0..MaxRows
    BY <2>1, DataTyped DEF Answers
  <2>3. (n + 1) * PageSize = url.offset + PageSize /\ (n + 1) * PageSize < MaxRows
    BY <1>1, <1>2, <2>1, <2>2
  <2>4. n + 1 <= (n + 1) * PageSize
    BY <1>1
  <2>5. n + 1 \in 0..MaxRows - 1
    BY <1>1, <2>3, <2>4
  <2> DEFINE u == [url EXCEPT !.offset = url.offset + PageSize]
  <2>6. u = [filter |-> url.filter, offset |-> (n + 1) * PageSize]
    BY <1>3, <2>3
  <2>7. u \in Urls
    BY <1>3, <2>5, <2>6 DEF Urls
  <2>8. SetParams(u)
    BY <1>5 DEF NextPage
  <2> HIDE DEF u
  <2> QED
    BY <2>7, <2>8, SetParamsKeepsInv
<1> QED
  BY <1>4, <1>5

LEMMA FilterKeepsInv ==
  ASSUME Inv,
         \/ \E v \in Vendors \cup {""} : ChangeFilter("provider", v)
         \/ \E v \in Searches \cup {""} : ChangeFilter("q", v)
         \/ ClearFilters
  PROVE  Inv'
<1>1. Top \in Urls /\ \A f \in Filters : [filter |-> f, offset |-> 0] \in Urls
  <2>1. Top \in Urls /\ Top.offset = 0
    BY TopUrl DEF Top
  <2> QED
    BY <2>1 DEF Urls
<1>2. ASSUME NEW v \in Vendors \cup {""}, ChangeFilter("provider", v) PROVE Inv'
  <2>1. [NoFilter EXCEPT !["provider"] = v] \in Filters
    BY DEF NoFilter, Filters
  <2> QED
    BY <1>1, <1>2, <2>1, SetParamsKeepsInv DEF ChangeFilter
<1>3. ASSUME NEW v \in Searches \cup {""}, ChangeFilter("q", v) PROVE Inv'
  <2>1. [NoFilter EXCEPT !["q"] = v] \in Filters
    BY DEF NoFilter, Filters
  <2> QED
    BY <1>1, <1>3, <2>1, SetParamsKeepsInv DEF ChangeFilter
<1>4. CASE ClearFilters
  BY <1>1, <1>4, SetParamsKeepsInv DEF ClearFilters
<1> QED
  BY <1>2, <1>3, <1>4
-----------------------------------------------------------------------------
(* The invariant holds.                                                    *)

LEMMA InitInv == Init => Inv
<1> SUFFICES ASSUME Init PROVE Inv
  OBVIOUS
<1>1. Top \in Urls /\ Top \in DeadUrls
  BY TopUrl
<1>2. page \in {"home", "list", "new", "dead", "providers"}
  BY ConsoleAssumption DEF Init
<1>3. MainKey \in Keys
  BY <1>1, QueryOfIsKey DEF Init, MainKey
<1>4. \A k \in Keys : Sound(k, NewEntry, {})
  <2>1. NewEntry \in Entry(Answers)
    BY DEF NewEntry, Entry, Retries
  <2> QED
    BY <2>1 DEF Sound, NewEntry
<1>5. PICK expired \in BOOLEAN :
        cache = [[k \in Keys |-> NewEntry] EXCEPT ![MainKey] = Observe(NewEntry, expired)]
  BY <1>3 DEF Init, Observed
<1>6. /\ Sound(MainKey, Observe(NewEntry, expired), {})
      /\ Tended(MainKey, Observe(NewEntry, expired))
  BY <1>3, <1>4, ObserveSound
<1>7. /\ \A k \in Keys : Sound(k, cache[k], {})
      /\ Tended(MainKey, cache[MainKey])
  BY <1>3, <1>4, <1>5, <1>6
<1>8. cache \in [Keys -> Entry(Answers)]
  BY <1>4, <1>5, <1>6 DEF Sound
<1>9. TypeOK
  <2>1. form \in [step : Steps, provider : Vendors \cup {NoVendor}, text : Texts, key : Header]
    <3>1. EmptyForm \in [step : Steps, provider : Vendors \cup {NoVendor},
                         text : Texts, key : Header]
      BY DEF EmptyForm, Steps, Texts, Header
    <3> QED
      BY <3>1 DEF Init
  <2>2. table \in Seq(Row) /\ Len(table) <= MaxRows
    BY ConsoleAssumption DEF Init
  <2>3. posts \in [1..MaxPosts -> Post \cup {NoData}] /\ \A i \in 1..MaxPosts : posts[i] = NoData
    BY DEF Init
  <2>4. 0 \in 0..MaxPosts
    BY ConsoleAssumption
  <2> QED
    BY <1>1, <1>2, <1>8, <2>1, <2>2, <2>3, <2>4 DEF Init, TypeOK
<1>10. Formed /\ Waiting /\ StoredAsSent
  <2>1. form = EmptyForm /\ \A i \in 1..MaxPosts : posts[i] = NoData
    BY DEF Init
  <2>2. EmptyForm.step = 0
    BY DEF EmptyForm
  <2>3. Formed
    BY <2>1, <2>2 DEF Formed
  <2> QED
    BY <2>1, <2>3 DEF Waiting, OnScreen, StoredAsSent
<1>11. CacheSound
  BY <1>7 DEF CacheSound, Init
<1> QED
  BY <1>1, <1>7, <1>9, <1>10, <1>11 DEF Init, Inv

LEMMA OpenKeepsInv ==
  ASSUME Inv, (\E p \in Pages : Open(p)) \/ Redirect
  PROVE  Inv'
<1>1. redirects \in Nat
  BY DEF Inv, TypeOK
<1>2. ASSUME NEW p \in Pages, Open(p) PROVE Inv'
  <2>1. p \in {"home", "list", "new", "dead", "providers"}
    BY ConsoleAssumption
  <2> QED
    BY <1>1, <1>2, <2>1, ShowKeepsInv DEF Open
<1>3. CASE Redirect
  <2>1. redirects' \in Nat
    BY <1>1, <1>3 DEF Redirect
  <2>2. CASE page = "list"
    BY <1>3, <2>1, <2>2, TopUrl, TargetKeepsInv DEF Redirect, wizard, bounds
  <2>3. CASE page # "list"
    BY <1>3, <2>1, <2>3, ShowKeepsInv DEF Redirect, bounds
  <2> QED
    BY <2>2, <2>3
<1> QED
  BY <1>2, <1>3

LEMMA UrlKeepsInv ==
  ASSUME Inv, Rendered \/ \E v \in Vendors \cup {""} : SelectVendor(v)
  PROVE  Inv'
<1>1. CASE Rendered
  <2>1. target \in Urls /\ target' \in Urls /\ page # "dead"
    BY <1>1 DEF Rendered, Inv, TypeOK
  <2> QED
    BY <1>1, <2>1, SwitchKeepsInv DEF Rendered, bounds
<1>2. ASSUME NEW v \in Vendors \cup {""}, SelectVendor(v) PROVE Inv'
  <2> DEFINE g == [NoFilter EXCEPT !.provider = v]
             u == [Top EXCEPT !.filter.provider = v]
  <2>1. g \in Filters /\ g.q = ""
    BY DEF NoFilter, Filters
  <2>2. u \in DeadUrls /\ u \in Urls
    <3>1. u = [Top EXCEPT !.filter = g]
      BY DEF Top
    <3> HIDE DEF g, u
    <3>2. u.filter = g /\ u.offset = 0 /\ u \in Urls
      BY <2>1, <3>1, TopUrl DEF Urls, Top
    <3> QED
      BY <2>1, <3>2 DEF DeadUrls
  <2>3. Switch(u) /\ target' = url'
    BY <1>2 DEF SelectVendor
  <2>4. url' = u
    BY <2>3 DEF Switch
  <2> HIDE DEF u
  <2> QED
    BY <1>2, <2>2, <2>3, <2>4, SwitchKeepsInv DEF SelectVendor
<1> QED
  BY <1>1, <1>2

LEMMA StepKeepsInv == Inv /\ [Next]_vars => Inv'
<1> SUFFICES ASSUME Inv, [Next]_vars PROVE Inv'
  OBVIOUS
<1>1. CASE Operate
  BY <1>1, OpenKeepsInv, FilterKeepsInv, PagerKeepsInv, UrlKeepsInv, RetryKeepsInv,
     WizardKeepsInv, SubmitKeepsInv DEF Operate
<1>2. CASE Redirect \/ Rendered
  BY <1>2, OpenKeepsInv, UrlKeepsInv
<1>3. CASE \E i \in 1..MaxPosts : StorePost(i) \/ Accepted(i) \/ Refused(i)
  BY <1>3, StorePostKeepsInv, AcceptedKeepsInv, RefusedKeepsInv
<1>4. CASE \E k \in Keys : Settle(k) \/ Polled(k)
  BY <1>4, SettleKeepsInv
<1>5. CASE UNCHANGED vars
  <2>1. UNCHANGED <<world, cache, client, wizard, net, submitted>>
    BY <1>5 DEF vars, bounds
  <2>2. MainKey \in Keys /\ Sound(MainKey, cache[MainKey], acked)
    BY MainIsKey DEF Inv, CacheSound
  <2>3. cache' = [cache EXCEPT ![MainKey] = cache[MainKey]]
    BY <2>1, <2>2 DEF Inv, TypeOK
  <2> QED
    BY <2>1, <2>2, <2>3, CacheStep DEF Inv
<1> QED
  BY <1>1, <1>2, <1>3, <1>4, <1>5 DEF Next

\* Every reachable state satisfies the inductive invariant: entries of the
\* cache are about their query, the wizard waits for one submission, and a
\* list that counts as current knows everything that was accepted.
THEOREM InvCorrect == Spec => []Inv
BY InitInv, StepKeepsInv, PTL DEF Spec

-----------------------------------------------------------------------------
(* What the runs check, for every value of the constants.                  *)

\* The console's state, requests, cache and rows always have their types: no
\* click leads the pager past the table, and whatever is answered, lost or
\* answered late, an accepted submission names a row.
THEOREM TypeCorrect == Spec => []TypeOK
<1>1. Inv => TypeOK
  BY DEF Inv
<1> QED
  BY <1>1, InvCorrect, PTL

\* Rows of another filter, page or vendor are on screen only while the right
\* ones are being fetched (useQuery with placeholderData in lib/hooks.ts).
THEOREM ShownAnswersUrlCorrect == Spec => []ShownAnswersUrl
<1>1. Inv => ShownAnswersUrl
  <2> SUFFICES ASSUME Inv, page \in {"list", "dead"}, View = "rows", Data.url # url,
                      cache[MainKey].fetch = "idle"
               PROVE  FALSE
    BY DEF ShownAnswersUrl
  <2>1. MainKey \in Keys /\ MainKey.url = url /\ MainKey.kind \in {"list", "dead"}
    <3>1. MainKey \in Keys /\ MainKey.url = url
      BY MainIsKey
    <3> QED
      BY <3>1 DEF MainKey, QueryOf, ListKey, DeadKey
  <2>2. Sound(MainKey, cache[MainKey], acked) /\ Tended(MainKey, cache[MainKey])
    BY <2>1 DEF Inv, CacheSound
  <2>3. cache[MainKey].data = NoData
    BY <2>1, <2>2 DEF Sound, Data
  <2>4. cache[MainKey].status # "pending"
    BY <2>2, <2>3 DEF Tended
  <2>5. Data = NoData
    BY <2>3, <2>4 DEF Data
  <2> QED
    BY <2>5 DEF View, ListView
<1> QED
  BY <1>1, InvCorrect, PTL

\* Whatever page the operator was on and whatever was cached, the unfiltered
\* list is newer than every accepted notification once it is not being fetched
\* (useSubmitNotification's invalidateQueries), but for the two fetches that an
\* invalidation does not start again: one off screen, and a first one.
THEOREM AcceptedIsListedCorrect == Spec => []AcceptedIsListed
<1>1. Inv => AcceptedIsListed
  <2> DEFINE e == cache[ListKey(Top)]
  <2> SUFFICES ASSUME Inv, page = "list", url = Top, View = "rows", e.fetch = "idle", ~e.raced
               PROVE  \A id \in acked : id <= Data.rows
    BY DEF AcceptedIsListed
  <2>1. MainKey = ListKey(Top) /\ MainKey \in Keys /\ MainKey.kind = "list"
    BY MainIsKey DEF MainKey, QueryOf
  <2>2. Sound(MainKey, e, acked) /\ Tended(MainKey, e)
    BY <2>1 DEF Inv, CacheSound
  <2>3. e.status # "error" /\ Data # NoData
    BY <2>1 DEF View, ListView
  <2>4. ~e.stale
    BY <2>1, <2>2, <2>3 DEF Tended
  <2>5. e.data # NoData /\ Data = e.data
    <3>1. e.status \in {"pending", "success", "error"}
      BY <2>2 DEF Sound, Entry
    <3>2. CASE e.data # NoData
      BY <2>1, <3>2 DEF Data
    <3>3. CASE e.data = NoData
      BY <2>1, <2>2, <2>3, <3>3 DEF Data, Tended
    <3> QED
      BY <3>2, <3>3
  <2>6. e.stale \in BOOLEAN /\ e.raced \in BOOLEAN
    BY <2>2 DEF Sound, Entry
  <2> QED
    BY <2>1, <2>2, <2>4, <2>5, <2>6 DEF Sound
<1> QED
  BY <1>1, InvCorrect, PTL

\* However the operator goes back and forth in the wizard, the last step has
\* a vendor and a payload that parses (canNext in new/page.tsx).
THEOREM ConfirmedCanBeSentCorrect == Spec => []ConfirmedCanBeSent
<1>1. Inv => ConfirmedCanBeSent
  BY DEF Inv, TypeOK, Formed, ConfirmedCanBeSent, Steps
<1> QED
  BY <1>1, InvCorrect, PTL

\* The row a submission without a key is answered with is the notification
\* on the confirmation page at that moment, also after lost answers, edits
\* and submissions from wizards left behind (handleSubmit).
THEOREM AnsweredIsConfirmedCorrect == Spec => AnsweredIsConfirmed
<1> DEFINE Answered(i) ==
             /\ posts[i] # NoData /\ posts[i].here /\ posts[i].key = ""
             /\ mutation = "pending" /\ mutation' = "success"
           Confirmed(i) ==
             /\ form.step = 2
             /\ table[posts[i].id].provider = form.provider
             /\ table[posts[i].id].body = form.text
<1>1. ASSUME Inv, [Next]_vars, NEW i \in 1..MaxPosts, Answered(i)
      PROVE  Confirmed(i)
  <2>1. OnScreen(i)
    BY <1>1 DEF OnScreen
  <2>2. PICK j \in 1..MaxPosts : Accepted(j)
    <3>1. CASE Operate
      BY <1>1, <3>1 DEF Operate, Open, Show, Click, ChangeFilter, ClearFilters, PrevPage,
         NextPage, SetParams, SelectVendor, Retry, Choose, Edit, TypeKey, Forward, Back,
         Fill, Submit, wizard
    <3>2. CASE Redirect \/ Rendered
      BY <1>1, <3>2 DEF Redirect, Show, Rendered, wizard
    <3>3. CASE \E j \in 1..MaxPosts : StorePost(j) \/ Accepted(j) \/ Refused(j)
      BY <1>1, <3>3 DEF StorePost, Refused, wizard
    <3>4. CASE \E k \in Keys : Settle(k) \/ Polled(k)
      BY <1>1, <3>4 DEF Settle, Served, Received, Failed, Polled, Fetch, wizard
    <3>5. CASE UNCHANGED vars
      BY <1>1, <3>5 DEF vars, wizard
    <3> QED
      BY <1>1, <3>1, <3>2, <3>3, <3>4, <3>5 DEF Next
  <2>3. OnScreen(j) /\ posts[j].id # 0
    BY <1>1, <2>2 DEF Accepted, OnScreen
  <2>4. j = i
    BY <1>1, <2>1, <2>3 DEF Inv, Waiting
  <2> QED
    BY <1>1, <2>1, <2>3, <2>4 DEF Inv, Waiting, OnScreen, StoredAsSent
<1>2. Inv /\ [Next]_vars => [\A i \in 1..MaxPosts : Answered(i) => Confirmed(i)]_vars
  BY <1>1
<1> QED
  BY <1>2, InvCorrect, PTL DEF Spec, AnsweredIsConfirmed
=============================================================================
