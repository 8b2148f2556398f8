------------------------------ MODULE Console ------------------------------
(***************************************************************************)
(* The operators' console in one browser tab (src/web): the notification   *)
(* list with its filters and pager, the dead-letter list, the wizard that  *)
(* submits a notification, the dashboard and the provider page, over one   *)
(* query cache and the gateway's API, or the mock of it that a build       *)
(* without NEXT_PUBLIC_API_BASE uses.                                      *)
(*                                                                         *)
(* A page's local state lives while the page is shown; the cache, requests *)
(* under way and timers outlive it.  A URL changed by a filter or the pager *)
(* is rendered later (router.replace in a transition); until then handlers *)
(* work from the old one.  What the gateway answers is modelled down to    *)
(* which rows of its table an answer knows; the status column, whose rows  *)
(* move between filters, is left to ReadApi.                               *)
(***************************************************************************)
EXTENDS Sequences, FiniteSets, QueryCache

CONSTANTS
    Servers,        \* what lib/api/index.ts may choose: "gateway", "mock"
    Vendors,        \* providers.yaml
    Bodies,         \* payloads an operator may write; SAMPLE is one
    Sample,
    Searches,       \* payloads typed into the search box
    OldRows,        \* rows stored before the tab was opened
    DeadRows,       \* positions of those that are dead letters
    PageSize,
    Pages,          \* bound: the routes opened
    MaxFailures,    \* bound: failed requests for data
    MaxClicks,      \* bound: pages opened, filters and pager used
    MaxPosts,       \* bound: submissions
    MaxEffort,      \* bound: clicks and, counted twice, submissions and failures
    MaxRows         \* bound: length of the table

NoVendor == "none"
NoFilter == [provider |-> "", q |-> ""]
Filters  == [provider : Vendors \cup {""}, q : Searches \cup {""}]
Top      == [filter |-> NoFilter, offset |-> 0]
Urls     == [filter : Filters, offset : {i * PageSize : i \in 0..MaxRows - 1}]
DeadUrls == {u \in Urls : u.filter.q = "" /\ u.offset = 0}

Steps  == 0..2
Texts  == Bodies \cup {"", "broken"}
Header == {"", "k"}

\* A row; "old" is a key given before the tab was opened.
Row == [provider : Vendors, body : Bodies, key : Header \cup {"old"}]

\* A page of a list: its rows, their total, and how long the table was.
Answers == [url : Urls, rows : 0..MaxRows, total : 0..MaxRows, items : SUBSET (1..MaxRows)]

\* A submission under way; here: its wizard is still shown; id: 0 before the
\* server has stored it.
Post == [provider : Vendors, body : Bodies, key : Header, here : BOOLEAN, id : 0..MaxRows]

\* Mutant of ListKey: the query key is ["notifications"], without q.
ListKeyBare(u) == [kind |-> "list", url |-> Top]

\* The query keys of lib/hooks.ts.
MetricsKey   == [kind |-> "metrics", url |-> Top]
ProvidersKey == [kind |-> "providers", url |-> Top]
DeadKey(u)   == [kind |-> "dead", url |-> u]
ListKey(u)   == [kind |-> "list", url |-> u]
Keys == {MetricsKey, ProvidersKey} \cup {ListKey(u) : u \in Urls} \cup {DeadKey(u) : u \in DeadUrls}

ASSUME ConsoleAssumption ==
    /\ NoVendor \notin Vendors
    /\ Sample \in Bodies
    /\ Pages \subseteq {"home", "list", "new", "dead", "providers"}
    /\ PageSize \in Nat \ {0} /\ MaxRows \in Nat \ {0} /\ MaxPosts \in Nat
    /\ OldRows \in Seq(Row) /\ Len(OldRows) <= MaxRows
    /\ NoData \notin Answers \cup Post \cup Keys

Lasting(k) == k.kind \in {"metrics", "list"}    \* queries with a staleTime

VARIABLES
    server,     \* lib/api/index.ts: fixed when the console is built
    table,      \* its rows [provider, body, key], oldest first
    cache,      \* the query cache
    page,       \* the route shown: "home", "list", "new", "dead", "providers"
    url,        \* rendered search parameters (list), chosen vendor (dead)
    target,     \* search parameters on their way to being rendered
    last,       \* the page's last query that had data (placeholderData)
    form,       \* the wizard's useState: step, provider, text, key
    mutation,   \* the wizard's useMutation: "idle", "pending", "success", "error"
    posts,      \* submissions under way, also of wizards left behind
    redirects,  \* timers that will open the list
    acked,      \* history: rows the console was told are accepted
    clicks, submitted, failures

world  == <<server, table>>
client == <<page, url, target, last>>
wizard == <<form, mutation>>
net    == <<posts, redirects, acked>>
bounds == <<clicks, submitted, failures>>
vars   == <<world, cache, client, wizard, net, bounds>>

EmptyForm == [step |-> 0, provider |-> NoVendor, text |-> "", key |-> ""]

\* The query the page is about.  (The providers are also read for the
\* options of a filter and for a row's preview; that use is left out.)
QueryOf(p, u) ==
    CASE p = "home" -> MetricsKey
      [] p = "list" -> ListKey(u)
      [] p = "dead" -> DeadKey(u)
      [] OTHER      -> ProvidersKey
MainKey == QueryOf(page, url)
InUse   == {MainKey}

\* The cache once k is used, its data fresh or past its staleTime.
Observed(c, k) == {[c EXCEPT ![k] = Observe(@, expired)] : expired \in BOOLEAN}

Effort == clicks + 2 * (failures + submitted)

Click == clicks < MaxClicks /\ Effort < MaxEffort /\ clicks' = clicks + 1

-----------------------------------------------------------------------------
Init ==
    /\ server    \in Servers
    /\ table     = OldRows
    /\ page      \in Pages
    /\ url       = Top
    /\ cache     \in Observed([k \in Keys |-> NewEntry], MainKey)
    /\ target    = Top
    /\ last      = NoData
    /\ form      = EmptyForm
    /\ mutation  = "idle"
    /\ posts     = [i \in 1..MaxPosts |-> NoData]
    /\ redirects = 0
    /\ acked     = {}
    /\ clicks    = 0
    /\ submitted = 0
    /\ failures  = 0

-----------------------------------------------------------------------------
(* Pages.                                                                  *)

Show(p) ==
    /\ page'     = p
    /\ url'      = Top
    /\ target'   = Top
    /\ last'     = NoData
    /\ form'     = EmptyForm
    /\ mutation' = "idle"
    /\ posts'    = [i \in DOMAIN posts |->
                       IF posts[i] = NoData THEN NoData ELSE [posts[i] EXCEPT !.here = FALSE]]
    /\ cache'   \in Observed(cache, QueryOf(p, Top))

\* The sidebar and the links to the wizard.
Open(p) ==
    /\ Click
    /\ p # page
    /\ Show(p)
    /\ UNCHANGED <<world, redirects, acked, submitted, failures>>

\* The timer of a submission: router.push("/notifications"), wherever the
\* operator is by then.
Redirect ==
    /\ redirects > 0
    /\ redirects' = redirects - 1
    /\ IF page = "list"
       THEN target' = Top /\ UNCHANGED <<page, url, last, form, mutation, posts, cache>>
       ELSE Show("list")
    /\ UNCHANGED <<world, acked, bounds>>

-----------------------------------------------------------------------------
(* The notification list: notifications/page.tsx and filter-bar.tsx.       *)

\* setParams: router.replace in a transition.
SetParams(u) ==
    /\ Click
    /\ page = "list"
    /\ target' = u
    /\ UNCHANGED <<world, cache, page, url, last, wizard, net, submitted, failures>>

\* The filter bar reports the changed field alone; page.tsx writes all of
\* them, so the other filters go, and the offset with them.
ChangeFilter(field, value) ==
    SetParams([filter |-> [NoFilter EXCEPT ![field] = value], offset |-> 0])

ClearFilters == url.filter # NoFilter /\ SetParams(Top)

\* The rows on screen: the query's own, or while it has neither data nor an
\* error those of the query before it (placeholderData).
Data ==
    IF cache[MainKey].data # NoData THEN cache[MainKey].data
    ELSE IF cache[MainKey].status = "pending" /\ last # NoData THEN cache[last].data
    ELSE NoData

PagerShown == Data # NoData /\ Data.total > 0

PrevPage ==
    /\ page = "list" /\ PagerShown
    /\ url.offset # 0
    /\ SetParams([url EXCEPT !.offset = IF @ > PageSize THEN @ - PageSize ELSE 0])

NextPage ==
    /\ page = "list" /\ PagerShown
    /\ url.offset + PageSize < Data.total
    /\ SetParams([url EXCEPT !.offset = @ + PageSize])

\* Another query becomes the page's.
Switch(u) ==
    /\ url'   = u
    /\ last'  = IF cache[MainKey].data # NoData THEN MainKey ELSE last
    /\ cache' \in Observed(cache, QueryOf(page, u))

\* The transition ends: the new parameters are rendered.
Rendered ==
    /\ page = "list"
    /\ target # url
    /\ Switch(target)
    /\ UNCHANGED <<world, page, target, wizard, net, bounds>>

-----------------------------------------------------------------------------
(* The dead-letter list: dead-letters/page.tsx.                            *)

SelectVendor(v) ==
    /\ Click
    /\ page = "dead"
    /\ url.filter.provider # v
    /\ Switch([Top EXCEPT !.filter.provider = v])
    /\ target' = url'
    /\ UNCHANGED <<world, page, wizard, net, submitted, failures>>

-----------------------------------------------------------------------------
(* What a page shows: rows (or cards, or the empty state), an inline error *)
(* with its retry button, or a skeleton.                                   *)

\* Mutant of ListView: isLoading || !data is looked at before isError.
ListViewLoadingFirst ==
    IF Data = NoData THEN "skeleton"
    ELSE IF cache[MainKey].status = "error" THEN "error" ELSE "rows"

\* The lists look at isError first; isLoading implies that there is no data.
ListView ==
    IF cache[MainKey].status = "error" THEN "error"
    ELSE IF Data = NoData THEN "skeleton" ELSE "rows"

\* The dashboard looks at isLoading || !data first.
HomeView ==
    IF cache[MainKey].data = NoData THEN "skeleton"
    ELSE IF cache[MainKey].status = "error" THEN "error" ELSE "rows"

\* The wizard and the provider page have no error branch.
ProvidersView == IF cache[MainKey].data = NoData THEN "skeleton" ELSE "rows"

View ==
    CASE page \in {"list", "dead"} -> ListView
      [] page = "home"             -> HomeView
      [] OTHER                     -> ProvidersView

\* InlineError's button and the dead-letter list's refresh button: refetch().
Retry ==
    /\ View = "error" \/ page = "dead"
    /\ cache' = [cache EXCEPT ![MainKey] = Refetch(@)]
    /\ UNCHANGED <<world, client, wizard, net, bounds>>

-----------------------------------------------------------------------------
(* The wizard: notifications/new/page.tsx.                                 *)

Fill(f) ==
    /\ page = "new"
    /\ form' = f
    /\ UNCHANGED <<world, cache, client, mutation, net, bounds>>

\* A vendor's card: its sample payload replaces the text.
Choose(v) ==
    /\ form.step = 0
    /\ View = "rows"
    /\ Fill([form EXCEPT !.provider = v, !.text = Sample])

Edit(text)  == form.step = 1 /\ Fill([form EXCEPT !.text = text])
TypeKey(k)  == form.step = 1 /\ Fill([form EXCEPT !.key = k])

\* parsePayload
Parses == form.text \in Bodies

CanNext ==
    CASE form.step = 0 -> form.provider # NoVendor
      [] form.step = 1 -> Parses
      [] OTHER         -> TRUE

Forward == form.step < 2 /\ CanNext /\ Fill([form EXCEPT !.step = @ + 1])

\* Mutant of Back: the button stays enabled while the request is pending.
BackAnytime == form.step # 0 /\ Fill([form EXCEPT !.step = @ - 1])

Back == form.step # 0 /\ mutation # "pending" /\ Fill([form EXCEPT !.step = @ - 1])

\* handleSubmit and the button that calls it.
Submit ==
    /\ page = "new" /\ form.step = 2
    /\ mutation \notin {"pending", "success"}
    /\ form.provider # NoVendor /\ Parses
    /\ submitted < MaxPosts /\ Effort + 1 < MaxEffort
    /\ submitted' = submitted + 1
    /\ posts' = [posts EXCEPT ![submitted + 1] =
                    [provider |-> form.provider, body |-> form.text, key |-> form.key,
                     here |-> TRUE, id |-> 0]]
    /\ mutation' = "pending"
    /\ UNCHANGED <<world, cache, client, form, redirects, acked, clicks, failures>>

-----------------------------------------------------------------------------
(* The server's side (Intake has the gateway's detail) and its answers.    *)

\* The gateway finds a row under the header, else under vendor and payload.
GatewayFinds(p, row) ==
    /\ row.key = p.key
    /\ p.key = "" => row.provider = p.provider /\ row.body = p.body

\* The mock looks for a duplicate only if a key is given, within the vendor.
MockFinds(p, row) ==
    /\ p.key # "" /\ row.key = p.key
    /\ row.provider = p.provider

StorePost(i) ==
    /\ posts[i] # NoData /\ posts[i].id = 0
    /\ LET p    == posts[i]
           same == {j \in DOMAIN table : IF server = "mock" THEN MockFinds(p, table[j])
                                         ELSE GatewayFinds(p, table[j])}
       IN  IF same = {}
           THEN /\ Len(table) < MaxRows
                /\ table' = Append(table, [provider |-> p.provider, body |-> p.body,
                                           key |-> p.key])
                /\ posts' = [posts EXCEPT ![i].id = Len(table) + 1]
           ELSE /\ posts' = [posts EXCEPT ![i].id = CHOOSE j \in same : TRUE]
                /\ UNCHANGED table
    /\ UNCHANGED <<server, cache, client, wizard, redirects, acked, bounds>>

\* Mutant of Accepted: the answer does not wait for the row to be stored.
AcceptedEarly(i) ==
    /\ posts[i] # NoData
    /\ posts'     = [posts EXCEPT ![i] = NoData]
    /\ mutation'  = IF posts[i].here THEN "success" ELSE mutation
    /\ acked'     = acked \cup {posts[i].id}
    /\ redirects' = redirects + 1
    /\ cache'     = [k \in Keys |-> IF k.kind \in {"list", "metrics"}
                                    THEN Invalidate(cache[k], k \in InUse) ELSE cache[k]]
    /\ UNCHANGED <<world, client, form, bounds>>

\* Mutant of Accepted: the invalidated key is not the lists' key.
AcceptedUnseen(i) ==
    /\ posts[i] # NoData /\ posts[i].id # 0
    /\ posts'     = [posts EXCEPT ![i] = NoData]
    /\ mutation'  = IF posts[i].here THEN "success" ELSE mutation
    /\ acked'     = acked \cup {posts[i].id}
    /\ redirects' = redirects + 1
    /\ cache'     = [cache EXCEPT ![MetricsKey] = Invalidate(@, MetricsKey \in InUse)]
    /\ UNCHANGED <<world, client, form, bounds>>

\* The answer arrives, also when the wizard has been left: the mutation's
\* onSuccess, then the rest of handleSubmit (toast, timer).
Accepted(i) ==
    /\ posts[i] # NoData /\ posts[i].id # 0
    /\ posts'     = [posts EXCEPT ![i] = NoData]
    /\ mutation'  = IF posts[i].here THEN "success" ELSE mutation
    /\ acked'     = acked \cup {posts[i].id}
    /\ redirects' = redirects + 1
    /\ cache'     = [k \in Keys |-> IF k.kind \in {"list", "metrics"}
                                    THEN Invalidate(cache[k], k \in InUse) ELSE cache[k]]
    /\ UNCHANGED <<world, client, form, bounds>>

\* An error status, or an answer lost on the way back; the mock refuses a
\* submission only before it stores anything.
Refused(i) ==
    /\ posts[i] # NoData
    /\ server = "mock" => posts[i].id = 0
    /\ posts'    = [posts EXCEPT ![i] = NoData]
    /\ mutation' = IF posts[i].here THEN "error" ELSE mutation
    /\ UNCHANGED <<world, cache, client, form, redirects, acked, bounds>>

\* What a GET finds: the newest matching rows from the offset on.
Answer(k) ==
    LET f == k.url.filter
        S == {i \in DOMAIN table :
                /\ f.provider \in {"", table[i].provider}
                /\ f.q \in {"", table[i].body}
                /\ k.kind = "dead" => i \in DeadRows}
    IN  IF k.kind \in {"metrics", "providers"}
        THEN [url |-> Top, items |-> {}, total |-> 0, rows |-> 0]
        ELSE [url |-> k.url, rows |-> Len(table), total |-> Cardinality(S),
              items |-> {i \in S : Cardinality({j \in S : j > i})
                                      \in k.url.offset..k.url.offset + PageSize - 1}]

Fetch(k, e) ==
    /\ cache' = [cache EXCEPT ![k] = e]
    /\ UNCHANGED <<world, client, wizard, net, bounds>>

Served(k)   == cache[k].fetch = "asked" /\ Fetch(k, Serve(cache[k], Answer(k)))
Received(k) == cache[k].fetch = "served" /\ Fetch(k, Receive(cache[k], Lasting(k)))
Failed(k)   ==
    /\ server = "gateway"
    /\ failures < MaxFailures /\ Effort + 1 < MaxEffort
    /\ failures' = failures + 1
    /\ cache[k].fetch # "idle"
    /\ cache' = [cache EXCEPT ![k] = Fail(@, k \in InUse)]
    /\ UNCHANGED <<world, client, wizard, net, clicks, submitted>>

\* refetchInterval of the dashboard's numbers and the providers.
Polled(k) ==
    /\ k \in InUse \cap {MetricsKey, ProvidersKey}
    /\ cache[k].fetch = "idle"
    /\ Fetch(k, StartFetch(cache[k]))

Settle(k) == Served(k) \/ Received(k) \/ Failed(k)

-----------------------------------------------------------------------------
Operate ==
    \/ \E p \in Pages : Open(p)
    \/ \E v \in Vendors \cup {""} : ChangeFilter("provider", v)
    \/ \E v \in Searches \cup {""} : ChangeFilter("q", v)
    \/ ClearFilters \/ PrevPage \/ NextPage
    \/ \E v \in Vendors \cup {""} : SelectVendor(v)
    \/ Retry
    \/ \E v \in Vendors : Choose(v)
    \/ \E text \in Bodies \cup {"broken"} : Edit(text)
    \/ \E k \in Header : TypeKey(k)
    \/ Forward \/ Back \/ Submit

Next ==
    \/ Operate
    \/ Redirect \/ Rendered
    \/ \E i \in 1..MaxPosts : StorePost(i) \/ Accepted(i) \/ Refused(i)
    \/ \E k \in Keys : Settle(k) \/ Polled(k)

Spec == Init /\ [][Next]_vars

\* Requests end (the browser and the gateway give up in time) and the tab's
\* event loop runs timers and transitions.  Nothing is asked of the operator.
FairSpec ==
    /\ Spec
    /\ WF_vars(\E k \in {MainKey} : Settle(k))
    /\ WF_vars(Rendered)

-----------------------------------------------------------------------------
\* The pages' state, requests, cache and table hold values of their types; in
\* particular no pager leads past the table, and an acceptance names a row.
TypeOK ==
    /\ page \in {"home", "list", "new", "dead", "providers"}
    /\ url \in Urls /\ target \in Urls
    /\ last \in Keys \cup {NoData}
    /\ form \in [step : Steps, provider : Vendors \cup {NoVendor}, text : Texts, key : Header]
    /\ mutation \in {"idle", "pending", "success", "error"}
    /\ table \in Seq(Row) /\ Len(table) <= MaxRows
    /\ cache \in [Keys -> Entry(Answers)]
    /\ posts \in [1..MaxPosts -> Post \cup {NoData}]
    /\ \A i \in 1..MaxPosts : posts[i] # NoData => posts[i].id <= Len(table)
    /\ redirects \in Nat /\ submitted \in 0..MaxPosts
    /\ acked \subseteq 1..Len(table)

\* Rows of one query shown under the filters, page or vendor of another are
\* there only as long as the right ones are being fetched: neither the
\* cache, a late answer nor a failure leaves them standing.
ShownAnswersUrl ==
    page \in {"list", "dead"} /\ View = "rows" /\ Data.url # url
        => cache[MainKey].fetch # "idle"

\* The unfiltered list, once it is shown and not being fetched, is an answer
\* that was given after every accepted notification had been stored, whatever
\* page the operator was on and whatever was cached.  Two cases are excepted
\* (raced), because invalidateQueries starts no fetch in them and the one under
\* way may be older: the list was being fetched when the acceptance arrived and
\* was not on screen, or it was on screen and this was its first fetch.  Nothing
\* asks again by itself after either of them.
AcceptedIsListed ==
    LET e == cache[ListKey(Top)]
    IN  page = "list" /\ url = Top /\ View = "rows" /\ e.fetch = "idle" /\ ~e.raced
            => \A id \in acked : id <= Data.rows

\* What is confirmed can be sent: however the operator goes back and forth,
\* the last step has a vendor and a payload that parses.
ConfirmedCanBeSent ==
    form.step = 2 => form.provider # NoVendor /\ Parses

\* Without an Idempotency-Key, the row a submission is answered with is the
\* notification on the confirmation page at that moment, also after lost
\* answers, edits and repeated submissions.
AnsweredIsConfirmed ==
    [][\A i \in 1..MaxPosts :
          /\ posts[i] # NoData /\ posts[i].here /\ posts[i].key = ""
          /\ mutation = "pending" /\ mutation' = "success"
          => /\ form.step = 2
             /\ table[posts[i].id].provider = form.provider
             /\ table[posts[i].id].body = form.text]_vars

\* A list never stays a skeleton: rows, the empty state or an error with its
\* retry button take its place even if the gateway never answers.
LoadingEnds ==
    page \in {"list", "dead"} /\ View = "skeleton"
        ~> page \notin {"list", "dead"} \/ View # "skeleton"

-----------------------------------------------------------------------------
(* What the repository's documents say of the program.                     *)

\* admin-console/spec.md:43, filters are kept in the URL: a filter that is
\* set stays while another one is changed.
FiltersAreKept ==
    [][target.filter # NoFilter /\ target'.filter # NoFilter =>
          \/ target'.filter.provider = target.filter.provider
          \/ target'.filter.q = target.filter.q]_vars
=============================================================================
