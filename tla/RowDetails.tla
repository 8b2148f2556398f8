----------------------------- MODULE RowDetails -----------------------------
(***************************************************************************)
(* A notification's row as operators read it: the columns the gateway      *)
(* writes one outcome after another, or the rows lib/api/mock.ts makes up; *)
(* the answers that carry copies of them, each a COUNT and a page; the row *)
(* of the notification list with the sheet that opens beside it; and the   *)
(* dead-letter page with the rows that are expanded on it.                 *)
(*                                                                         *)
(* Outcomes are atomic (Delivery has their detail), URLs and the pager are *)
(* left to Console, the sheet's preview to Preview.  A text column is only *)
(* there or not; ids are positions in the table.                           *)
(***************************************************************************)
EXTENDS Sequences, FiniteSets, QueryCache

CONSTANTS
    Servers,        \* what lib/api/index.ts may choose: "gateway", "mock"
    Vendors,        \* providers.yaml
    Limit,          \* rows of an answer
    MaxAttempts,    \* settings.max_retry_attempts
    MaxRows,        \* bound: length of the table
    MaxClicks,      \* bound: pages opened, rows clicked, vendors chosen, refreshes
    MaxFailures     \* bound: failed requests for data

Statuses == {"PENDING", "IN_FLIGHT", "SUCCEEDED", "DEAD_LETTER"}

Row == [id : 1..MaxRows, provider : Vendors, status : Statuses, attempts : 0..MaxAttempts,
        lastError : BOOLEAN, deliveredAt : BOOLEAN, nextRetryAt : BOOLEAN]

\* A page of a list; its rows come newest first, that is by falling id.
Answers == [items : SUBSET Row, total : 0..MaxRows]

\* Query keys: the unfiltered list, and the dead letters of a vendor or all.
ListKey  == [kind |-> "list", provider |-> ""]
DeadKeys == [kind : {"dead"}, provider : Vendors \cup {""}]
Keys     == DeadKeys \cup {ListKey}

ASSUME RowAssumption ==
    /\ Limit \in Nat \ {0} /\ MaxRows \in Nat \ {0} /\ MaxAttempts \in Nat \ {0}
    /\ "" \notin Vendors
    /\ NoData \notin Answers \cup Row \cup Keys \cup Nat

VARIABLES
    server,
    table,      \* the server's rows, oldest first
    counted,    \* _list_notifications: total, of the request under way for a key
    cache,      \* the query cache
    page,       \* "list" or "dead"
    vendor,     \* dead-letters/page.tsx: the chosen provider, "" for all
    last,       \* the page's last query that had data (placeholderData)
    selected,   \* notifications/page.tsx: the row clicked last
    open,       \* and whether its sheet is
    expanded,   \* dead-letters/page.tsx: keys of the expanded rows
    clicks, failures

client == <<page, vendor, last, selected, open, expanded>>
bounds == <<clicks, failures>>
vars   == <<server, table, counted, cache, client, bounds>>

Click == clicks < MaxClicks /\ clicks' = clicks + 1

-----------------------------------------------------------------------------
(* The server's rows.                                                      *)

\* A row as submitNotification of the mock makes it; the gateway's is due at
\* once, by the column's default.
NewRow(v) ==
    [id |-> Len(table) + 1, provider |-> v, status |-> "PENDING", attempts |-> 0,
     lastError |-> FALSE, deliveredAt |-> FALSE, nextRetryAt |-> server = "gateway"]

\* NOTIFICATIONS of the mock.
Seed(i, v, s, n) ==
    [id |-> i, provider |-> v, status |-> s, attempts |-> IF s = "IN_FLIGHT" THEN 1 ELSE n,
     lastError |-> s # "SUCCEEDED", deliveredAt |-> s = "SUCCEEDED",
     nextRetryAt |-> s = "PENDING"]

MockTables ==
    {<<r>> : r \in {Seed(1, v, s, n) : v \in Vendors, s \in Statuses, n \in 1..MaxAttempts}}

Write(t) == table' = t /\ UNCHANGED <<server, counted, cache, client, bounds>>

Insert(v) ==
    /\ Len(table) < MaxRows
    /\ Write(Append(table, NewRow(v)))

Claim(i) ==
    /\ table[i].status = "PENDING"
    /\ Write([table EXCEPT ![i].status = "IN_FLIGHT"])

\* Mutant of Succeeded: the error of the attempt before stays.
SucceededWithError(i) ==
    /\ table[i].status = "IN_FLIGHT"
    /\ Write([table EXCEPT ![i].status = "SUCCEEDED", ![i].attempts = @ + 1,
                           ![i].deliveredAt = TRUE])

\* _persist_success
Succeeded(i) ==
    /\ table[i].status = "IN_FLIGHT"
    /\ Write([table EXCEPT ![i].status = "SUCCEEDED", ![i].attempts = @ + 1,
                           ![i].lastError = FALSE, ![i].deliveredAt = TRUE])

\* _persist_dead_letter
DeadLettered(i) ==
    /\ table[i].status = "IN_FLIGHT"
    /\ Write([table EXCEPT ![i].status = "DEAD_LETTER", ![i].attempts = @ + 1,
                           ![i].lastError = TRUE])

\* Mutant of Retried: the limit of attempts is not looked at.
RetriedAnyway(i) ==
    /\ table[i].status = "IN_FLIGHT"
    /\ Write([table EXCEPT ![i].status = "PENDING", ![i].attempts = @ + 1,
                           ![i].nextRetryAt = TRUE, ![i].lastError = TRUE])

\* _persist_retry; _decide_terminal allows it below the limit only.
Retried(i) ==
    /\ table[i].status = "IN_FLIGHT"
    /\ table[i].attempts + 1 < MaxAttempts
    /\ Write([table EXCEPT ![i].status = "PENDING", ![i].attempts = @ + 1,
                           ![i].nextRetryAt = TRUE, ![i].lastError = TRUE])

\* Mutant of PutBack: the row's status is not asked for.  (The exception may
\* come after the outcome was stored.)
PutBackSettled(i) ==
    /\ table[i].status # "PENDING"
    /\ Write([table EXCEPT ![i].status = "PENDING", ![i].nextRetryAt = TRUE])

\* _dispatch_one, after an exception.
PutBack(i) ==
    /\ table[i].status = "IN_FLIGHT"
    /\ Write([table EXCEPT ![i].status = "PENDING", ![i].nextRetryAt = TRUE])

Deliver ==
    /\ server = "gateway"       \* the mock's rows stay as they are
    /\ \E i \in DOMAIN table :
           Claim(i) \/ Succeeded(i) \/ DeadLettered(i) \/ Retried(i) \/ PutBack(i)

\* What a query asks for, and the newest of it.
Asked(k) ==
    {i \in DOMAIN table :
        /\ k.kind = "dead" => table[i].status = "DEAD_LETTER"
        /\ k.provider \in {"", table[i].provider}}

Answer(k, total) ==
    LET S      == Asked(k)
        newest == {i \in S : Cardinality({j \in S : j > i}) < Limit}
    IN  [items |-> {table[i] : i \in newest}, total |-> total]

-----------------------------------------------------------------------------
(* The console.                                                            *)

MainKey == IF page = "list" THEN ListKey ELSE [kind |-> "dead", provider |-> vendor]

Observed(k) == {[cache EXCEPT ![k] = Observe(@, expired)] : expired \in BOOLEAN}

\* The rows' answer: the query's own, or while it has neither data nor an
\* error that of the query before it.
Data ==
    IF cache[MainKey].data # NoData THEN cache[MainKey].data
    ELSE IF cache[MainKey].status = "pending" /\ last # NoData THEN cache[last].data
    ELSE NoData

\* The rows on screen; on an error the pages show InlineError instead.
Items == IF Data = NoData \/ cache[MainKey].status = "error" THEN {} ELSE Data.items

Show(p) ==
    /\ Click
    /\ page # p
    /\ page' = p
    /\ vendor' = "" /\ last' = NoData
    /\ selected' = NoData /\ open' = FALSE /\ expanded' = {}
    /\ LET k == IF p = "list" THEN ListKey ELSE [kind |-> "dead", provider |-> ""]
       IN  cache' \in Observed(k)
    /\ UNCHANGED <<server, table, counted, failures>>

\* A row of the list: its sheet opens, with the row as it was listed.  The
\* sheet is modal.
OpenSheet(r) ==
    /\ Click
    /\ page = "list" /\ ~open
    /\ selected' = r
    /\ open'     = TRUE
    /\ UNCHANGED <<server, table, counted, cache, page, vendor, last, expanded, failures>>

\* What the sheet says of its row below badge and attempts.
Meta(r) ==
    {label \in {"provider", "created", "delivered", "retry", "error"} :
        /\ label = "delivered" => r.deliveredAt
        /\ label = "retry"     => r.nextRetryAt
        /\ label = "error"     => r.lastError}

CloseSheet ==
    /\ open
    /\ open' = FALSE
    /\ UNCHANGED <<server, table, counted, cache, page, vendor, last, selected, expanded, bounds>>

SelectVendor(v) ==
    /\ Click
    /\ page = "dead" /\ vendor # v
    /\ vendor' = v
    /\ last'   = IF cache[MainKey].data # NoData THEN MainKey ELSE last
    /\ cache' \in Observed([kind |-> "dead", provider |-> v])
    /\ UNCHANGED <<server, table, counted, page, selected, open, expanded, failures>>

RowKey(r) == r.id

IsOpen(r) == RowKey(r) \in expanded

\* The button a row of the dead-letter page is.
Toggle(r) ==
    /\ Click
    /\ page = "dead"
    /\ expanded' = IF IsOpen(r) THEN expanded \ {RowKey(r)} ELSE expanded \cup {RowKey(r)}
    /\ UNCHANGED <<server, table, counted, cache, page, vendor, last, selected, open, failures>>

\* The refresh button, and InlineError's.
Refresh ==
    /\ Click
    /\ page = "dead" \/ cache[MainKey].status = "error"
    /\ cache' = [cache EXCEPT ![MainKey] = Refetch(@)]
    /\ counted' = [counted EXCEPT ![MainKey] =
                      IF cache[MainKey].data = NoData THEN @ ELSE NoData]
    /\ UNCHANGED <<server, table, client, failures>>

\* The gateway's COUNT; the page is read by a statement of its own.
Counted(k) ==
    /\ server = "gateway"
    /\ cache[k].fetch = "asked" /\ counted[k] = NoData
    /\ counted' = [counted EXCEPT ![k] = Cardinality(Asked(k))]
    /\ UNCHANGED <<server, table, cache, client, bounds>>

\* The request for k has been answered, or failed.
Fetch(k, e) ==
    /\ cache'   = [cache EXCEPT ![k] = e]
    /\ counted' = [counted EXCEPT ![k] = NoData]
    /\ UNCHANGED <<server, table, client, clicks>>

\* The mock counts and pages at once.
Served(k) ==
    /\ cache[k].fetch = "asked"
    /\ server = "gateway" => counted[k] # NoData
    /\ LET total == IF server = "gateway" THEN counted[k] ELSE Cardinality(Asked(k))
       IN  Fetch(k, Serve(cache[k], Answer(k, total)))
    /\ UNCHANGED failures

Received(k) ==
    /\ cache[k].fetch = "served"
    /\ Fetch(k, Receive(cache[k], k = ListKey))
    /\ UNCHANGED failures

Failed(k)   ==
    /\ server = "gateway"
    /\ cache[k].fetch # "idle"
    /\ failures < MaxFailures
    /\ failures' = failures + 1
    /\ Fetch(k, Fail(cache[k], k = MainKey))

-----------------------------------------------------------------------------
Init ==
    /\ server   \in Servers
    /\ table    \in IF server = "mock" THEN MockTables ELSE {<<>>}
    /\ page     \in {"list", "dead"}
    /\ vendor   = ""
    /\ counted  = [k \in Keys |-> NoData]
    /\ cache    = [k \in Keys |-> IF k = MainKey THEN Observe(NewEntry, FALSE) ELSE NewEntry]
    /\ last     = NoData
    /\ selected = NoData
    /\ open     = FALSE
    /\ expanded = {}
    /\ clicks   = 0
    /\ failures = 0

Next ==
    \/ \E v \in Vendors : Insert(v)
    \/ Deliver
    \/ \E p \in {"list", "dead"} : Show(p)
    \/ \E r \in Items : OpenSheet(r) \/ Toggle(r)
    \/ CloseSheet \/ Refresh
    \/ \E v \in Vendors \cup {""} : SelectVendor(v)
    \/ \E k \in Keys : Counted(k) \/ Served(k) \/ Received(k) \/ Failed(k)

Spec == Init /\ [][Next]_vars

-----------------------------------------------------------------------------
\* Rows keep the types of lib/types.ts, and attempts their limit, wherever a
\* copy of the row is.
TypeOK ==
    /\ table \in Seq(Row) /\ Len(table) <= MaxRows
    /\ counted \in [Keys -> 0..MaxRows \cup {NoData}]
    /\ cache \in [Keys -> Entry(Answers)]
    /\ vendor \in Vendors \cup {""} /\ last \in DeadKeys \cup {NoData}
    /\ selected \in Row \cup {NoData} /\ open \in BOOLEAN
    /\ expanded \subseteq 1..MaxRows

\* A row that is not at odds with itself: a time of delivery exactly if it was
\* delivered and then no error, a dead letter with its reason, and no error
\* without an attempt.
Agrees(r) ==
    /\ r.deliveredAt <=> r.status = "SUCCEEDED"
    /\ r.status = "SUCCEEDED" => ~r.lastError
    /\ r.status = "DEAD_LETTER" => r.lastError
    /\ r.lastError \/ r.status \in {"SUCCEEDED", "DEAD_LETTER"} => r.attempts > 0

\* Whatever attempts, exceptions and late answers came before, a row on screen
\* is not at odds with itself, and its sheet says when it was delivered exactly
\* if the badge says that it was, an error of every dead letter and none of a
\* row delivered.
ShownRowAgrees ==
    /\ \A r \in Items : Agrees(r)
    /\ open => /\ "delivered" \in Meta(selected) <=> selected.status = "SUCCEEDED"
               /\ selected.status = "SUCCEEDED" => "error" \notin Meta(selected)
               /\ selected.status = "DEAD_LETTER" => "error" \in Meta(selected)

\* A dead letter never changes on the page, and never leaves it but for a
\* page full of newer ones: no answer of a refresh is older than the one it
\* replaces, whatever was dead-lettered between its COUNT and its page, and
\* no row comes out of the dead letters.
DeadLettersStay ==
    [][\A k \in DeadKeys :
          cache[k].data # NoData
          => LET before == cache[k].data
                 after  == cache'[k].data
             IN  /\ after # NoData
                 /\ after.total >= before.total
                 /\ \A r \in before.items :
                       \/ r \in after.items
                       \/ /\ Cardinality(after.items) >= Limit
                          /\ \A s \in after.items : s.id > r.id]_vars
=============================================================================
