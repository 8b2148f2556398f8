----------------------------- MODULE QueryCache -----------------------------
(***************************************************************************)
(* One entry of the console's query cache: @tanstack/react-query v5, an    *)
(* external library, with the options components/providers.tsx and         *)
(* lib/hooks.ts give it.  A fetch belongs to the entry and not to the page *)
(* that asked for it: it goes on, and its answer is kept, after the page   *)
(* has gone.                                                               *)
(***************************************************************************)
EXTENDS Naturals

CONSTANT NoData

Retries == 1                    \* QueryClient defaultOptions.queries.retry

Entry(Answers) ==
    [data   : Answers \cup {NoData},
     status : {"pending", "error", "success"},
     fetch  : {"idle", "asked", "served"},  \* no request, sent, answered
     tries  : 0..Retries,                   \* failures of this fetch
     coming : Answers \cup {NoData},        \* the answer on its way
     stale  : BOOLEAN,                      \* to be fetched when next used
     raced  : BOOLEAN]      \* history: invalidated while it was being fetched

NewEntry ==
    [data |-> NoData, status |-> "pending", fetch |-> "idle", tries |-> 0,
     coming |-> NoData, stale |-> FALSE, raced |-> FALSE]

StartFetch(e) ==
    [e EXCEPT !.fetch = "asked", !.tries = 0, !.coming = NoData, !.raced = FALSE,
              !.status = IF e.data = NoData THEN "pending" ELSE @]

\* A page that uses the query is shown, or starts to use it; expired: its
\* data is older than its staleTime.
Observe(e, expired) ==
    IF e.fetch = "idle" /\ (e.data = NoData \/ e.stale \/ expired) THEN StartFetch(e) ELSE e

\* refetch(): a running fetch is started over, unless it is the first.
Refetch(e) == IF e.fetch = "idle" \/ e.data # NoData THEN StartFetch(e) ELSE e

\* invalidateQueries: queries in use are fetched again, others when next used.
\* A fetch that is under way is left to end, with an answer that may be older,
\* if the query is not in use or has no data yet; its end takes the mark away.
Invalidate(e, inUse) ==
    LET marked == [e EXCEPT !.stale = TRUE]
    IN  IF inUse /\ (e.fetch = "idle" \/ e.data # NoData)
        THEN StartFetch(marked)
        ELSE [marked EXCEPT !.raced = e.fetch # "idle"]

Serve(e, answer) == [e EXCEPT !.fetch = "served", !.coming = answer]

\* keep: the query has a staleTime.
Receive(e, keep) ==
    [e EXCEPT !.data = e.coming, !.coming = NoData, !.status = "success",
              !.fetch = "idle", !.stale = ~keep]

\* A fetch that nobody waits for any more is not tried again.
Fail(e, inUse) ==
    IF inUse /\ e.tries < Retries
    THEN [e EXCEPT !.fetch = "asked", !.coming = NoData, !.tries = @ + 1]
    ELSE [e EXCEPT !.fetch = "idle", !.coming = NoData, !.status = "error", !.stale = TRUE]
=============================================================================
