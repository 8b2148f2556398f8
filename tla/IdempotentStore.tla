--------------------------- MODULE IdempotentStore ---------------------------
(***************************************************************************)
(* What POST /v1/notifications promises its callers, with no statements,   *)
(* transactions, processes or retries: each submission is looked up and,   *)
(* if its key is new, stored in one step, and the answer to it is either   *)
(* the id stored under its key or an error that stored nothing.  Of a row  *)
(* that was stored the submission that made it is told once that it is     *)
(* new, or never.                                                          *)
(***************************************************************************)
EXTENDS Naturals, Sequences

CONSTANTS
    Submissions,
    KeyOf,          \* the idempotency key of each submission
    VerdictOf,      \* 202 if the submission may be stored, else its refusal
    Errors          \* the codes of an answer that asks for a retry

VARIABLES
    table,          \* the rows [key, from]; a row's id is its position
    answers,        \* every answer given so far
    owed            \* the rows whose first answer is still to be given

store == <<table, answers, owed>>

Init == table = <<>> /\ answers = {} /\ owed = {}

Answer(c, code, id, dup) ==
    answers' = answers \cup {[to |-> c, code |-> code, id |-> id, duplicated |-> dup]}

\* The key is new: store.
Store(c) ==
    /\ VerdictOf[c] = 202
    /\ \A i \in DOMAIN table : table[i].key # KeyOf[c]
    /\ table' = Append(table, [key |-> KeyOf[c], from |-> c])
    /\ owed'  = owed \cup {Len(table) + 1}
    /\ UNCHANGED answers

\* Say so to the submission that is stored.
Announce(i) ==
    /\ Answer(table[i].from, 202, i, FALSE)
    /\ owed' = owed \ {i}
    /\ UNCHANGED table

\* Or lose the answer.
Forget(i) ==
    /\ owed' = owed \ {i}
    /\ UNCHANGED <<table, answers>>

\* The key is known: name the row that has it.
Repeat(c) ==
    /\ VerdictOf[c] = 202
    /\ \E i \in DOMAIN table : table[i].key = KeyOf[c] /\ Answer(c, 202, i, TRUE)
    /\ UNCHANGED <<table, owed>>

\* Nothing is stored: for good, or for this time.
Decline(c) ==
    /\ \E code \in Errors \cup ({VerdictOf[c]} \ {202}) : Answer(c, code, 0, FALSE)
    /\ UNCHANGED <<table, owed>>

Next ==
    \/ \E c \in Submissions : Store(c) \/ Repeat(c) \/ Decline(c)
    \/ \E i \in owed : Announce(i) \/ Forget(i)

Spec == Init /\ [][Next]_store
=============================================================================
