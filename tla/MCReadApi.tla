----------------------------- MODULE MCReadApi -----------------------------
(***************************************************************************)
(* Three rows of two vendors; the last is created in the next hour.  With  *)
(* pages of one row a walk has up to three pages.  The median tells three  *)
(* observations from their largest.                                        *)
(***************************************************************************)
EXTENDS ReadApi

MCHourOf   == [n \in Rows |-> IF n < 3 THEN 0 ELSE 1]
MCVendorOf == [n \in Rows |-> IF n = 2 THEN "ads" ELSE "crm"]
MCBuckets  == <<1, 3>>
MCFilters  == {[status |-> Any, among |-> Rows \ {2}],
               DeadLetters(Rows)}
=============================================================================
