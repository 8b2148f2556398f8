----------------------------- MODULE MCConsole -----------------------------
(***************************************************************************)
(* Small instances of Console: one vendor, and a row that was              *)
(* dead-lettered before the tab was opened.                                *)
(***************************************************************************)
EXTENDS Console

MCOldRows == <<[provider |-> "crm", body |-> "sample", key |-> "old"]>>
=============================================================================
