----------------------------- MODULE MCDelivery -----------------------------
(***************************************************************************)
(* Small instances of Delivery.  Rows are named after their vendor: a1, a2 *)
(* and a3 belong to vendor "a", b1 to "b"; x1 belongs to "x", which is no  *)
(* longer in providers.yaml; bad1 is a row of "a" that cannot be rendered. *)
(***************************************************************************)
EXTENDS Delivery, TLC

MCProviderOf ==
    LET all == "a1" :> "a" @@ "a2" :> "a" @@ "a3" :> "a" @@ "b1" :> "b"
               @@ "x1" :> "x" @@ "bad1" :> "a"
    IN  [n \in Notifications |-> all[n]]

MCBadPayload == {"bad1"} \cap Notifications

\* In ticks: the first retry after one tick or two (the jitter), later ones
\* after two or three; or all of them after one or two.
MCBackoffTable == <<1, 2>>
MCShortTable   == <<1>>
=============================================================================
