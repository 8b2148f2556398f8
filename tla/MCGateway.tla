----------------------------- MODULE MCGateway -----------------------------
(***************************************************************************)
(* "h1" and "h2" carry the same Idempotency-Key and different payloads.    *)
(***************************************************************************)
EXTENDS Gateway, TLC

MCProviderOf   == [c \in Submissions |-> "a"]
MCHeader       == [c \in Submissions |-> "k"]
MCPayload      == [c \in Submissions |-> c]
MCBackoffTable == <<1>>
=============================================================================
