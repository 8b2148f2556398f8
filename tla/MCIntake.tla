------------------------------ MODULE MCIntake ------------------------------
(***************************************************************************)
(* Small instances of Intake.  "h1" and "h2" carry the same header; "p"    *)
(* and "q" carry none and the same payload for two vendors, "p2" repeats   *)
(* "p"; "u" names an unknown vendor and "big" is too large.                *)
(***************************************************************************)
EXTENDS Intake, TLC

MCHeader ==
    LET all == "h1" :> "k" @@ "h2" :> "k"
    IN  [c \in Submissions |-> IF c \in DOMAIN all THEN all[c] ELSE NoHeader]

MCProvider ==
    LET all == "q" :> "crm" @@ "u" :> "gone"
    IN  [c \in Submissions |-> IF c \in DOMAIN all THEN all[c] ELSE "ads"]

MCPayload ==
    [c \in Submissions |-> IF c = "big" THEN "huge" ELSE IF c = "h2" THEN "y" ELSE "x"]

MCSymmetry == Permutations(Processes)
=============================================================================
