------------------------------ MODULE Preview ------------------------------
(***************************************************************************)
(* The body of a notification as the console previews it (lib/template.ts, *)
(* in the wizard and in the detail sheet) and as the gateway sends it      *)
(* (Jinja2 with StrictUndefined, in delivery/renderer.py).                 *)
(*                                                                         *)
(* A template is a sequence of the two forms that lib/template.ts knows,   *)
(* {{ path }} and {{ path | tojson }}; the text between them is copied by  *)
(* both sides.  JSON is compared as JSON: the sides differ in white space  *)
(* and in escapes.  Numbers are integers.                                  *)
(***************************************************************************)
EXTENDS Naturals, Sequences

CONSTANTS
    Fields,     \* names of a payload's fields, none that every JavaScript
                \* object has
    Methods,    \* those of them that a Python dict has an attribute of
    None,       \* nothing there
    Error,      \* the outcome of a body that cannot be rendered
    Kinds,      \* bound: kinds of values in a payload
    MaxPath,    \* bound: fields of a path
    MaxParts,   \* bound: expressions of a template
    MaxRestarts \* bound: changes of the template

Leaf(kind) == [kind |-> kind, of |-> <<>>]
Undefined  == Leaf("undefined")

Objects(V) == {[kind |-> "object", of |-> f] : f \in UNION {[S -> V] : S \in SUBSET Fields}}
Leaves     == {Leaf(kind) : kind \in Kinds}
Payloads   == Objects(Leaves \cup Objects(Leaves))

\* SAMPLE: a payload of a vendor it knows, and "{}" for the others.
Samples ==
    {[kind |-> "object", of |-> f] : f \in [Fields -> Leaves] \cup [{} -> Leaves]}

\* {{ payload.path }}, piped to tojson or not.
Paths       == UNION {[1..n -> Fields] : n \in 1..MaxPath}
Expressions == [path : Paths, tojson : BOOLEAN]
Templates   == UNION {[1..n -> Expressions] : n \in 1..MaxParts}

\* What a path may lead to, and what an expression is rendered to.
Values == Payloads \cup Objects(Leaves) \cup Leaves
             \cup {Undefined, Leaf("raised"), Leaf("method")}
Pieces == {"json", "text", "js", "python"} \X Values

ASSUME PreviewAssumption ==
    /\ Methods \subseteq Fields
    /\ Kinds \subseteq {"text", "number", "bool", "null", "list"}
    /\ MaxPath \in Nat \ {0} /\ MaxParts \in Nat \ {0}
    /\ Error \notin Pieces \cup Seq(Pieces)

VARIABLES
    registry,   \* the vendor's body_template at the gateway
    chosen,     \* the one in the wizard's provider, or None
    payload,    \* what the payload's text parses to, or None
    row,        \* the payload of the stored row, or None
    sent,       \* what the row was rendered from and to, or None
    restarts

vars == <<registry, chosen, payload, row, sent, restarts>>

-----------------------------------------------------------------------------
(* Both renderers.                                                         *)

\* One body for a template: an expression that fails fails the whole.
Body(template, Piece(_)) ==
    IF \E i \in DOMAIN template : Piece(template[i]) = Error THEN Error
    ELSE [i \in DOMAIN template |-> Piece(template[i])]

\* Whatever is no object has no fields; elements of lists are left out.
GetField(v, key) ==
    IF v.kind = "object" /\ key \in DOMAIN v.of THEN v.of[key] ELSE Undefined

\* getPath: the fields of a path, one after the other.
GetPath(v, path) ==
    LET at[n \in 0..Len(path)] == IF n = 0 THEN v ELSE GetField(at[n - 1], path[n])
    IN  at[Len(path)]

\* JavaScript's String() and Python's str() agree on text and integers.
PlainKinds == {"text", "number"}

\* Mutant of PreviewPiece: what is missing is left empty.
PreviewPieceEmpty(p, e) ==
    LET v == GetPath(p, e.path)
    IN  IF e.tojson THEN <<"json", v>>
        ELSE <<IF v.kind \in PlainKinds THEN "text" ELSE "js", v>>

\* Mutant of PreviewPiece: the filter is not applied.
PreviewPieceUnfiltered(p, e) ==
    LET v == GetPath(p, e.path)
    IN  IF v.kind \in {"undefined", "null"} THEN Error
        ELSE <<IF v.kind \in PlainKinds THEN "text" ELSE "js", v>>

\* renderTemplate's callback: JSON.stringify(undefined) is undefined, and
\* JSON.stringify(null) is a text.
PreviewPiece(p, e) ==
    LET v == GetPath(p, e.path)
    IN  IF v.kind = "undefined" \/ (v.kind = "null" /\ ~e.tojson) THEN Error
        ELSE IF e.tojson THEN <<"json", v>>
        ELSE <<IF v.kind \in PlainKinds THEN "text" ELSE "js", v>>

\* renderTemplate
PreviewBody(template, p) ==
    LET Piece(e) == PreviewPiece(p, e) IN Body(template, Piece)

\* Jinja's attribute lookup: a dict's own attributes come before its keys, and
\* an undefined value has none.
GetAttribute(v, key) ==
    IF v.kind \in {"undefined", "raised"} THEN Leaf("raised")
    ELSE IF v.kind = "object" /\ key \in Methods THEN Leaf("method")
    ELSE GetField(v, key)

LookUp(v, path) ==
    LET at[n \in 0..Len(path)] == IF n = 0 THEN v ELSE GetAttribute(at[n - 1], path[n])
    IN  at[Len(path)]

\* A value is printed; StrictUndefined cannot be, and tojson serializes
\* neither it nor a method.
JinjaPiece(p, e) ==
    LET v == LookUp(p, e.path)
    IN  IF v.kind \in {"undefined", "raised"} \/ (v.kind = "method" /\ e.tojson) THEN Error
        ELSE IF e.tojson THEN <<"json", v>>
        ELSE <<IF v.kind \in PlainKinds THEN "text" ELSE "python", v>>

JinjaBody(template, p) ==
    LET Piece(e) == JinjaPiece(p, e) IN Body(template, Piece)

-----------------------------------------------------------------------------
Init ==
    /\ registry \in Templates
    /\ chosen  = None
    /\ payload = None
    /\ row     = None
    /\ sent    = None
    /\ restarts = 0

\* The gateway is started with another providers.yaml.
Restart(t) ==
    /\ restarts < MaxRestarts
    /\ restarts' = restarts + 1
    /\ registry' = t
    /\ UNCHANGED <<chosen, payload, row, sent>>

\* A vendor's card in the wizard: it keeps the provider it was given, and the
\* payload becomes that vendor's sample.
Choose ==
    /\ row = None
    /\ chosen'  = registry
    /\ payload' \in Samples
    /\ UNCHANGED <<registry, row, sent, restarts>>

\* The payload is edited; from one that parses to another by way of text that
\* does not.
Edit(p) ==
    /\ chosen # None /\ row = None
    /\ payload = None \/ p = None
    /\ payload' = p
    /\ UNCHANGED <<registry, chosen, row, sent, restarts>>

\* A failed preview does not keep the operator from submitting.
Submit ==
    /\ chosen # None /\ payload # None /\ row = None
    /\ row' = payload
    /\ UNCHANGED <<registry, chosen, payload, sent, restarts>>

\* The dispatcher renders the row, with the template of that time.
Dispatch ==
    /\ row # None /\ sent = None
    /\ sent' = [template |-> registry, body |-> JinjaBody(registry, row)]
    /\ UNCHANGED <<registry, chosen, payload, row, restarts>>

Next ==
    \/ \E t \in Templates : Restart(t)
    \/ Choose
    \/ \E p \in Payloads \cup {None} : Edit(p)
    \/ Submit \/ Dispatch

Spec == Init /\ [][Next]_vars

-----------------------------------------------------------------------------
\* What is on screen: the wizard's preview, and the sheet's of the stored row,
\* which uses the template of now.
WizardShows == IF chosen = None \/ payload = None THEN None ELSE PreviewBody(chosen, payload)
SheetShows  == IF row = None THEN None ELSE PreviewBody(registry, row)

\* Paths that mean a field to both sides.
OnlyFields(template) ==
    \A i \in DOMAIN template : \A n \in DOMAIN template[i].path : template[i].path[n] \notin Methods

\* A notification that is dead-lettered because a field is missing was shown
\* as one that cannot be rendered before it was submitted, and is in its
\* sheet, unless the template has changed in between.
MissingIsShown ==
    sent # None /\ sent.body = Error /\ OnlyFields(sent.template)
        => /\ chosen = sent.template => WizardShows = Error
           /\ registry = sent.template => SheetShows = Error

\* The body previewed is the body sent, for templates and values on which
\* JavaScript and Python agree; on the others only the preview can fail.
PreviewIsSent ==
    sent # None /\ chosen = sent.template /\ WizardShows # Error /\ OnlyFields(sent.template)
        => /\ sent.body # Error
           /\ \A i \in DOMAIN sent.body :
                 WizardShows[i][1] # "js" => sent.body[i] = WizardShows[i]
=============================================================================
