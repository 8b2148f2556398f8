--------------------------- MODULE PreviewProofs ---------------------------
(***************************************************************************)
(* Theorems about Preview, for any fields, payloads, templates and paths:  *)
(* what the console previews and what the gateway sends.                   *)
(***************************************************************************)
EXTENDS Preview, FiniteSetTheorems, TLAPS

-----------------------------------------------------------------------------
(* Paths, field by field.  An induction over a path is a first step that   *)
(* would be an exception.                                                  *)

LEMMA FirstStep ==
  ASSUME NEW N \in Nat, NEW Q \in SUBSET (0..N), Q # {}
  PROVE  \E n \in Q : \A m \in 0..n - 1 : m \notin Q
<1> DEFINE upTo(n) == {m \in Q : m <= n}
           all     == {upTo(n) : n \in Q}
<1>1. IsFiniteSet(Q)
  <2>1. IsFiniteSet(0..N)
    BY FS_Interval
  <2> QED
    BY <2>1, FS_Subset
<1>2. IsWellFoundedOn(StrictSubsetOrdering(Q), SUBSET Q)
  BY <1>1, FS_FiniteSubsetsOfFinite, FS_StrictSubsetOrderingWellFounded, Zenon
<1>3. all \subseteq SUBSET Q /\ all # {}
  OBVIOUS
<1>4. \E T \in all : \A U \in all : ~ (<<U, T>> \in StrictSubsetOrdering(Q))
  <2> HIDE DEF all
  <2> QED
    BY <1>2, <1>3, WFMin, Zenon
<1>5. PICK n \in Q : \A m \in Q : ~ (<<upTo(m), upTo(n)>> \in StrictSubsetOrdering(Q))
  BY <1>4
<1>6. ASSUME NEW m \in 0..n - 1, m \in Q PROVE FALSE
  <2>1. upTo(m) \in SUBSET Q /\ upTo(n) \in SUBSET Q
    OBVIOUS
  <2>2. \A k \in Q : k <= m => k <= n
    BY <1>6
  <2>3. upTo(m) \subseteq upTo(n) /\ n \in upTo(n) /\ n \notin upTo(m)
    <3>1. n \in Nat /\ m \in Nat /\ n <= n /\ ~(n <= m)
      BY <1>6
    <3> QED
      BY <2>2, <3>1
  <2> HIDE DEF upTo
  <2>4. <<upTo(m), upTo(n)>> \in StrictSubsetOrdering(Q)
    BY <2>1, <2>3 DEF StrictSubsetOrdering
  <2> QED
    BY <1>5, <1>6, <2>4
<1> QED
  BY <1>6

\* The values along a path, as the console and as Jinja find them.
Along(v, path, N, g) ==
    g = [n \in 0..N |-> IF n = 0 THEN v ELSE GetField(g[n - 1], path[n])]

JinjaAlong(v, path, N, g) ==
    g = [n \in 0..N |-> IF n = 0 THEN v ELSE GetAttribute(g[n - 1], path[n])]

LEMMA AlongExists ==
  ASSUME NEW v, NEW path, NEW N \in Nat
  PROVE  (\E g : Along(v, path, N, g)) /\ (\E g : JinjaAlong(v, path, N, g))
<1> DEFINE P(n) == (\E g : Along(v, path, n, g)) /\ (\E g : JinjaAlong(v, path, n, g))
           Q    == {n \in 0..N : ~P(n)}
<1>1. SUFFICES ASSUME Q # {} PROVE FALSE
  OBVIOUS
<1>2. PICK n \in Q : \A m \in 0..n - 1 : m \notin Q
  <2>1. Q \in SUBSET (0..N)
    OBVIOUS
  <2> HIDE DEF Q
  <2> QED
    BY <1>1, <2>1, FirstStep
<1>3. CASE n = 0
  <2>1. Along(v, path, 0, [k \in 0..0 |-> v]) /\ JinjaAlong(v, path, 0, [k \in 0..0 |-> v])
    BY DEF Along, JinjaAlong
  <2> QED
    BY <1>2, <1>3, <2>1
<1>4. CASE n # 0
  <2>1. n - 1 \in 0..N /\ n - 1 \in 0..n - 1 /\ n \in Nat
    BY <1>4
  <2>2. P(n - 1)
    BY <1>2, <2>1
  <2>3. PICK g : Along(v, path, n - 1, g)
    BY <2>2
  <2>4. PICK h : JinjaAlong(v, path, n - 1, h)
    BY <2>2
  <2> DEFINE gg == [k \in 0..n |-> IF k = n THEN GetField(g[n - 1], path[n]) ELSE g[k]]
             hh == [k \in 0..n |-> IF k = n THEN GetAttribute(h[n - 1], path[n]) ELSE h[k]]
  <2>5. ASSUME NEW k \in 0..n
        PROVE  /\ gg[k] = IF k = 0 THEN v ELSE GetField(gg[k - 1], path[k])
               /\ hh[k] = IF k = 0 THEN v ELSE GetAttribute(hh[k - 1], path[k])
    <3>1. CASE k = n
      <4>1. n - 1 \in 0..n /\ n - 1 # n
        BY <2>1
      <4>2. gg[n - 1] = g[n - 1] /\ hh[n - 1] = h[n - 1]
        BY <4>1
      <4> QED
        BY <1>4, <3>1, <4>2
    <3>2. CASE k # n
      <4>1. k \in 0..n - 1 /\ gg[k] = g[k] /\ hh[k] = h[k]
        BY <2>1, <3>2
      <4>2. k # 0 => k - 1 \in 0..n /\ k - 1 # n
        BY <2>1, <4>1
      <4>3. k # 0 => gg[k - 1] = g[k - 1] /\ hh[k - 1] = h[k - 1]
        BY <4>2
      <4> HIDE DEF gg, hh
      <4>4. /\ g[k] = IF k = 0 THEN v ELSE GetField(g[k - 1], path[k])
            /\ h[k] = IF k = 0 THEN v ELSE GetAttribute(h[k - 1], path[k])
        BY <2>3, <2>4, <4>1 DEF Along, JinjaAlong
      <4> QED
        BY <4>1, <4>3, <4>4
    <3> QED
      BY <3>1, <3>2
  <2>6. gg = [k \in 0..n |-> gg[k]] /\ hh = [k \in 0..n |-> hh[k]]
    OBVIOUS
  <2> HIDE DEF gg, hh
  <2>7. Along(v, path, n, gg)
    BY <2>5, <2>6 DEF Along
  <2>8. JinjaAlong(v, path, n, hh)
    BY <2>5, <2>6 DEF JinjaAlong
  <2> QED
    BY <1>2, <2>7, <2>8
<1> QED
  BY <1>3, <1>4

LEMMA PathUnfolds ==
  ASSUME NEW v, NEW path, Len(path) \in Nat
  PROVE  /\ \E g : Along(v, path, Len(path), g) /\ GetPath(v, path) = g[Len(path)]
         /\ \E g : JinjaAlong(v, path, Len(path), g) /\ LookUp(v, path) = g[Len(path)]
<1> DEFINE g == CHOOSE f : Along(v, path, Len(path), f)
           h == CHOOSE f : JinjaAlong(v, path, Len(path), f)
<1>1. GetPath(v, path) = g[Len(path)]
  BY DEF GetPath, Along
<1>2. LookUp(v, path) = h[Len(path)]
  BY DEF LookUp, JinjaAlong
<1>3. Along(v, path, Len(path), g) /\ JinjaAlong(v, path, Len(path), h)
  BY AlongExists
<1> QED
  BY <1>1, <1>2, <1>3

-----------------------------------------------------------------------------
(* Both sides on a path without methods.                                   *)

Data == Payloads \cup Objects(Leaves) \cup Leaves \cup {Undefined}

LEMMA ObjectFields ==
  ASSUME NEW V, NEW v \in Objects(V)
  PROVE  v.kind = "object" /\ \A key \in DOMAIN v.of : v.of[key] \in V
<1>1. PICK f \in UNION {[S -> V] : S \in SUBSET Fields} : v = [kind |-> "object", of |-> f]
  BY DEF Objects
<1>2. PICK S \in SUBSET Fields : f \in [S -> V]
  OBVIOUS
<1> QED
  BY <1>1, <1>2

LEMMA LeafKinds ==
  /\ \A v \in Leaves : v.kind \in Kinds
  /\ Undefined.kind = "undefined" /\ Leaf("raised").kind = "raised"
  /\ Leaf("method").kind = "method"
BY DEF Leaves, Leaf, Undefined

\* A payload and what it holds: no value is one of Jinja's own.
LEMMA DataKinds ==
  ASSUME NEW v \in Data
  PROVE  /\ v.kind \notin {"raised", "method"}
         /\ v.kind = "undefined" => v = Undefined
         /\ \A key : GetField(v, key) \in Data
<1>1. Kinds \subseteq {"text", "number", "bool", "null", "list"}
  BY PreviewAssumption
<1>2. CASE v \in Payloads
  <2>1. /\ v.kind = "object"
        /\ \A key \in DOMAIN v.of : v.of[key] \in Leaves \cup Objects(Leaves)
    BY <1>2, ObjectFields DEF Payloads
  <2> QED
    BY <2>1 DEF GetField, Data
<1>3. CASE v \in Objects(Leaves)
  <2>1. v.kind = "object" /\ \A key \in DOMAIN v.of : v.of[key] \in Leaves
    BY <1>3, ObjectFields
  <2> QED
    BY <2>1 DEF GetField, Data
<1>4. CASE v \in Leaves \cup {Undefined}
  BY <1>1, <1>4, LeafKinds DEF GetField, Data
<1> QED
  BY <1>2, <1>3, <1>4 DEF Data

\* A value that both sides found, or one that neither did.
Agree(a, b) ==
    /\ a \in Data
    /\ \/ b = a
       \/ a = Undefined /\ b = Leaf("raised")

LEMMA StepsAgree ==
  ASSUME NEW a, NEW b, Agree(a, b), NEW key, key \notin Methods
  PROVE  Agree(GetField(a, key), GetAttribute(b, key))
<1>1. a \in Data /\ GetField(a, key) \in Data
  BY DataKinds DEF Agree
<1>2. CASE a.kind = "undefined"
  <2>1. a = Undefined /\ b.kind \in {"undefined", "raised"}
    BY <1>1, <1>2, DataKinds, LeafKinds DEF Agree
  <2>2. GetField(a, key) = Undefined /\ GetAttribute(b, key) = Leaf("raised")
    BY <2>1, LeafKinds DEF GetField, GetAttribute
  <2> QED
    BY <1>1, <2>2 DEF Agree
<1>3. CASE a.kind # "undefined"
  <2>1. b = a
    BY <1>3, LeafKinds DEF Agree
  <2>2. a.kind \notin {"undefined", "raised"}
    BY <1>1, <1>3, DataKinds
  <2>3. GetAttribute(b, key) = GetField(a, key)
    BY <2>1, <2>2 DEF GetAttribute
  <2> QED
    BY <1>1, <2>3 DEF Agree
<1> QED
  BY <1>2, <1>3

LEMMA PathsAgree ==
  ASSUME NEW p \in Data, NEW path \in Paths, \A n \in DOMAIN path : path[n] \notin Methods
  PROVE  Agree(GetPath(p, path), LookUp(p, path))
<1> DEFINE N == Len(path)
<1>1. N \in Nat /\ DOMAIN path = 1..N
  <2>1. PICK n \in 1..MaxPath : path \in [1..n -> Fields]
    BY DEF Paths
  <2>2. n \in Nat
    BY PreviewAssumption
  <2>3. path \in Seq(Fields) /\ Len(path) = n
    BY <2>1, <2>2
  <2> QED
    BY <2>1, <2>2, <2>3
<1>2. PICK g : Along(p, path, N, g) /\ GetPath(p, path) = g[N]
  BY <1>1, PathUnfolds
<1>3. PICK h : JinjaAlong(p, path, N, h) /\ LookUp(p, path) = h[N]
  BY <1>1, PathUnfolds
<1> DEFINE Q == {n \in 0..N : ~Agree(g[n], h[n])}
<1>4. ASSUME Q # {} PROVE FALSE
  <2>1. PICK n \in Q : \A m \in 0..n - 1 : m \notin Q
    <3>1. Q \in SUBSET (0..N)
      OBVIOUS
    <3> HIDE DEF Q, N
    <3> QED
      BY <1>1, <1>4, <3>1, FirstStep
  <2>2. CASE n = 0
    <3>1. g[0] = p /\ h[0] = p
      BY <1>1, <1>2, <1>3 DEF Along, JinjaAlong
    <3> QED
      BY <2>1, <2>2, <3>1 DEF Agree
  <2>3. CASE n # 0
    <3>1. /\ n \in 0..N /\ n - 1 \in 0..N /\ n - 1 \in 0..n - 1 /\ n \in DOMAIN path
          /\ ~Agree(g[n], h[n])
      BY <1>1, <2>1, <2>3
    <3>2. Agree(g[n - 1], h[n - 1])
      BY <2>1, <3>1
    <3>3. g[n] = GetField(g[n - 1], path[n]) /\ h[n] = GetAttribute(h[n - 1], path[n])
      BY <1>2, <1>3, <2>3, <3>1 DEF Along, JinjaAlong
    <3> QED
      BY <3>1, <3>2, <3>3, StepsAgree
  <2> QED
    BY <2>2, <2>3
<1>5. N \in 0..N
  BY <1>1
<1> QED
  BY <1>2, <1>3, <1>4, <1>5

\* An expression that Jinja cannot render the preview cannot either; one that
\* the preview renders is rendered alike, unless JavaScript prints it its way.
LEMMA PiecesAgree ==
  ASSUME NEW p \in Payloads, NEW e \in Expressions, \A n \in DOMAIN e.path : e.path[n] \notin Methods
  PROVE  /\ JinjaPiece(p, e) = Error => PreviewPiece(p, e) = Error
         /\ JinjaPiece(p, e) # Error => JinjaPiece(p, e) \in Pieces
         /\ PreviewPiece(p, e) # Error /\ PreviewPiece(p, e)[1] # "js" =>
               JinjaPiece(p, e) = PreviewPiece(p, e)
<1> DEFINE a == GetPath(p, e.path)
           b == LookUp(p, e.path)
<1>1. Agree(a, b)
  BY PathsAgree DEF Expressions, Data
<1>2. a \in Data /\ a \in Values /\ b \in Values
  BY <1>1 DEF Agree, Data, Values
<1>3. \A t \in {"json", "text", "js", "python"} : <<t, a>> \in Pieces /\ <<t, b>> \in Pieces
  BY <1>2 DEF Pieces
<1>4. Error \notin Pieces
  BY PreviewAssumption
<1>5. CASE a.kind = "undefined"
  <2>1. PreviewPiece(p, e) = Error
    BY <1>5 DEF PreviewPiece
  <2>2. b.kind \in {"undefined", "raised"}
    BY <1>1, <1>2, <1>5, DataKinds, LeafKinds DEF Agree
  <2>3. JinjaPiece(p, e) = Error
    BY <2>2 DEF JinjaPiece
  <2> QED
    BY <2>1, <2>3
<1>6. CASE a.kind # "undefined"
  <2>1. b = a /\ a.kind \notin {"undefined", "raised", "method"}
    BY <1>1, <1>2, <1>6, DataKinds, LeafKinds DEF Agree
  <2>2. JinjaPiece(p, e) = IF e.tojson THEN <<"json", a>>
                           ELSE <<IF a.kind \in PlainKinds THEN "text" ELSE "python", a>>
    BY <2>1 DEF JinjaPiece
  <2>3. JinjaPiece(p, e) # Error
    BY <1>3, <1>4, <2>1, <2>2
  <2>4. PreviewPiece(p, e) # Error =>
          PreviewPiece(p, e) = IF e.tojson THEN <<"json", a>>
                               ELSE <<IF a.kind \in PlainKinds THEN "text" ELSE "js", a>>
    BY DEF PreviewPiece
  <2> HIDE DEF a, b
  <2> QED
    BY <1>3, <2>2, <2>3, <2>4
<1> QED
  BY <1>5, <1>6

-----------------------------------------------------------------------------
(* The bodies.                                                             *)

LEMMA BodiesAgree ==
  ASSUME NEW p \in Payloads, NEW t \in Templates, OnlyFields(t)
  PROVE  /\ JinjaBody(t, p) = Error => PreviewBody(t, p) = Error
         /\ PreviewBody(t, p) # Error =>
               /\ JinjaBody(t, p) # Error
               /\ \A i \in DOMAIN JinjaBody(t, p) :
                     PreviewBody(t, p)[i][1] # "js" => JinjaBody(t, p)[i] = PreviewBody(t, p)[i]
<1> DEFINE D      == DOMAIN t
           pre(i) == PreviewPiece(p, t[i])
           jin(i) == JinjaPiece(p, t[i])
<1>1. PICK n \in Nat : D = 1..n /\ \A i \in D : t[i] \in Expressions
  <2>1. PICK n \in 1..MaxParts : t \in [1..n -> Expressions]
    BY DEF Templates
  <2> QED
    BY <2>1, PreviewAssumption
<1>2. /\ PreviewBody(t, p) = IF \E i \in D : pre(i) = Error THEN Error ELSE [i \in D |-> pre(i)]
      /\ JinjaBody(t, p) = IF \E i \in D : jin(i) = Error THEN Error ELSE [i \in D |-> jin(i)]
  BY DEF PreviewBody, JinjaBody, Body
<1>3. ASSUME NEW i \in D
      PROVE  /\ jin(i) = Error => pre(i) = Error
             /\ jin(i) # Error => jin(i) \in Pieces
             /\ pre(i) # Error /\ pre(i)[1] # "js" => jin(i) = pre(i)
  <2>1. t[i] \in Expressions /\ \A k \in DOMAIN t[i].path : t[i].path[k] \notin Methods
    BY <1>1 DEF OnlyFields
  <2> QED
    BY <2>1, PiecesAgree
<1> HIDE DEF pre, jin, D
<1>4. ASSUME JinjaBody(t, p) = Error PROVE PreviewBody(t, p) = Error
  <2>1. PICK i \in D : jin(i) = Error
    <3> SUFFICES ASSUME \A i \in D : jin(i) # Error PROVE FALSE
      OBVIOUS
    <3> DEFINE body == [i \in D |-> jin(i)]
    <3>1. JinjaBody(t, p) = body
      BY <1>2
    <3>2. body \in [1..n -> Pieces]
      BY <1>1, <1>3
    <3> HIDE DEF body
    <3>3. body \in Seq(Pieces)
      BY <3>2
    <3> QED
      BY <1>4, <3>1, <3>3, PreviewAssumption
  <2> QED
    BY <1>2, <1>3, <2>1
<1>5. ASSUME PreviewBody(t, p) # Error
      PROVE  /\ JinjaBody(t, p) # Error
             /\ \A i \in DOMAIN JinjaBody(t, p) :
                   PreviewBody(t, p)[i][1] # "js" => JinjaBody(t, p)[i] = PreviewBody(t, p)[i]
  <2>1. \A i \in D : pre(i) # Error
    BY <1>2, <1>5
  <2>2. \A i \in D : jin(i) # Error
    BY <1>3, <2>1
  <2>3. /\ PreviewBody(t, p) = [i \in D |-> pre(i)]
        /\ JinjaBody(t, p) = [i \in D |-> jin(i)]
    BY <1>2, <2>1, <2>2
  <2>4. JinjaBody(t, p) # Error
    BY <1>4, <1>5
  <2> QED
    BY <1>3, <2>1, <2>3, <2>4
<1> QED
  BY <1>4, <1>5

-----------------------------------------------------------------------------
(* The inductive invariant: a stored row is the payload on screen, of a     *)
(* vendor that was chosen, and what was sent is what Jinja makes of it.     *)

Inv ==
    /\ registry \in Templates
    /\ chosen \in Templates \cup {None}
    /\ payload \in Payloads \cup {None}
    /\ row # None => row = payload /\ chosen # None
    /\ sent # None =>
          /\ row # None /\ sent.template \in Templates
          /\ sent.body = JinjaBody(sent.template, row)

LEMMA SamplesArePayloads == Samples \subseteq Payloads
<1> SUFFICES ASSUME NEW p \in Samples PROVE p \in Payloads
  OBVIOUS
<1> DEFINE V == Leaves \cup Objects(Leaves)
<1>1. PICK f \in [Fields -> Leaves] \cup [{} -> Leaves] : p = [kind |-> "object", of |-> f]
  BY DEF Samples
<1>2. PICK S \in SUBSET Fields : f \in [S -> V]
  <2>1. f \in [Fields -> V] \/ f \in [{} -> V]
    BY <1>1
  <2>2. Fields \in SUBSET Fields /\ {} \in SUBSET Fields
    OBVIOUS
  <2> HIDE DEF V
  <2> QED
    BY <2>1, <2>2
<1>3. f \in UNION {[T -> V] : T \in SUBSET Fields}
  <2> HIDE DEF V
  <2> QED
    BY <1>2
<1> HIDE DEF V
<1>4. p \in Objects(V)
  BY <1>1, <1>3 DEF Objects
<1> QED
  BY <1>4 DEF Payloads, V

LEMMA InitInv == Init => Inv
BY DEF Init, Inv

LEMMA StepKeepsInv == Inv /\ [Next]_vars => Inv'
<1> SUFFICES ASSUME Inv, [Next]_vars PROVE Inv'
  OBVIOUS
<1> USE DEF Inv
<1>1. CASE \E t \in Templates : Restart(t)
  BY <1>1 DEF Restart
<1>2. CASE Choose
  BY <1>2, SamplesArePayloads DEF Choose
<1>3. CASE \E p \in Payloads \cup {None} : Edit(p)
  BY <1>3 DEF Edit
<1>4. CASE Submit
  BY <1>4 DEF Submit
<1>5. CASE Dispatch
  BY <1>5 DEF Dispatch
<1>6. CASE UNCHANGED vars
  BY <1>6 DEF vars
<1> QED
  BY <1>1, <1>2, <1>3, <1>4, <1>5, <1>6 DEF Next

\* Every reachable state: the payload that was submitted is still the one
\* that is previewed, whatever the gateway is restarted with.
THEOREM InvCorrect == Spec => []Inv
BY InitInv, StepKeepsInv, PTL DEF Spec

\* What is on screen once the row has been sent.
LEMMA OnScreen ==
  ASSUME Inv, sent # None
  PROVE  /\ row \in Payloads /\ sent.template \in Templates
         /\ sent.body = JinjaBody(sent.template, row)
         /\ WizardShows = PreviewBody(chosen, row)
         /\ SheetShows = PreviewBody(registry, row)
BY DEF Inv, WizardShows, SheetShows

-----------------------------------------------------------------------------
(* What the run checks, for every value of the constants.                  *)

\* A notification the gateway cannot render (StrictUndefined) was shown as
\* one by the wizard's preview and is by the sheet's (renderTemplate), for
\* every template of fields and every payload.
THEOREM MissingIsShownCorrect == Spec => []MissingIsShown
<1>1. Inv => MissingIsShown
  <2> SUFFICES ASSUME Inv, sent # None, sent.body = Error, OnlyFields(sent.template)
               PROVE  /\ chosen = sent.template => WizardShows = Error
                      /\ registry = sent.template => SheetShows = Error
    BY DEF MissingIsShown
  <2>1. JinjaBody(sent.template, row) = Error => PreviewBody(sent.template, row) = Error
    BY OnScreen, BodiesAgree
  <2> QED
    BY <2>1, OnScreen
<1> QED
  BY <1>1, InvCorrect, PTL

\* The wizard's preview is what the gateway sends, field by field, but for
\* values that JavaScript and Python print differently.
THEOREM PreviewIsSentCorrect == Spec => []PreviewIsSent
<1>1. Inv => PreviewIsSent
  <2> SUFFICES ASSUME Inv, sent # None, chosen = sent.template, WizardShows # Error,
                      OnlyFields(sent.template)
               PROVE  /\ sent.body # Error
                      /\ \A i \in DOMAIN sent.body :
                            WizardShows[i][1] # "js" => sent.body[i] = WizardShows[i]
    BY DEF PreviewIsSent
  <2>1. row \in Payloads /\ sent.template \in Templates
        /\ sent.body = JinjaBody(sent.template, row)
        /\ WizardShows = PreviewBody(sent.template, row)
    BY OnScreen
  <2> QED
    BY <2>1, BodiesAgree
<1> QED
  BY <1>1, InvCorrect, PTL
=============================================================================
