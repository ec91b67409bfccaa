-------------------------- MODULE ApiParserProofs --------------------------
(***************************************************************************)
(* A parse that gives up has recorded an error, the brackets of a file     *)
(* that is accepted match, and every loop of the parser eats: for every    *)
(* file, whatever the tokens and the comments in it.                       *)
(*                                                                         *)
(* The stack of ApiParser is what the parser still has to do.  The proofs  *)
(* lay a path of places over it, one between two steps: which brackets are *)
(* open there, how many functions may be called before the next token, and *)
(* what is known of the tokens.  Each function keeps a contract, and its   *)
(* body is a path that keeps it.                                           *)
(***************************************************************************)
EXTENDS ApiParser, SequenceTheorems, FiniteSetTheorems, TLAPS

(***************************************************************************)
(* The invariant                                                           *)
(***************************************************************************)
Opens == {"(", "[", "{"}

Closes == {")", "]", "}"}

Signs == Opens \cup Closes

\* Tokens that are neither brackets nor the end of the file.
Plain(set) == \A k \in set : k \notin Signs /\ k # "EOF"

\* What is known at a place: "quiet", the current token is no bracket; "now",
\* the next step is ready (below); "rest", the loop over the items of a service
\* goes on.
Modes == {"any", "quiet", "now", "rest"}

Place == [open : Seq(Opens), cost : 0..MaxCalls, mode : Modes]

At(open, cost, mode) == [open |-> open, cost |-> cost, mode |-> mode]

End == At(<<>>, 0, "any")

(***************************************************************************)
(* The contracts of the functions: the calls they may need before a token  *)
(* is read, or until they return, and those that are left then.            *)
(***************************************************************************)
Cost(f) ==
    CASE f \in {"pairs", "import", "service", "serverPairs", "items", "doc", "path", "bodyRest", "types",
                "typeExprs", "dataType", "tag"} -> 2
      [] f \in {"stmt", "valuePath", "commas", "dashes", "itemsRest", "assign", "fields"} -> 3
      [] f \in {"parse", "valueDash", "valueRest", "serverValue", "itemRest", "routeEnd", "elem"} -> 4
      [] f \in {"response", "keyword"} -> 5
      [] f = "request" -> 6
      [] f \in {"segmentRest", "segments"} -> 7
      [] f = "pathItem" -> 8
      [] OTHER -> 1

After(f) ==
    CASE f = "tag" -> 1
      [] f \in {"pair", "serverPair", "serverValue", "valuePath", "commas", "dashes", "valueRest", "assign",
                "fields", "elem"} -> 2
      [] f \in {"valueDash", "item", "itemRest", "route", "request", "response", "routeEnd"} -> 3
      [] f \in {"stmt", "syntax", "info", "import", "importLiteral", "importGroup", "service", "types", "typeGroup",
                "typeExpr", "keyword", "dataType", "map", "pointer", "struct", "list"} -> 4
      [] f = "body" -> 5
      [] f \in {"path", "segment", "segmentRest", "segments"} -> 6
      [] f = "pathItem" -> 7
      [] OTHER -> 0

\* The functions that end where a service item ends.
ItemEnds == {"item", "itemRest", "route", "request", "response", "routeEnd"}

Functions ==
    {"parse", "stmt", "syntax", "info", "pairs", "pair", "import", "importLiteral", "importGroup", "imports", "service",
     "serviceName", "server", "serverPairs", "serverPair", "serverValue", "valueRest", "commas", "dashes", "valuePath",
     "valueDash", "items", "itemsRest", "doc", "docGroup", "docLiteral", "body", "bodyRest", "bodyElem", "path",
     "segment", "segmentRest", "segments", "pathItem", "types", "typeGroup", "typeExprs", "typeExpr", "assign",
     "keyword", "dataType", "map", "pointer", "list", "struct", "elems", "elem", "fields", "tag"} \cup ItemEnds

(***************************************************************************)
(* The steps between two places                                            *)
(***************************************************************************)
Eats(x, op, y) ==
    \/ y.mode \in {"any", "quiet", "rest"} /\ Plain(op.set) /\ y.open = x.open
    \/ y.mode \in {"any", "rest"} /\ \E b \in Opens : op.set = {b} /\ y.open = Append(x.open, b)
    \/ /\ y.mode \in {"any", "rest"} /\ op.unit # "item"
       /\ \E b \in Closes : op.set = {b} /\ x.open = Append(y.open, Opening[b])
    \/ y.mode \in {"any", "quiet", "rest"} /\ op.unit = "handler" /\ op.set = {"@handler", "}"} /\ y.open = x.open
    \/ y.mode \in {"any", "rest"} /\ x.mode = "now" /\ Plain(op.set \ {")"}) /\ y.open = x.open

Calls(x, op, y) ==
    /\ op.part \in Functions /\ op.unit # "item"
    /\ Cost(op.part) <= x.cost /\ y.cost <= After(op.part)
    /\ IF op.part = "list" THEN x.open = Append(y.open, "[") ELSE x.open = y.open
    /\ y.mode = IF op.part \in ItemEnds THEN "rest" ELSE "any"
    /\ op.part \in {"service", "types", "serverPair"} => x.mode = "now"
    /\ op.part \in {"elem", "itemRest"} => x.mode = "quiet"

Leads(x, op, y) ==
    /\ x.mode = "rest" => op = Call("itemsRest")
    /\ \/ op.op = "eat" /\ Eats(x, op, y)
       \/ op.op = "skip" /\ y.mode \in {"any", "quiet", "rest"} /\ Plain(op.set) /\ y.open = x.open
       \/ op.op \in {"next", "expect"} /\ y.mode \in {"any", "rest"} /\ y.open = x.open /\ y.cost <= x.cost
       \/ /\ op.op \in {"mark", "bare"} /\ x.mode \in {"now", "quiet"}
          /\ y.mode \in {"any", "rest"} /\ y.open = x.open /\ y.cost <= x.cost
       \/ op.op = "advance" /\ x.mode = "now" /\ y.mode = "rest" /\ y.open = x.open
       \/ op.op = "unexpected" /\ x.mode = "now" /\ y.mode # "now"
       \/ op.op \in {"reject", "panic"} /\ y.mode # "now"
       \/ op.op = "call" /\ Calls(x, op, y)

IsSeq(b) == b \in Seq({b[i] : i \in DOMAIN b})

\* The steps b lead from x to y.
Path(x, b, y) ==
    /\ x \in Place /\ y \in Place /\ IsSeq(b)
    /\ \E w \in [1..(Len(b) + 1) -> Place] :
          /\ w[1] = x /\ w[Len(b) + 1] = y
          /\ \A i \in 1..Len(b) : Leads(w[i], b[i], w[i + 1])

(***************************************************************************)
(* What the places say about a state                                       *)
(***************************************************************************)
Quiet == cur.k \notin Signs \/ BraceForHandler(tree)

Ready(op) ==
    CASE op.op = "unexpected" -> peek.k \notin op.set
      [] op.op = "advance" -> peek.k = ";"
      [] op.op = "eat" -> peek.k # ")"
      [] op.op = "call" /\ op.part = "serverPair" -> peek.k # ")"
      [] OTHER -> Quiet

Holds(m, steps) ==
    /\ m = "quiet" => Quiet
    /\ m = "now" => steps # <<>> /\ Ready(steps[1])

\* The brackets that are open behind the tokens t, as far as they match.
OpenIn(t, open) == open = OpenAfter(t) \/ BraceForHandler(t)

\* Where the parser stands.
Stands(x) ==
    /\ Path(x, stack, End)
    /\ OpenIn(tree, x.open)
    /\ calls + x.cost <= MaxCalls
    /\ Holds(x.mode, stack)

\* A scan failed and nobody looked: the loop over the items will.
Overlooked == peek.k = "error" /\ stack # <<>> /\ stack[1] \in {Call("itemsRest"), Expect(RouteNext)}

ParserInv ==
    /\ IsSeq(tree)
    /\ calls \in 0..MaxCalls /\ errors \in BOOLEAN
    /\ result = "none" => (\E x \in Place : Stands(x)) /\ (errors => Overlooked)
    /\ result = "nil" => errors
    /\ result = "ast" => ~errors /\ OpenIn(tree, <<>>)

(***************************************************************************)
(* Sequences                                                               *)
(***************************************************************************)
\* A sequence is one over its own elements.
LEMMA OwnElements ==
  ASSUME NEW S, NEW s \in Seq(S)
  PROVE  IsSeq(s) /\ Len(s) \in Nat /\ DOMAIN s = 1..Len(s)
<1> DEFINE E == {s[i] : i \in DOMAIN s}
<1>1. Len(s) \in Nat /\ DOMAIN s = 1..Len(s) /\ s \in [1..Len(s) -> S]
  BY LenProperties
<1>2. s = [i \in 1..Len(s) |-> s[i]] /\ \A i \in 1..Len(s) : s[i] \in E
  BY <1>1
<1> HIDE DEF E
<1>3. s \in [1..Len(s) -> E]
  BY <1>2
<1>4. s \in Seq(E)
  BY <1>1, <1>3
<1>5. QED
  BY <1>1, <1>4 DEF IsSeq, E

\* The first step and those behind it.
LEMMA FirstStep ==
  ASSUME NEW s, IsSeq(s), s # <<>>
  PROVE  /\ IsSeq(Tail(s)) /\ Len(s) \in Nat \ {0} /\ Len(Tail(s)) = Len(s) - 1
         /\ \A i \in 1..(Len(s) - 1) : Tail(s)[i] = s[i + 1]
<1> DEFINE E == {s[i] : i \in DOMAIN s}
<1>1. s \in Seq(E)
  BY DEF IsSeq
<1> HIDE DEF E
<1>2. Tail(s) \in Seq(E) /\ Len(Tail(s)) = Len(s) - 1 /\ Len(s) \in Nat \ {0}
      /\ \A i \in 1..Len(Tail(s)) : Tail(s)[i] = s[i + 1]
  BY <1>1, HeadTailProperties, EmptySeq
<1>3. QED
  BY <1>2, OwnElements

\* Two sequences, one behind the other.
LEMMA Joined ==
  ASSUME NEW s, NEW t, IsSeq(s), IsSeq(t)
  PROVE  /\ IsSeq(s \o t) /\ Len(s) \in Nat /\ Len(t) \in Nat /\ Len(s \o t) = Len(s) + Len(t)
         /\ \A i \in 1..(Len(s) + Len(t)) : (s \o t)[i] = IF i <= Len(s) THEN s[i] ELSE t[i - Len(s)]
<1> DEFINE A == {s[i] : i \in DOMAIN s}
           B == {t[i] : i \in DOMAIN t}
           C == A \cup B
<1>1. s \in Seq(A) /\ t \in Seq(B)
  BY DEF IsSeq
<1>2. A \subseteq C /\ B \subseteq C
  OBVIOUS
<1> HIDE DEF A, B, C
<1>3. s \in Seq(C) /\ t \in Seq(C)
  BY <1>1, <1>2, SeqMonotonic
<1>4. s \o t \in Seq(C)
  BY <1>3, ConcatProperties
<1>5. IsSeq(s \o t)
  BY <1>4, OwnElements
<1>6. QED
  BY <1>3, <1>5, ConcatProperties, LenProperties

\* One more element.
LEMMA Longer ==
  ASSUME NEW s, IsSeq(s), NEW e
  PROVE  /\ IsSeq(Append(s, e)) /\ Len(s) \in Nat /\ Len(Append(s, e)) = Len(s) + 1
         /\ DOMAIN s = 1..Len(s) /\ DOMAIN Append(s, e) = 1..(Len(s) + 1)
         /\ \A i \in 1..Len(s) : Append(s, e)[i] = s[i]
         /\ Append(s, e)[Len(s) + 1] = e
<1> DEFINE A == {s[i] : i \in DOMAIN s}
           C == A \cup {e}
<1>1. s \in Seq(A)
  BY DEF IsSeq
<1>2. A \subseteq C /\ e \in C
  OBVIOUS
<1> HIDE DEF A, C
<1>3. s \in Seq(C)
  BY <1>1, <1>2, SeqMonotonic
<1>4. Append(s, e) \in Seq(C)
  BY <1>2, <1>3, AppendProperties
<1>5. IsSeq(Append(s, e)) /\ Len(s) \in Nat /\ DOMAIN s = 1..Len(s) /\ DOMAIN Append(s, e) = 1..Len(Append(s, e))
  BY <1>3, <1>4, OwnElements
<1>6. /\ Len(Append(s, e)) = Len(s) + 1
      /\ \A i \in 1..Len(s) : Append(s, e)[i] = s[i]
      /\ Append(s, e)[Len(s) + 1] = e
  BY <1>2, <1>3, AppendProperties
<1>7. QED
  BY <1>5, <1>6

\* The empty sequence and the short ones.
LEMMA Short ==
  /\ IsSeq(<<>>) /\ Len(<<>>) = 0
  /\ \A a : IsSeq(<<a>>) /\ Len(<<a>>) = 1 /\ <<a>>[1] = a
<1>1. IsSeq(<<>>) /\ Len(<<>>) = 0
  BY EmptySeq, OwnElements
<1>2. ASSUME NEW a PROVE IsSeq(<<a>>) /\ Len(<<a>>) = 1 /\ <<a>>[1] = a
  <2>1. <<a>> \in Seq({a})
    OBVIOUS
  <2>2. QED
    BY <2>1, OwnElements
<1>3. QED
  BY <1>1, <1>2

(***************************************************************************)
(* Paths                                                                   *)
(***************************************************************************)
\* No steps lead nowhere else.
LEMMA PathNone ==
  ASSUME NEW x \in Place
  PROVE  Path(x, <<>>, x)
<1> DEFINE w == [i \in 1..1 |-> x]
<1>1. w \in [1..(Len(<<>>) + 1) -> Place] /\ w[1] = x /\ w[Len(<<>>) + 1] = x /\ 1..Len(<<>>) = {}
  BY Short
<1> HIDE DEF w
<1>2. QED
  BY <1>1, Short DEF Path

\* One step.
LEMMA PathOne ==
  ASSUME NEW x \in Place, NEW y \in Place, NEW a, Leads(x, a, y)
  PROVE  Path(x, <<a>>, y)
<1> DEFINE w == [i \in 1..2 |-> IF i = 1 THEN x ELSE y]
<1>1. w \in [1..(Len(<<a>>) + 1) -> Place] /\ w[1] = x /\ w[2] = y /\ Len(<<a>>) = 1 /\ <<a>>[1] = a
  BY Short
<1> HIDE DEF w
<1>2. \A i \in 1..Len(<<a>>) : Leads(w[i], <<a>>[i], w[i + 1])
  <2>1. 1 + 1 = 2 /\ \A i \in 1..Len(<<a>>) : i = 1
    BY <1>1
  <2>2. QED
    BY <1>1, <2>1
<1>3. QED
  BY <1>1, <1>2, Short DEF Path

\* Steps behind steps.
LEMMA PathJoin ==
  ASSUME NEW x, NEW y, NEW z, NEW s, NEW t, Path(x, s, y), Path(y, t, z)
  PROVE  Path(x, s \o t, z)
<1>1. IsSeq(s) /\ IsSeq(t) /\ x \in Place /\ y \in Place /\ z \in Place
  BY DEF Path
<1> DEFINE m == Len(s)
           n == Len(t)
<1>2. PICK v \in [1..(m + 1) -> Place] :
        v[1] = x /\ v[m + 1] = y /\ \A i \in 1..m : Leads(v[i], s[i], v[i + 1])
  BY DEF Path
<1>3. PICK w \in [1..(n + 1) -> Place] :
        w[1] = y /\ w[n + 1] = z /\ \A i \in 1..n : Leads(w[i], t[i], w[i + 1])
  BY DEF Path
<1>4. m \in Nat /\ n \in Nat /\ Len(s \o t) = m + n /\ IsSeq(s \o t)
      /\ \A i \in 1..(m + n) : (s \o t)[i] = IF i <= m THEN s[i] ELSE t[i - m]
  BY <1>1, Joined
<1> DEFINE u == [i \in 1..(m + n + 1) |-> IF i <= m THEN v[i] ELSE w[i - m]]
<1> HIDE DEF m, n
<1>5. u \in [1..(m + n + 1) -> Place]
  <2>1. ASSUME NEW i \in 1..(m + n + 1) PROVE (IF i <= m THEN v[i] ELSE w[i - m]) \in Place
    <3>1. CASE i <= m
      <4>1. i \in 1..(m + 1)
        BY <1>4, <3>1
      <4>2. QED
        BY <1>2, <3>1, <4>1
    <3>2. CASE ~(i <= m)
      <4>1. i - m \in 1..(n + 1)
        BY <1>4, <3>2
      <4>2. QED
        BY <1>3, <3>2, <4>1
    <3>3. QED
      BY <3>1, <3>2
  <2>2. QED
    BY <2>1
<1>6. u[1] = x /\ u[m + n + 1] = z
  <2>1. u[m + n + 1] = w[n + 1]
    BY <1>4
  <2>2. u[1] = x
    <3>1. CASE m = 0
      <4>1. u[1] = w[1] /\ v[1] = v[m + 1]
        BY <1>4, <3>1
      <4>2. QED
        BY <1>2, <1>3, <4>1
    <3>2. CASE m # 0
      <4>1. u[1] = v[1]
        BY <1>4, <3>2
      <4>2. QED
        BY <1>2, <4>1
    <3>3. QED
      BY <3>1, <3>2
  <2>3. QED
    BY <1>3, <2>1, <2>2
<1>7. ASSUME NEW i \in 1..(m + n) PROVE Leads(u[i], (s \o t)[i], u[i + 1])
  <2>1. CASE i <= m
    <3>1. i \in 1..m /\ u[i] = v[i] /\ (s \o t)[i] = s[i]
      BY <1>4, <2>1
    <3>2. u[i + 1] = v[i + 1]
      <4>1. CASE i = m
        <5>1. u[i + 1] = w[1] /\ v[i + 1] = v[m + 1]
          BY <1>4, <4>1
        <5>2. QED
          BY <1>2, <1>3, <5>1
      <4>2. CASE i # m
        BY <1>4, <2>1, <4>2
      <4>3. QED
        BY <4>1, <4>2
    <3>3. QED
      BY <1>2, <3>1, <3>2
  <2>2. CASE ~(i <= m)
    <3>1. i - m \in 1..n /\ i \in 1..(m + n + 1) /\ i + 1 \in 1..(m + n + 1) /\ ~(i + 1 <= m)
          /\ (i + 1) - m = (i - m) + 1
      BY <1>4, <2>2
    <3>2. u[i] = w[i - m] /\ u[i + 1] = w[(i - m) + 1]
      BY <2>2, <3>1
    <3>3. (s \o t)[i] = t[i - m]
      BY <1>4, <2>2
    <3>4. QED
      BY <1>3, <3>1, <3>2, <3>3
  <2>3. QED
    BY <2>1, <2>2
<1> HIDE DEF u
<1>8. QED
  BY <1>1, <1>4, <1>5, <1>6, <1>7 DEF Path

\* A step at the front.
LEMMA PathMore ==
  ASSUME NEW x \in Place, NEW m \in Place, NEW y, NEW a, NEW t, Leads(x, a, m), Path(m, t, y)
  PROVE  Path(x, <<a>> \o t, y)
BY PathOne, PathJoin

\* Nothing behind a step.
LEMMA PathStill ==
  ASSUME NEW x, NEW y, NEW e, Path(x, <<e>>, y)
  PROVE  Path(x, <<e>> \o <<>>, y)
<1>1. <<e>> \in Seq({e})
  OBVIOUS
<1>2. <<e>> \o <<>> = <<e>>
  BY <1>1, ConcatEmptySeq
<1>3. QED
  BY <1>2

\* The first step of a path, and the rest of it.
LEMMA PathPop ==
  ASSUME NEW x, NEW z, NEW s, s # <<>>, Path(x, s, z)
  PROVE  \E y \in Place : Leads(x, s[1], y) /\ Path(y, Tail(s), z)
<1>1. IsSeq(s) /\ z \in Place /\ x \in Place
  BY DEF Path
<1> DEFINE n == Len(s)
<1>2. PICK v \in [1..(n + 1) -> Place] :
        v[1] = x /\ v[n + 1] = z /\ \A i \in 1..n : Leads(v[i], s[i], v[i + 1])
  BY DEF Path
<1>3. n \in Nat \ {0} /\ IsSeq(Tail(s)) /\ Len(Tail(s)) = n - 1 /\ \A i \in 1..(n - 1) : Tail(s)[i] = s[i + 1]
  BY <1>1, FirstStep
<1> HIDE DEF n
<1> DEFINE w == [i \in 1..n |-> v[i + 1]]
<1>4. w \in [1..((n - 1) + 1) -> Place] /\ w[1] = v[2] /\ w[(n - 1) + 1] = z
  BY <1>2, <1>3
<1>5. ASSUME NEW i \in 1..(n - 1) PROVE Leads(w[i], Tail(s)[i], w[i + 1])
  <2>1. i + 1 \in 1..n /\ w[i] = v[i + 1] /\ w[i + 1] = v[(i + 1) + 1] /\ Tail(s)[i] = s[i + 1]
    BY <1>3
  <2>2. QED
    BY <1>2, <2>1
<1>6. v[2] \in Place /\ Leads(x, s[1], v[2])
  <2>1. 1 \in 1..n /\ 2 \in 1..(n + 1) /\ 1 + 1 = 2
    BY <1>3
  <2>2. QED
    BY <1>2, <2>1
<1> HIDE DEF w
<1>7. Path(v[2], Tail(s), z)
  BY <1>1, <1>3, <1>4, <1>5, <1>6 DEF Path
<1>8. QED
  BY <1>6, <1>7

\* Where there is nothing to do the path has ended.
LEMMA PathEnds ==
  ASSUME NEW x, NEW y, Path(x, <<>>, y)
  PROVE  x = y
BY Short DEF Path

\* A sequence is its first element and the others.
LEMMA Prefixed ==
  ASSUME NEW a, NEW t, NEW s, IsSeq(t), IsSeq(s), Len(s) = Len(t) + 1, s[1] = a,
         \A i \in 1..Len(t) : s[i + 1] = t[i]
  PROVE  <<a>> \o t = s
<1> DEFINE S == {s[i] : i \in DOMAIN s}
           u == <<a>> \o t
           U == {u[i] : i \in DOMAIN u}
<1>1. IsSeq(u) /\ Len(u) = 1 + Len(t) /\ Len(t) \in Nat
      /\ \A i \in 1..(1 + Len(t)) : u[i] = IF i <= 1 THEN <<a>>[1] ELSE t[i - 1]
  BY Short, Joined
<1>2. s \in Seq(S) /\ u \in Seq(U)
  BY <1>1 DEF IsSeq
<1> HIDE DEF S, U, u
<1>3. s \in Seq(S \cup U) /\ u \in Seq(S \cup U)
  <2>1. S \subseteq S \cup U /\ U \subseteq S \cup U
    OBVIOUS
  <2>2. QED
    BY <1>2, <2>1, SeqMonotonic
<1>4. Len(u) = Len(s)
  BY <1>1
<1>5. ASSUME NEW i \in 1..Len(u) PROVE u[i] = s[i]
  <2>1. CASE i = 1
    <3>1. u[1] = <<a>>[1]
      BY <1>1
    <3>2. QED
      BY <2>1, <3>1
  <2>2. CASE i # 1
    <3>1. i - 1 \in 1..Len(t) /\ (i - 1) + 1 = i /\ ~(i <= 1) /\ i \in 1..(1 + Len(t))
      BY <1>1, <2>2
    <3>2. u[i] = t[i - 1] /\ s[(i - 1) + 1] = t[i - 1]
      BY <1>1, <3>1
    <3>3. QED
      BY <3>1, <3>2
  <2>3. QED
    BY <2>1, <2>2
<1>6. u = s
  BY <1>3, <1>4, <1>5, SeqEqual
<1>7. QED
  BY <1>6 DEF u

\* Two steps.
LEMMA PathTwo ==
  ASSUME NEW x \in Place, NEW m1 \in Place, NEW y \in Place, NEW a, NEW b,
         Leads(x, a, m1), Leads(m1, b, y)
  PROVE  Path(x, <<a, b>>, y)
<1>1. Path(m1, <<b>>, y)
  BY PathOne
<1>2. <<a, b>> \in Seq({a, b}) /\ <<b>> \in Seq({b})
  OBVIOUS
<1>3. /\ Len(<<a, b>>) = Len(<<b>>) + 1 /\ <<a, b>>[1] = a
      /\ \A i \in 1..Len(<<b>>) : <<a, b>>[i + 1] = <<b>>[i]
  OBVIOUS
<1>4. <<a>> \o <<b>> = <<a, b>>
  BY <1>2, <1>3, OwnElements, Prefixed
<1>5. Path(x, <<a>> \o <<b>>, y)
  BY <1>1, PathMore
<1>6. QED
  BY <1>4, <1>5

\* Three steps.
LEMMA PathThree ==
  ASSUME NEW x \in Place, NEW m1 \in Place, NEW m2 \in Place, NEW y \in Place, NEW a, NEW b, NEW c,
         Leads(x, a, m1), Leads(m1, b, m2), Leads(m2, c, y)
  PROVE  Path(x, <<a, b, c>>, y)
<1>1. Path(m1, <<b, c>>, y)
  BY PathTwo
<1>2. <<a, b, c>> \in Seq({a, b, c}) /\ <<b, c>> \in Seq({b, c})
  OBVIOUS
<1>3. /\ Len(<<a, b, c>>) = Len(<<b, c>>) + 1 /\ <<a, b, c>>[1] = a
      /\ \A i \in 1..Len(<<b, c>>) : <<a, b, c>>[i + 1] = <<b, c>>[i]
  OBVIOUS
<1>4. <<a>> \o <<b, c>> = <<a, b, c>>
  BY <1>2, <1>3, OwnElements, Prefixed
<1>5. Path(x, <<a>> \o <<b, c>>, y)
  BY <1>1, PathMore
<1>6. QED
  BY <1>4, <1>5

\* Four steps.
LEMMA PathFour ==
  ASSUME NEW x \in Place, NEW m1 \in Place, NEW m2 \in Place, NEW m3 \in Place, NEW y \in Place, NEW a, NEW b,
         NEW c, NEW d,
         Leads(x, a, m1), Leads(m1, b, m2), Leads(m2, c, m3), Leads(m3, d, y)
  PROVE  Path(x, <<a, b, c, d>>, y)
<1>1. Path(m1, <<b, c, d>>, y)
  BY PathThree
<1>2. <<a, b, c, d>> \in Seq({a, b, c, d}) /\ <<b, c, d>> \in Seq({b, c, d})
  OBVIOUS
<1>3. /\ Len(<<a, b, c, d>>) = Len(<<b, c, d>>) + 1 /\ <<a, b, c, d>>[1] = a
      /\ \A i \in 1..Len(<<b, c, d>>) : <<a, b, c, d>>[i + 1] = <<b, c, d>>[i]
  OBVIOUS
<1>4. <<a>> \o <<b, c, d>> = <<a, b, c, d>>
  BY <1>2, <1>3, OwnElements, Prefixed
<1>5. Path(x, <<a>> \o <<b, c, d>>, y)
  BY <1>1, PathMore
<1>6. QED
  BY <1>4, <1>5

\* Five steps.
LEMMA PathFive ==
  ASSUME NEW x \in Place, NEW m1 \in Place, NEW m2 \in Place, NEW m3 \in Place, NEW m4 \in Place, NEW y \in Place,
         NEW a, NEW b, NEW c, NEW d, NEW e,
         Leads(x, a, m1), Leads(m1, b, m2), Leads(m2, c, m3), Leads(m3, d, m4), Leads(m4, e, y)
  PROVE  Path(x, <<a, b, c, d, e>>, y)
<1>1. Path(m1, <<b, c, d, e>>, y)
  BY PathFour
<1>2. <<a, b, c, d, e>> \in Seq({a, b, c, d, e}) /\ <<b, c, d, e>> \in Seq({b, c, d, e})
  OBVIOUS
<1>3. /\ Len(<<a, b, c, d, e>>) = Len(<<b, c, d, e>>) + 1 /\ <<a, b, c, d, e>>[1] = a
      /\ \A i \in 1..Len(<<b, c, d, e>>) : <<a, b, c, d, e>>[i + 1] = <<b, c, d, e>>[i]
  OBVIOUS
<1>4. <<a>> \o <<b, c, d, e>> = <<a, b, c, d, e>>
  BY <1>2, <1>3, OwnElements, Prefixed
<1>5. Path(x, <<a>> \o <<b, c, d, e>>, y)
  BY <1>1, PathMore
<1>6. QED
  BY <1>4, <1>5

\* Six steps.
LEMMA PathSix ==
  ASSUME NEW x \in Place, NEW m1 \in Place, NEW m2 \in Place, NEW m3 \in Place, NEW m4 \in Place, NEW m5 \in Place,
         NEW y \in Place, NEW a, NEW b, NEW c, NEW d, NEW e, NEW f,
         Leads(x, a, m1), Leads(m1, b, m2), Leads(m2, c, m3), Leads(m3, d, m4), Leads(m4, e, m5), Leads(m5, f, y)
  PROVE  Path(x, <<a, b, c, d, e, f>>, y)
<1>1. Path(m1, <<b, c, d, e, f>>, y)
  BY PathFive
<1>2. <<a, b, c, d, e, f>> \in Seq({a, b, c, d, e, f}) /\ <<b, c, d, e, f>> \in Seq({b, c, d, e, f})
  OBVIOUS
<1>3. /\ Len(<<a, b, c, d, e, f>>) = Len(<<b, c, d, e, f>>) + 1 /\ <<a, b, c, d, e, f>>[1] = a
      /\ \A i \in 1..Len(<<b, c, d, e, f>>) : <<a, b, c, d, e, f>>[i + 1] = <<b, c, d, e, f>>[i]
  OBVIOUS
<1>4. <<a>> \o <<b, c, d, e, f>> = <<a, b, c, d, e, f>>
  BY <1>2, <1>3, OwnElements, Prefixed
<1>5. Path(x, <<a>> \o <<b, c, d, e, f>>, y)
  BY <1>1, PathMore
<1>6. QED
  BY <1>4, <1>5

(***************************************************************************)
(* Numbers and iteration                                                   *)
(***************************************************************************)
\* A set of numbers that is not empty has a least one.
LEMMA LeastOfSome ==
  ASSUME NEW S, S \subseteq Nat, S # {}
  PROVE  \E i \in S : \A j \in S : i <= j
<1> DEFINE Up == {1..i : i \in S}
           Below == StrictSubsetOrdering(Nat)
<1>1. IsWellFoundedOn(Below, FiniteSubsetsOf(Nat))
  BY FS_StrictSubsetOrderingWellFounded
<1>2. Up \subseteq FiniteSubsetsOf(Nat) /\ Up # {}
  <2>1. \A i \in S : 1..i \in SUBSET Nat /\ IsFiniteSet(1..i)
    BY FS_Interval
  <2>2. QED
    BY <2>1 DEF FiniteSubsetsOf
<1>3. PICK u \in Up : \A v \in Up : ~(<<v, u>> \in Below)
  <2> HIDE DEF Up, Below
  <2>1. QED
    BY <1>1, <1>2, WFMin
<1>4. PICK i \in S : u = 1..i
  BY <1>3
<1>5. ASSUME NEW j \in S, j < i PROVE FALSE
  <2>1. 1..j \subseteq 1..i /\ i \in 1..i /\ i \notin 1..j
    BY <1>5
  <2>2. <<1..j, u>> \in Below
    BY <1>4, <2>1 DEF StrictSubsetOrdering
  <2>3. QED
    BY <1>3, <2>2
<1>6. QED
  BY <1>5

\* Induction over the numbers, for a set of them.
LEMMA SetInduction ==
    ASSUME NEW S, 0 \in S, \A n \in Nat : n \in S => n + 1 \in S
    PROVE  Nat \subseteq S
<1> SUFFICES ASSUME Nat \ S # {} PROVE FALSE
  OBVIOUS
<1>1. PICK m \in Nat \ S : \A n \in Nat \ S : m <= n
  BY LeastOfSome
<1>2. m # 0 /\ m - 1 \in Nat /\ (m - 1) + 1 = m
  BY <1>1
<1>3. m - 1 \in S
  BY <1>1, <1>2
<1> QED
  BY <1>1, <1>2, <1>3

\* f is the loop over lo..hi that starts with base and takes a step at each place.
Loop(f, lo, hi, base, step) ==
  f = [i \in lo..hi |-> IF i = lo THEN base ELSE step[<<i, f[i - 1]>>]]

\* A loop over an interval computes a function of it.
LEMMA Iterates ==
  ASSUME NEW lo \in Nat, NEW hi \in Nat, lo <= hi, NEW T, NEW base \in T, NEW step \in [Nat \X T -> T]
  PROVE  \E f \in [lo..hi -> T] : Loop(f, lo, hi, base, step)
<1> DEFINE Good == {n \in Nat : \E f \in [lo..(lo + n) -> T] : Loop(f, lo, lo + n, base, step)}
<1>1. 0 \in Good
  <2>1. lo..(lo + 0) = {lo} /\ lo + 0 = lo
    OBVIOUS
  <2>2. Loop([i \in {lo} |-> base], lo, lo + 0, base, step) /\ [i \in {lo} |-> base] \in [{lo} -> T]
    BY <2>1 DEF Loop
  <2>3. QED
    BY <2>1, <2>2
<1>2. ASSUME NEW n \in Nat, n \in Good PROVE n + 1 \in Good
  <2>1. PICK f \in [lo..(lo + n) -> T] : Loop(f, lo, lo + n, base, step)
    BY <1>2
  <2> DEFINE m == lo + n + 1
             last == step[<<m, f[lo + n]>>]
             g == [i \in lo..m |-> IF i = m THEN last ELSE f[i]]
  <2>2. m \in Nat /\ m # lo /\ m = lo + (n + 1) /\ m - 1 = lo + n /\ lo + n \in lo..(lo + n)
    OBVIOUS
  <2>3. last \in T
    BY <2>2
  <2>4. \A i \in lo..m : i = m \/ i \in lo..(lo + n)
    OBVIOUS
  <2> HIDE DEF last
  <2>5. g \in [lo..m -> T]
    BY <2>3, <2>4
  <2>6. ASSUME NEW i \in lo..m
        PROVE  g[i] = IF i = lo THEN base ELSE step[<<i, g[i - 1]>>]
    <3>1. CASE i = m
      <4>1. g[i] = last /\ g[i - 1] = f[lo + n]
        BY <2>2, <3>1
      <4>2. QED
        BY <2>2, <3>1, <4>1 DEF last
    <3>2. CASE i = lo
      BY <2>1, <2>2, <2>4, <3>2 DEF Loop
    <3>3. CASE i # m /\ i # lo
      <4>1. i \in lo..(lo + n) /\ i - 1 \in lo..m /\ i - 1 # m
        BY <3>3
      <4>2. f[i] = step[<<i, f[i - 1]>>]
        BY <2>1, <3>3, <4>1 DEF Loop
      <4>3. g[i] = f[i] /\ g[i - 1] = f[i - 1]
        BY <3>3, <4>1
      <4>4. QED
        BY <3>3, <4>2, <4>3
    <3>4. QED
      BY <3>1, <3>2, <3>3
  <2>7. g = [i \in lo..m |-> IF i = lo THEN base ELSE step[<<i, g[i - 1]>>]]
    <3>1. g = [i \in lo..m |-> g[i]]
      OBVIOUS
    <3> HIDE DEF g
    <3>2. QED
      BY <2>6, <3>1
  <2> HIDE DEF g
  <2>8. g \in [lo..(lo + (n + 1)) -> T] /\ Loop(g, lo, lo + (n + 1), base, step)
    <3> HIDE DEF m
    <3>1. QED
      BY <2>2, <2>5, <2>7 DEF Loop
  <2>9. QED
    BY <2>8
<1>3. hi - lo \in Good
  <2> HIDE DEF Good
  <2>1. QED
    BY <1>1, <1>2, SetInduction
<1>4. QED
  BY <1>3

(***************************************************************************)
(* The brackets of a tree                                                  *)
(***************************************************************************)
\* A token opens, closes or leaves what is open; open brackets are signs.
LEMMA BracketsType ==
  ASSUME NEW o \in Seq(Signs), NEW n
  PROVE  Brackets(o, n) \in Seq(Signs)
<1>1. CASE n.k \in Opens
  <2>1. n.k \in Signs
    BY <1>1 DEF Signs
  <2>2. Append(o, n.k) \in Seq(Signs)
    BY <2>1, AppendProperties
  <2>3. QED
    BY <1>1, <2>2 DEF Brackets, Opens
<1>2. CASE n.k \notin Opens /\ (n.k \notin DOMAIN Opening \/ n.unit = "item")
  BY <1>2 DEF Brackets, Opens
<1>3. CASE n.k \notin Opens /\ n.k \in DOMAIN Opening /\ n.unit # "item"
  <2>1. n.k \in Signs
    BY <1>3 DEF Signs, Closes, Opening
  <2>2. Append(o, n.k) \in Seq(Signs)
    BY <2>1, AppendProperties
  <2>3. CASE o # <<>> /\ o[Len(o)] = Opening[n.k]
    <3>1. Len(o) \in Nat \ {0}
      BY <2>3, EmptySeq
    <3>2. \A i \in 1..(Len(o) - 1) : o[i] \in Signs
      BY <3>1, ElementOfSeq
    <3>3. SubSeq(o, 1, Len(o) - 1) \in Seq(Signs)
      BY <3>1, <3>2, SubSeqProperties
    <3>4. QED
      BY <1>3, <2>3, <3>3 DEF Brackets, Opens
  <2>4. CASE ~(o # <<>> /\ o[Len(o)] = Opening[n.k])
    BY <1>3, <2>2, <2>4 DEF Brackets, Opens
  <2>5. QED
    BY <2>3, <2>4
<1>4. QED
  BY <1>1, <1>2, <1>3

Reading(f, t) == f = [i \in 0..Len(t) |-> IF i = 0 THEN <<>> ELSE Brackets(f[i - 1], t[i])]

\* What is open can be told token by token.
LEMMA ReadingExists ==
  ASSUME NEW t, IsSeq(t)
  PROVE  \E f \in [0..Len(t) -> Seq(Signs)] : Reading(f, t)
<1> DEFINE T == Seq(Signs)
           step == [p \in Nat \X T |-> Brackets(p[2], t[p[1]])]
<1>1. Len(t) \in Nat /\ 0 <= Len(t) /\ <<>> \in T
  BY LenProperties, EmptySeq DEF IsSeq
<1>2. step \in [Nat \X T -> T]
  <2>1. ASSUME NEW p \in Nat \X T PROVE Brackets(p[2], t[p[1]]) \in T
    BY BracketsType
  <2>2. QED
    BY <2>1
<1>3. PICK f \in [0..Len(t) -> T] : Loop(f, 0, Len(t), <<>>, step)
  <2> HIDE DEF T, step
  <2>1. QED
    BY <1>1, <1>2, Iterates
<1>4. ASSUME NEW i \in 0..Len(t), i # 0 PROVE step[<<i, f[i - 1]>>] = Brackets(f[i - 1], t[i])
  <2>1. i \in Nat /\ i - 1 \in 0..Len(t)
    BY <1>1, <1>4
  <2>2. f[i - 1] \in T
    BY <1>3, <2>1
  <2>3. QED
    BY <2>1, <2>2
<1>5. Reading(f, t)
  <2> HIDE DEF step, T
  <2>1. QED
    BY <1>3, <1>4 DEF Loop, Reading
<1>6. QED
  BY <1>3, <1>5

\* There is one way to do so.
LEMMA ReadingAgrees ==
  ASSUME NEW s, NEW t, NEW f, NEW g, Len(s) \in Nat, Len(t) \in Nat, Len(s) <= Len(t),
         \A i \in 1..Len(s) : t[i] = s[i], Reading(f, s), Reading(g, t)
  PROVE  g[Len(s)] = f[Len(s)]
<1> DEFINE Good == {n \in Nat : n <= Len(s) => g[n] = f[n]}
<1>1. 0 \in Good
  <2>1. 0 \in 0..Len(s) /\ 0 \in 0..Len(t)
    OBVIOUS
  <2>2. f[0] = <<>> /\ g[0] = <<>>
    BY <2>1 DEF Reading
  <2>3. QED
    BY <2>2
<1>2. ASSUME NEW n \in Nat, n \in Good PROVE n + 1 \in Good
  <2> SUFFICES ASSUME n + 1 <= Len(s) PROVE g[n + 1] = f[n + 1]
    OBVIOUS
  <2>1. n + 1 \in 0..Len(s) /\ n + 1 \in 0..Len(t) /\ n + 1 # 0 /\ (n + 1) - 1 = n /\ n <= Len(s)
    OBVIOUS
  <2>2. f[n + 1] = Brackets(f[n], s[n + 1]) /\ g[n + 1] = Brackets(g[n], t[n + 1])
    BY <2>1 DEF Reading
  <2>3. g[n] = f[n] /\ t[n + 1] = s[n + 1]
    BY <1>2, <2>1
  <2>4. QED
    BY <2>2, <2>3
<1>3. Len(s) \in Good
  <2> HIDE DEF Good
  <2>1. QED
    BY <1>1, <1>2, SetInduction
<1>4. QED
  BY <1>3

\* OpenAfter is what is open behind the last token.
LEMMA OpenIsRead ==
  ASSUME NEW t, IsSeq(t)
  PROVE  \E f : Reading(f, t) /\ OpenAfter(t) = f[Len(t)]
<1> DEFINE chosen == CHOOSE f : f = [i \in 0..Len(t) |-> IF i = 0 THEN <<>> ELSE Brackets(f[i - 1], t[i])]
<1>1. \E f : f = [i \in 0..Len(t) |-> IF i = 0 THEN <<>> ELSE Brackets(f[i - 1], t[i])]
  BY ReadingExists DEF Reading
<1>2. chosen = [i \in 0..Len(t) |-> IF i = 0 THEN <<>> ELSE Brackets(chosen[i - 1], t[i])]
  BY <1>1
<1>3. OpenAfter(t) = chosen[Len(t)]
  BY DEF OpenAfter
<1> HIDE DEF chosen
<1>4. QED
  BY <1>2, <1>3 DEF Reading

\* Nothing is open where nothing was read, and each token adds what it does.
LEMMA OpenSteps ==
  /\ OpenAfter(<<>>) = <<>>
  /\ \A t : IsSeq(t) => \A n : OpenAfter(Append(t, n)) = Brackets(OpenAfter(t), n)
<1>1. OpenAfter(<<>>) = <<>>
  <2>1. PICK f : Reading(f, <<>>) /\ OpenAfter(<<>>) = f[Len(<<>>)]
    BY OpenIsRead, Short
  <2>2. 0 \in 0..Len(<<>>) /\ Len(<<>>) = 0
    BY Short
  <2>3. QED
    BY <2>1, <2>2 DEF Reading
<1>2. ASSUME NEW t, IsSeq(t), NEW n PROVE OpenAfter(Append(t, n)) = Brackets(OpenAfter(t), n)
  <2> DEFINE s == Append(t, n)
             m == Len(t)
  <2>1. IsSeq(s) /\ m \in Nat /\ Len(s) = m + 1 /\ (\A i \in 1..m : s[i] = t[i]) /\ s[m + 1] = n
    BY <1>2, Longer
  <2> HIDE DEF s
  <2>2. PICK f : Reading(f, t) /\ OpenAfter(t) = f[m]
    BY <1>2, OpenIsRead
  <2>3. PICK g : Reading(g, s) /\ OpenAfter(s) = g[m + 1]
    BY <2>1, OpenIsRead
  <2>4. m <= Len(s) /\ Len(s) \in Nat
    BY <2>1
  <2>5. g[m] = f[m]
    BY <2>1, <2>2, <2>3, <2>4, ReadingAgrees
  <2> HIDE DEF m
  <2>6. m + 1 \in 0..Len(s) /\ m + 1 # 0 /\ (m + 1) - 1 = m
    BY <2>1
  <2>7. g[m + 1] = Brackets(g[m], s[m + 1])
    BY <2>3, <2>6 DEF Reading
  <2>8. OpenAfter(s) = Brackets(OpenAfter(t), n)
    BY <2>1, <2>2, <2>3, <2>5, <2>7
  <2>9. QED
    BY <2>8 DEF s
<1>3. QED
  BY <1>1, <1>2

\* What a token does to the brackets that are open.
LEMMA TokenOpens ==
  ASSUME NEW o \in Seq(Opens), NEW n
  PROVE  /\ n.k \notin Signs => Brackets(o, n) = o
         /\ n.unit = "item" /\ n.k \notin Opens => Brackets(o, n) = o
         /\ n.k \in Opens => Brackets(o, n) = Append(o, n.k)
         /\ \A b \in Closes : n.k = b /\ n.unit # "item" => Brackets(Append(o, Opening[b]), n) = o
<1>1. n.k \notin Signs => Brackets(o, n) = o
  BY DEF Brackets, Signs, Opens, Closes, Opening
<1>2. n.unit = "item" /\ n.k \notin Opens => Brackets(o, n) = o
  BY DEF Brackets, Opens
<1>3. n.k \in Opens => Brackets(o, n) = Append(o, n.k)
  BY DEF Brackets, Opens
<1>4. ASSUME NEW b \in Closes, n.k = b, n.unit # "item" PROVE Brackets(Append(o, Opening[b]), n) = o
  <2> DEFINE s == Append(o, Opening[b])
  <2>1. Opening[b] \in Opens /\ b \in DOMAIN Opening /\ b \notin Opens
    BY DEF Closes, Opening, Opens
  <2>2. /\ s \in Seq(Opens) /\ s # <<>> /\ Len(s) = Len(o) + 1 /\ Len(o) \in Nat
        /\ s[Len(o) + 1] = Opening[b] /\ \A i \in 1..Len(o) : s[i] = o[i]
    BY <2>1, AppendProperties, LenProperties
  <2> HIDE DEF s
  <2>3. Brackets(s, n) = SubSeq(s, 1, Len(s) - 1)
    BY <1>4, <2>1, <2>2 DEF Brackets, Opens
  <2>4. Len(s) - 1 = Len(o) /\ \A i \in 1..Len(o) : s[i] \in Opens
    BY <2>2, ElementOfSeq
  <2>5. SubSeq(s, 1, Len(o)) \in Seq(Opens) /\ Len(SubSeq(s, 1, Len(o))) = Len(o)
        /\ \A i \in 1..Len(o) : SubSeq(s, 1, Len(o))[i] = s[i]
    <3>1. /\ SubSeq(s, 1, Len(o)) \in Seq(Opens)
          /\ Len(SubSeq(s, 1, Len(o))) = IF 1 <= Len(o) THEN Len(o) - 1 + 1 ELSE 0
          /\ \A i \in 1..(Len(o) - 1 + 1) : SubSeq(s, 1, Len(o))[i] = s[1 + i - 1]
      BY <2>2, <2>4, SubSeqProperties
    <3>2. Len(o) - 1 + 1 = Len(o) /\ \A i \in 1..Len(o) : 1 + i - 1 = i
      BY <2>2
    <3>3. Len(SubSeq(s, 1, Len(o))) = Len(o)
      BY <2>2, <3>1
    <3>4. QED
      BY <3>1, <3>2, <3>3
  <2>6. SubSeq(s, 1, Len(o)) = o
    BY <2>2, <2>5, SeqEqual
  <2>7. QED
    BY <2>3, <2>4, <2>6 DEF s
<1>5. QED
  BY <1>1, <1>2, <1>3, <1>4

(***************************************************************************)
(* The steps, one kind at a time                                           *)
(***************************************************************************)
\* The sets of tokens that hold no bracket and no end of the file.
LEMMA PlainSets ==
  /\ Plain(Idents) /\ Plain(Str) /\ Plain(Str \cup {"raw"} \cup Idents) /\ Plain({"int"} \cup Idents)
  /\ Plain({"*"} \cup Idents) /\ Plain({"int", "..."}) /\ Plain((Idents \cup {")"}) \ {")"})
  /\ \A k : k \notin Signs \cup {"EOF"} => Plain({k})
BY DEF Plain, Idents, Keywords, Str, Signs, Opens, Closes

\* The tokens that are eaten alone are no brackets.
LEMMA PlainKinds ==
  \A k \in {"=", ":", "-", "api", ",", "/", "@doc", "get", "returns", "*", "any", "any{}", "map", "raw", "service",
            "duration", "int", "."} \cup Str : Plain({k})
BY DEF Plain, Str, Signs, Opens, Closes

\* A place is what it is put together from.
LEMMA PlaceFacts ==
  ASSUME NEW o \in Seq(Opens), NEW c \in 0..MaxCalls, NEW m \in Modes
  PROVE  /\ At(o, c, m) \in Place
         /\ At(o, c, m).open = o /\ At(o, c, m).cost = c /\ At(o, c, m).mode = m
BY DEF At, Place

\* What a place consists of.
LEMMA PlaceType ==
  ASSUME NEW x \in Place
  PROVE  x.open \in Seq(Opens) /\ x.cost \in 0..MaxCalls /\ x.mode \in Modes
BY DEF Place

\* Opened is where one more bracket is open.
LEMMA Opened ==
  ASSUME NEW o \in Seq(Opens), NEW b \in Opens
  PROVE  Append(o, b) \in Seq(Opens)
BY AppendProperties

\* A token that is no bracket.
LEMMA EatLeads ==
  ASSUME NEW x, NEW y, NEW set, NEW unit, NEW part, NEW at, x.mode # "rest",
         y.mode \in {"any", "quiet", "rest"}, y.open = x.open, Plain(set)
  PROVE  Leads(x, Op("eat", set, unit, part, at), y)
BY DEF Leads, Eats, Op

\* A bracket that opens.
LEMMA OpenLeads ==
  ASSUME NEW x, NEW y, NEW b \in Opens, NEW unit, NEW part, NEW at, x.mode # "rest",
         y.mode \in {"any", "rest"}, y.open = Append(x.open, b)
  PROVE  Leads(x, Op("eat", {b}, unit, part, at), y)
BY DEF Leads, Eats, Op

\* A bracket that closes.
LEMMA CloseLeads ==
  ASSUME NEW x, NEW y, NEW b \in Closes, NEW unit, NEW part, NEW at, x.mode # "rest",
         y.mode \in {"any", "rest"}, x.open = Append(y.open, Opening[b]), unit # "item"
  PROVE  Leads(x, Op("eat", {b}, unit, part, at), y)
BY DEF Leads, Eats, Op

\* The @handler, or the brace that stands for it.
LEMMA HandlerLeads ==
  ASSUME NEW x, NEW y, NEW part, NEW at, x.mode # "rest", y.mode \in {"any", "quiet", "rest"}, y.open = x.open
  PROVE  Leads(x, Op("eat", {"@handler", "}"}, "handler", part, at), y)
BY DEF Leads, Eats, Op

\* A key, where no parenthesis is ahead.
LEMMA KeyLeads ==
  ASSUME NEW x, NEW y, NEW set, NEW unit, NEW part, NEW at, x.mode = "now", y.mode \in {"any", "rest"},
         y.open = x.open, Plain(set \ {")"})
  PROVE  Leads(x, Op("eat", set, unit, part, at), y)
BY DEF Leads, Eats, Op

\* A token whose place in the tree is not known yet.
LEMMA SkipLeads ==
  ASSUME NEW x, NEW y, NEW set, NEW unit, NEW part, NEW at, x.mode # "rest",
         y.mode \in {"any", "quiet", "rest"}, y.open = x.open, Plain(set)
  PROVE  Leads(x, Op("skip", set, unit, part, at), y)
BY DEF Leads, Op

\* An expectation, and the token between two statements.
LEMMA ExpectLeads ==
  ASSUME NEW x, NEW y, x.mode # "rest", y.mode \in {"any", "rest"}, y.open = x.open, y.cost <= x.cost
  PROVE  \A set, unit, part, at : /\ Leads(x, Op("expect", set, unit, part, at), y)
                                 /\ Leads(x, Op("next", set, unit, part, at), y)
BY DEF Leads, Op

\* The current token.
LEMMA MarkLeads ==
  ASSUME NEW x, NEW y, NEW op \in {"mark", "bare"}, NEW set, NEW unit, NEW part, NEW at, x.mode \in {"now", "quiet"},
         y.mode \in {"any", "rest"}, y.open = x.open, y.cost <= x.cost
  PROVE  Leads(x, Op(op, set, unit, part, at), y)
BY DEF Leads, Op

\* The semicolon behind a route.
LEMMA AdvanceLeads ==
  ASSUME NEW x, NEW y, NEW set, NEW unit, NEW part, NEW at, x.mode = "now", y.mode = "rest", y.open = x.open
  PROVE  Leads(x, Op("advance", set, unit, part, at), y)
BY DEF Leads, Op

\* A token that fits nowhere.
LEMMA UnexpectedLeads ==
  ASSUME NEW x, NEW y, NEW set, NEW unit, NEW part, NEW at, x.mode = "now", y.mode # "now"
  PROVE  Leads(x, Op("unexpected", set, unit, part, at), y)
BY DEF Leads, Op

\* An error that needs no token.
LEMMA RejectLeads ==
  ASSUME NEW x, NEW y, NEW op \in {"reject", "panic"}, NEW set, NEW unit, NEW part, NEW at, x.mode # "rest",
         y.mode # "now"
  PROVE  Leads(x, Op(op, set, unit, part, at), y)
BY DEF Leads, Op

\* Calls that ask for nothing and change no bracket.
Ordinary == Functions \ (ItemEnds \cup {"list", "service", "types", "serverPair", "elem"})

\* The contracts, function by function.
LEMMA Contracts ==
  /\ "parse" \in Ordinary /\ Cost("parse") = 4 /\ After("parse") = 0
  /\ "stmt" \in Ordinary /\ Cost("stmt") = 3 /\ After("stmt") = 4
  /\ "syntax" \in Ordinary /\ Cost("syntax") = 1 /\ After("syntax") = 4
  /\ "info" \in Ordinary /\ Cost("info") = 1 /\ After("info") = 4
  /\ "pairs" \in Ordinary /\ Cost("pairs") = 2 /\ After("pairs") = 0
  /\ "pair" \in Ordinary /\ Cost("pair") = 1 /\ After("pair") = 2
  /\ "import" \in Ordinary /\ Cost("import") = 2 /\ After("import") = 4
  /\ "importLiteral" \in Ordinary /\ Cost("importLiteral") = 1 /\ After("importLiteral") = 4
  /\ "importGroup" \in Ordinary /\ Cost("importGroup") = 1 /\ After("importGroup") = 4
  /\ "imports" \in Ordinary /\ Cost("imports") = 1 /\ After("imports") = 0
  /\ Cost("service") = 2 /\ After("service") = 4
  /\ "serviceName" \in Ordinary /\ Cost("serviceName") = 1 /\ After("serviceName") = 0
  /\ "server" \in Ordinary /\ Cost("server") = 1 /\ After("server") = 0
  /\ "serverPairs" \in Ordinary /\ Cost("serverPairs") = 2 /\ After("serverPairs") = 0
  /\ Cost("serverPair") = 1 /\ After("serverPair") = 2
  /\ "serverValue" \in Ordinary /\ Cost("serverValue") = 4 /\ After("serverValue") = 2
  /\ "valueRest" \in Ordinary /\ Cost("valueRest") = 4 /\ After("valueRest") = 2
  /\ "commas" \in Ordinary /\ Cost("commas") = 3 /\ After("commas") = 2
  /\ "dashes" \in Ordinary /\ Cost("dashes") = 3 /\ After("dashes") = 2
  /\ "valuePath" \in Ordinary /\ Cost("valuePath") = 3 /\ After("valuePath") = 2
  /\ "valueDash" \in Ordinary /\ Cost("valueDash") = 4 /\ After("valueDash") = 3
  /\ "items" \in Ordinary /\ Cost("items") = 2 /\ After("items") = 0
  /\ "itemsRest" \in Ordinary /\ Cost("itemsRest") = 3 /\ After("itemsRest") = 0
  /\ "doc" \in Ordinary /\ Cost("doc") = 2 /\ After("doc") = 0
  /\ "docGroup" \in Ordinary /\ Cost("docGroup") = 1 /\ After("docGroup") = 0
  /\ "docLiteral" \in Ordinary /\ Cost("docLiteral") = 1 /\ After("docLiteral") = 0
  /\ "body" \in Ordinary /\ Cost("body") = 1 /\ After("body") = 5
  /\ "bodyRest" \in Ordinary /\ Cost("bodyRest") = 2 /\ After("bodyRest") = 0
  /\ "bodyElem" \in Ordinary /\ Cost("bodyElem") = 1 /\ After("bodyElem") = 0
  /\ "path" \in Ordinary /\ Cost("path") = 2 /\ After("path") = 6
  /\ "segment" \in Ordinary /\ Cost("segment") = 1 /\ After("segment") = 6
  /\ "segmentRest" \in Ordinary /\ Cost("segmentRest") = 7 /\ After("segmentRest") = 6
  /\ "segments" \in Ordinary /\ Cost("segments") = 7 /\ After("segments") = 6
  /\ "pathItem" \in Ordinary /\ Cost("pathItem") = 8 /\ After("pathItem") = 7
  /\ Cost("types") = 2 /\ After("types") = 4
  /\ "typeGroup" \in Ordinary /\ Cost("typeGroup") = 1 /\ After("typeGroup") = 4
  /\ "typeExprs" \in Ordinary /\ Cost("typeExprs") = 2 /\ After("typeExprs") = 0
  /\ "typeExpr" \in Ordinary /\ Cost("typeExpr") = 1 /\ After("typeExpr") = 4
  /\ "assign" \in Ordinary /\ Cost("assign") = 3 /\ After("assign") = 2
  /\ "keyword" \in Ordinary /\ Cost("keyword") = 5 /\ After("keyword") = 4
  /\ "dataType" \in Ordinary /\ Cost("dataType") = 2 /\ After("dataType") = 4
  /\ "map" \in Ordinary /\ Cost("map") = 1 /\ After("map") = 4
  /\ "pointer" \in Ordinary /\ Cost("pointer") = 1 /\ After("pointer") = 4
  /\ Cost("list") = 1 /\ After("list") = 4
  /\ "struct" \in Ordinary /\ Cost("struct") = 1 /\ After("struct") = 4
  /\ "elems" \in Ordinary /\ Cost("elems") = 1 /\ After("elems") = 0
  /\ Cost("elem") = 4 /\ After("elem") = 2
  /\ "fields" \in Ordinary /\ Cost("fields") = 3 /\ After("fields") = 2
  /\ "tag" \in Ordinary /\ Cost("tag") = 2 /\ After("tag") = 1
  /\ Cost("item") = 1 /\ After("item") = 3
  /\ Cost("itemRest") = 4 /\ After("itemRest") = 3
  /\ Cost("route") = 1 /\ After("route") = 3
  /\ Cost("request") = 6 /\ After("request") = 3
  /\ Cost("response") = 5 /\ After("response") = 3
  /\ Cost("routeEnd") = 4 /\ After("routeEnd") = 3
<1>1. "parse" \in Ordinary /\ Cost("parse") = 4 /\ After("parse") = 0
  BY DEF Cost, After, Ordinary, Functions, ItemEnds
<1>2. "stmt" \in Ordinary /\ Cost("stmt") = 3 /\ After("stmt") = 4
  BY DEF Cost, After, Ordinary, Functions, ItemEnds
<1>3. "syntax" \in Ordinary /\ Cost("syntax") = 1 /\ After("syntax") = 4
  BY DEF Cost, After, Ordinary, Functions, ItemEnds
<1>4. "info" \in Ordinary /\ Cost("info") = 1 /\ After("info") = 4
  BY DEF Cost, After, Ordinary, Functions, ItemEnds
<1>5. "pairs" \in Ordinary /\ Cost("pairs") = 2 /\ After("pairs") = 0
  BY DEF Cost, After, Ordinary, Functions, ItemEnds
<1>6. "pair" \in Ordinary /\ Cost("pair") = 1 /\ After("pair") = 2
  BY DEF Cost, After, Ordinary, Functions, ItemEnds
<1>7. "import" \in Ordinary /\ Cost("import") = 2 /\ After("import") = 4
  BY DEF Cost, After, Ordinary, Functions, ItemEnds
<1>8. "importLiteral" \in Ordinary /\ Cost("importLiteral") = 1 /\ After("importLiteral") = 4
  BY DEF Cost, After, Ordinary, Functions, ItemEnds
<1>9. "importGroup" \in Ordinary /\ Cost("importGroup") = 1 /\ After("importGroup") = 4
  BY DEF Cost, After, Ordinary, Functions, ItemEnds
<1>10. "imports" \in Ordinary /\ Cost("imports") = 1 /\ After("imports") = 0
  BY DEF Cost, After, Ordinary, Functions, ItemEnds
<1>11. Cost("service") = 2 /\ After("service") = 4
  BY DEF Cost, After
<1>12. "serviceName" \in Ordinary /\ Cost("serviceName") = 1 /\ After("serviceName") = 0
  BY DEF Cost, After, Ordinary, Functions, ItemEnds
<1>13. "server" \in Ordinary /\ Cost("server") = 1 /\ After("server") = 0
  BY DEF Cost, After, Ordinary, Functions, ItemEnds
<1>14. "serverPairs" \in Ordinary /\ Cost("serverPairs") = 2 /\ After("serverPairs") = 0
  BY DEF Cost, After, Ordinary, Functions, ItemEnds
<1>15. Cost("serverPair") = 1 /\ After("serverPair") = 2
  BY DEF Cost, After
<1>16. "serverValue" \in Ordinary /\ Cost("serverValue") = 4 /\ After("serverValue") = 2
  BY DEF Cost, After, Ordinary, Functions, ItemEnds
<1>17. "valueRest" \in Ordinary /\ Cost("valueRest") = 4 /\ After("valueRest") = 2
  BY DEF Cost, After, Ordinary, Functions, ItemEnds
<1>18. "commas" \in Ordinary /\ Cost("commas") = 3 /\ After("commas") = 2
  BY DEF Cost, After, Ordinary, Functions, ItemEnds
<1>19. "dashes" \in Ordinary /\ Cost("dashes") = 3 /\ After("dashes") = 2
  BY DEF Cost, After, Ordinary, Functions, ItemEnds
<1>20. "valuePath" \in Ordinary /\ Cost("valuePath") = 3 /\ After("valuePath") = 2
  BY DEF Cost, After, Ordinary, Functions, ItemEnds
<1>21. "valueDash" \in Ordinary /\ Cost("valueDash") = 4 /\ After("valueDash") = 3
  BY DEF Cost, After, Ordinary, Functions, ItemEnds
<1>22. "items" \in Ordinary /\ Cost("items") = 2 /\ After("items") = 0
  BY DEF Cost, After, Ordinary, Functions, ItemEnds
<1>23. "itemsRest" \in Ordinary /\ Cost("itemsRest") = 3 /\ After("itemsRest") = 0
  BY DEF Cost, After, Ordinary, Functions, ItemEnds
<1>24. "doc" \in Ordinary /\ Cost("doc") = 2 /\ After("doc") = 0
  BY DEF Cost, After, Ordinary, Functions, ItemEnds
<1>25. "docGroup" \in Ordinary /\ Cost("docGroup") = 1 /\ After("docGroup") = 0
  BY DEF Cost, After, Ordinary, Functions, ItemEnds
<1>26. "docLiteral" \in Ordinary /\ Cost("docLiteral") = 1 /\ After("docLiteral") = 0
  BY DEF Cost, After, Ordinary, Functions, ItemEnds
<1>27. "body" \in Ordinary /\ Cost("body") = 1 /\ After("body") = 5
  BY DEF Cost, After, Ordinary, Functions, ItemEnds
<1>28. "bodyRest" \in Ordinary /\ Cost("bodyRest") = 2 /\ After("bodyRest") = 0
  BY DEF Cost, After, Ordinary, Functions, ItemEnds
<1>29. "bodyElem" \in Ordinary /\ Cost("bodyElem") = 1 /\ After("bodyElem") = 0
  BY DEF Cost, After, Ordinary, Functions, ItemEnds
<1>30. "path" \in Ordinary /\ Cost("path") = 2 /\ After("path") = 6
  BY DEF Cost, After, Ordinary, Functions, ItemEnds
<1>31. "segment" \in Ordinary /\ Cost("segment") = 1 /\ After("segment") = 6
  BY DEF Cost, After, Ordinary, Functions, ItemEnds
<1>32. "segmentRest" \in Ordinary /\ Cost("segmentRest") = 7 /\ After("segmentRest") = 6
  BY DEF Cost, After, Ordinary, Functions, ItemEnds
<1>33. "segments" \in Ordinary /\ Cost("segments") = 7 /\ After("segments") = 6
  BY DEF Cost, After, Ordinary, Functions, ItemEnds
<1>34. "pathItem" \in Ordinary /\ Cost("pathItem") = 8 /\ After("pathItem") = 7
  BY DEF Cost, After, Ordinary, Functions, ItemEnds
<1>35. Cost("types") = 2 /\ After("types") = 4
  BY DEF Cost, After
<1>36. "typeGroup" \in Ordinary /\ Cost("typeGroup") = 1 /\ After("typeGroup") = 4
  BY DEF Cost, After, Ordinary, Functions, ItemEnds
<1>37. "typeExprs" \in Ordinary /\ Cost("typeExprs") = 2 /\ After("typeExprs") = 0
  BY DEF Cost, After, Ordinary, Functions, ItemEnds
<1>38. "typeExpr" \in Ordinary /\ Cost("typeExpr") = 1 /\ After("typeExpr") = 4
  BY DEF Cost, After, Ordinary, Functions, ItemEnds
<1>39. "assign" \in Ordinary /\ Cost("assign") = 3 /\ After("assign") = 2
  BY DEF Cost, After, Ordinary, Functions, ItemEnds
<1>40. "keyword" \in Ordinary /\ Cost("keyword") = 5 /\ After("keyword") = 4
  BY DEF Cost, After, Ordinary, Functions, ItemEnds
<1>41. "dataType" \in Ordinary /\ Cost("dataType") = 2 /\ After("dataType") = 4
  BY DEF Cost, After, Ordinary, Functions, ItemEnds
<1>42. "map" \in Ordinary /\ Cost("map") = 1 /\ After("map") = 4
  BY DEF Cost, After, Ordinary, Functions, ItemEnds
<1>43. "pointer" \in Ordinary /\ Cost("pointer") = 1 /\ After("pointer") = 4
  BY DEF Cost, After, Ordinary, Functions, ItemEnds
<1>44. Cost("list") = 1 /\ After("list") = 4
  BY DEF Cost, After
<1>45. "struct" \in Ordinary /\ Cost("struct") = 1 /\ After("struct") = 4
  BY DEF Cost, After, Ordinary, Functions, ItemEnds
<1>46. "elems" \in Ordinary /\ Cost("elems") = 1 /\ After("elems") = 0
  BY DEF Cost, After, Ordinary, Functions, ItemEnds
<1>47. Cost("elem") = 4 /\ After("elem") = 2
  BY DEF Cost, After
<1>48. "fields" \in Ordinary /\ Cost("fields") = 3 /\ After("fields") = 2
  BY DEF Cost, After, Ordinary, Functions, ItemEnds
<1>49. "tag" \in Ordinary /\ Cost("tag") = 2 /\ After("tag") = 1
  BY DEF Cost, After, Ordinary, Functions, ItemEnds
<1>50. Cost("item") = 1 /\ After("item") = 3
  BY DEF Cost, After
<1>51. Cost("itemRest") = 4 /\ After("itemRest") = 3
  BY DEF Cost, After
<1>52. Cost("route") = 1 /\ After("route") = 3
  BY DEF Cost, After
<1>53. Cost("request") = 6 /\ After("request") = 3
  BY DEF Cost, After
<1>54. Cost("response") = 5 /\ After("response") = 3
  BY DEF Cost, After
<1>55. Cost("routeEnd") = 4 /\ After("routeEnd") = 3
  BY DEF Cost, After
<1>56. QED
  BY <1>1, <1>2, <1>3, <1>4, <1>5, <1>6, <1>7, <1>8, <1>9, <1>10, <1>11, <1>12, <1>13, <1>14, <1>15, <1>16,
     <1>17, <1>18, <1>19, <1>20, <1>21, <1>22, <1>23, <1>24, <1>25, <1>26, <1>27, <1>28, <1>29, <1>30, <1>31,
     <1>32, <1>33, <1>34, <1>35, <1>36, <1>37, <1>38, <1>39, <1>40, <1>41, <1>42, <1>43, <1>44, <1>45, <1>46,
     <1>47, <1>48, <1>49, <1>50, <1>51, <1>52, <1>53, <1>54, <1>55

\* An ordinary call.
LEMMA CallLeads ==
  ASSUME NEW x, NEW y, NEW set, NEW unit, NEW f, f \in Ordinary, NEW at, x.mode # "rest", unit # "item",
         Cost(f) <= x.cost, y.cost <= After(f), x.open = y.open, y.mode = "any"
  PROVE  Leads(x, Op("call", set, unit, f, at), y)
<1>1. f \in Functions /\ f \notin ItemEnds /\ f \notin {"list", "service", "types", "serverPair", "elem"}
      /\ f # "itemRest"
  BY DEF Ordinary, ItemEnds
<1>2. QED
  BY <1>1 DEF Leads, Calls, Op

\* A call of a function that ends where the item ends.
LEMMA EndLeads ==
  ASSUME NEW x, NEW y, NEW set, NEW unit, NEW f \in ItemEnds, NEW at, x.mode # "rest", unit # "item",
         Cost(f) <= x.cost, y.cost <= After(f), x.open = y.open, y.mode = "rest",
         f = "itemRest" => x.mode = "quiet"
  PROVE  Leads(x, Op("call", set, unit, f, at), y)
<1>1. f \in Functions /\ f \notin {"list", "service", "types", "serverPair", "elem"}
  BY DEF Functions, ItemEnds
<1>2. QED
  BY <1>1 DEF Leads, Calls, Op

\* A call that asks for something.
LEMMA AskingLeads ==
  ASSUME NEW x, NEW y, NEW set, NEW unit, NEW f \in {"service", "types", "serverPair", "elem"}, NEW at, unit # "item",
         x.mode = IF f = "elem" THEN "quiet" ELSE "now",
         Cost(f) <= x.cost, y.cost <= After(f), x.open = y.open, y.mode = "any"
  PROVE  Leads(x, Op("call", set, unit, f, at), y)
<1>1. f \in Functions /\ f \notin ItemEnds /\ f # "list" /\ f # "itemRest"
  BY DEF Functions, ItemEnds
<1>2. x.mode # "rest"
  OBVIOUS
<1>3. QED
  BY <1>1, <1>2 DEF Leads, Calls, Op

\* The call behind an opening bracket.
LEMMA ListLeads ==
  ASSUME NEW x, NEW y, NEW set, NEW unit, NEW at, x.mode # "rest", unit # "item",
         Cost("list") <= x.cost, y.cost <= After("list"), x.open = Append(y.open, "["), y.mode = "any"
  PROVE  Leads(x, Op("call", set, unit, "list", at), y)
<1>1. "list" \in Functions /\ "list" \notin ItemEnds
  BY DEF Functions, ItemEnds
<1>2. QED
  BY <1>1 DEF Leads, Calls, Op

\* The loop over the items goes on, also where nothing else may.
LEMMA RestLeads ==
  ASSUME NEW x, NEW y, 3 <= x.cost, y.cost <= 0, x.open = y.open, y.mode = "any"
  PROVE  Leads(x, Call("itemsRest"), y)
BY DEF Leads, Calls, Call, Op, Cost, After, Functions, ItemEnds

(***************************************************************************)
(* The bodies                                                              *)
(***************************************************************************)
\* The steps b keep the contract of a call that leads from x to y.
Keeps(x, b, y) ==
    \E z \in Place : z.open = x.open /\ z.cost < x.cost /\ Holds(z.mode, b) /\ Path(z, b, y)

\* A call that leads from x to y, with the numbers of its contract.
Called(x, y, cost, after) ==
    x \in Place /\ y \in Place /\ y.open = x.open /\ cost <= x.cost /\ y.cost <= after

\* A call with one more bracket open than where it leads.
CalledInList(x, y, cost, after) ==
    x \in Place /\ y \in Place /\ x.open = Append(y.open, "[") /\ cost <= x.cost /\ y.cost <= after

\* A body of no steps.
LEMMA NothingKeeps ==
  ASSUME NEW x, NEW y \in Place, y.open = x.open, y.cost < x.cost, y.mode \in {"any", "rest"}
  PROVE  Keeps(x, <<>>, y)
<1>1. Holds(y.mode, <<>>)
  BY DEF Holds
<1>2. QED
  BY <1>1, PathNone DEF Keeps

(***************************************************************************)
(* Statements                                                              *)
(***************************************************************************)
\* Statement by statement.
LEMMA ParseKeeps ==
  ASSUME NEW x, NEW y, Called(x, y, 4, 0), y.mode = "any"
  PROVE  Keeps(x, Parse(cur), y)
<1> DEFINE o == y.open
<1>1. /\ x \in Place /\ y \in Place /\ o \in Seq(Opens) /\ x.open = o /\ y.open = o
      /\ x.cost \in Nat /\ y.cost \in Nat /\ 4 <= x.cost /\ y.cost <= 0 /\ y.mode = "any"
  BY PlaceType DEF Called, MaxCalls
<1> HIDE DEF o
<1>2. CASE cur.k # "EOF"
  <2> DEFINE z == At(o, 3, "any")
             m1 == At(o, 4, "any")
  <2>1. /\ z \in Place /\ z.open = o /\ z.cost = 3 /\ z.mode = "any"
        /\ m1 \in Place /\ m1.open = o /\ m1.cost = 4 /\ m1.mode = "any"
    BY <1>1, PlaceFacts DEF MaxCalls, Modes
  <2> HIDE DEF z, m1
  <2>2. 3 <= z.cost /\ m1.cost <= 4 /\ m1.cost <= m1.cost /\ 4 <= m1.cost /\ y.cost <= 0
    BY <1>1, <2>1
  <2>3. Leads(z, Call("stmt"), m1)
    BY <1>1, <2>1, <2>2, CallLeads, Contracts DEF Call
  <2>4. Leads(m1, Op("next", {}, "", "", <<>>), m1)
    BY <1>1, <2>1, <2>2, ExpectLeads
  <2>5. Leads(m1, Call("parse"), y)
    BY <1>1, <2>1, <2>2, CallLeads, Contracts DEF Call
  <2> DEFINE b == <<Call("stmt"), Op("next", {}, "", "", <<>>), Call("parse")>>
  <2>6. Path(z, b, y)
    BY <1>1, <2>1, <2>3, <2>4, <2>5, PathThree
  <2>7. Holds(z.mode, b)
    BY <2>1 DEF Holds
  <2> HIDE DEF b
  <2>8. Keeps(x, b, y)
    BY <1>1, <2>1, <2>6, <2>7 DEF Keeps
  <2>9. QED
    BY <1>2, <2>8 DEF b, Parse, If
<1>3. CASE cur.k = "EOF"
  <2>1. y.cost < x.cost
    BY <1>1
  <2>2. Keeps(x, <<>>, y)
    BY <1>1, <2>1, NothingKeeps
  <2>3. QED
    BY <1>3, <2>2 DEF Parse, If
<1>4. QED
  BY <1>2, <1>3

\* A statement is told by its first token, which is no bracket.
LEMMA StmtKeeps ==
  ASSUME NEW x, NEW y, Called(x, y, 3, 4), y.mode = "any"
  PROVE  Keeps(x, parseStmt(cur), y)
<1> DEFINE o == y.open
<1>1. /\ x \in Place /\ y \in Place /\ o \in Seq(Opens) /\ x.open = o /\ y.open = o
      /\ x.cost \in Nat /\ y.cost \in Nat /\ 3 <= x.cost /\ y.cost <= 4 /\ y.mode = "any"
  BY PlaceType DEF Called, MaxCalls
<1> HIDE DEF o
<1>2. CASE cur.k = "syntax"
  <2> DEFINE z == At(o, 2, "quiet")
             m1 == At(o, 2, "any")
  <2>1. /\ z \in Place /\ z.open = o /\ z.cost = 2 /\ z.mode = "quiet"
        /\ m1 \in Place /\ m1.open = o /\ m1.cost = 2 /\ m1.mode = "any"
    BY <1>1, PlaceFacts DEF MaxCalls, Modes
  <2> HIDE DEF z, m1
  <2>2. m1.cost <= z.cost /\ 1 <= m1.cost /\ y.cost <= 4
    BY <1>1, <2>1
  <2>3. Leads(z, Mark("syntax", "open"), m1)
    BY <1>1, <2>1, <2>2, MarkLeads DEF Mark
  <2>4. Leads(m1, Call("syntax"), y)
    BY <1>1, <2>1, <2>2, CallLeads, Contracts DEF Call
  <2> DEFINE b == <<Mark("syntax", "open"), Call("syntax")>>
  <2>5. Path(z, b, y)
    BY <1>1, <2>1, <2>3, <2>4, PathTwo
  <2>6. Holds(z.mode, b)
    BY <2>1, <1>2 DEF Holds, Quiet, Signs, Opens, Closes
  <2> HIDE DEF b
  <2>7. Keeps(x, b, y)
    BY <1>1, <2>1, <2>5, <2>6 DEF Keeps
  <2>8. QED
    BY <1>2, <2>7 DEF b, parseStmt, If
<1>3. CASE cur.k = "info"
  <2> DEFINE z == At(o, 2, "quiet")
             m1 == At(o, 2, "any")
  <2>1. /\ z \in Place /\ z.open = o /\ z.cost = 2 /\ z.mode = "quiet"
        /\ m1 \in Place /\ m1.open = o /\ m1.cost = 2 /\ m1.mode = "any"
    BY <1>1, PlaceFacts DEF MaxCalls, Modes
  <2> HIDE DEF z, m1
  <2>2. m1.cost <= z.cost /\ 1 <= m1.cost /\ y.cost <= 4
    BY <1>1, <2>1
  <2>3. Leads(z, Mark("info", "open"), m1)
    BY <1>1, <2>1, <2>2, MarkLeads DEF Mark
  <2>4. Leads(m1, Call("info"), y)
    BY <1>1, <2>1, <2>2, CallLeads, Contracts DEF Call
  <2> DEFINE b == <<Mark("info", "open"), Call("info")>>
  <2>5. Path(z, b, y)
    BY <1>1, <2>1, <2>3, <2>4, PathTwo
  <2>6. Holds(z.mode, b)
    BY <2>1, <1>3 DEF Holds, Quiet, Signs, Opens, Closes
  <2> HIDE DEF b
  <2>7. Keeps(x, b, y)
    BY <1>1, <2>1, <2>5, <2>6 DEF Keeps
  <2>8. QED
    BY <1>3, <2>7 DEF b, parseStmt, If
<1>4. CASE cur.k \in {"service", "@server"}
  <2> DEFINE z == At(o, 2, "now")
  <2>1. z \in Place /\ z.open = o /\ z.cost = 2 /\ z.mode = "now"
    BY <1>1, PlaceFacts DEF MaxCalls, Modes
  <2> HIDE DEF z
  <2>2. 2 <= z.cost /\ y.cost <= 4
    BY <1>1, <2>1
  <2>3. Leads(z, Call("service"), y)
    BY <1>1, <2>1, <2>2, AskingLeads, Contracts DEF Call
  <2> DEFINE b == <<Call("service")>>
  <2>4. Path(z, b, y)
    BY <1>1, <2>1, <2>3, PathOne
  <2>5. Holds(z.mode, b)
    BY <2>1, <1>4 DEF Holds, Ready, Op, Call, Quiet, Signs, Opens, Closes
  <2> HIDE DEF b
  <2>6. Keeps(x, b, y)
    BY <1>1, <2>1, <2>4, <2>5 DEF Keeps
  <2>7. QED
    BY <1>4, <2>6 DEF b, parseStmt, If
<1>5. CASE cur.k = "type"
  <2> DEFINE z == At(o, 2, "now")
  <2>1. z \in Place /\ z.open = o /\ z.cost = 2 /\ z.mode = "now"
    BY <1>1, PlaceFacts DEF MaxCalls, Modes
  <2> HIDE DEF z
  <2>2. 2 <= z.cost /\ y.cost <= 4
    BY <1>1, <2>1
  <2>3. Leads(z, Call("types"), y)
    BY <1>1, <2>1, <2>2, AskingLeads, Contracts DEF Call
  <2> DEFINE b == <<Call("types")>>
  <2>4. Path(z, b, y)
    BY <1>1, <2>1, <2>3, PathOne
  <2>5. Holds(z.mode, b)
    BY <2>1, <1>5 DEF Holds, Ready, Op, Call, Quiet, Signs, Opens, Closes
  <2> HIDE DEF b
  <2>6. Keeps(x, b, y)
    BY <1>1, <2>1, <2>4, <2>5 DEF Keeps
  <2>7. QED
    BY <1>5, <2>6 DEF b, parseStmt, If
<1>6. CASE cur.k = "import"
  <2> DEFINE z == At(o, 2, "quiet")
             m1 == At(o, 2, "any")
  <2>1. /\ z \in Place /\ z.open = o /\ z.cost = 2 /\ z.mode = "quiet"
        /\ m1 \in Place /\ m1.open = o /\ m1.cost = 2 /\ m1.mode = "any"
    BY <1>1, PlaceFacts DEF MaxCalls, Modes
  <2> HIDE DEF z, m1
  <2>2. m1.cost <= z.cost /\ 2 <= m1.cost /\ y.cost <= 4
    BY <1>1, <2>1
  <2>3. Leads(z, Mark("import", "open"), m1)
    BY <1>1, <2>1, <2>2, MarkLeads DEF Mark
  <2>4. Leads(m1, Call("import"), y)
    BY <1>1, <2>1, <2>2, CallLeads, Contracts DEF Call
  <2> DEFINE b == <<Mark("import", "open"), Call("import")>>
  <2>5. Path(z, b, y)
    BY <1>1, <2>1, <2>3, <2>4, PathTwo
  <2>6. Holds(z.mode, b)
    BY <2>1, <1>6 DEF Holds, Quiet, Signs, Opens, Closes
  <2> HIDE DEF b
  <2>7. Keeps(x, b, y)
    BY <1>1, <2>1, <2>5, <2>6 DEF Keeps
  <2>8. QED
    BY <1>6, <2>7 DEF b, parseStmt, If
<1>7. CASE cur.k \notin {"syntax", "info", "service", "@server", "type", "import"}
  <2> DEFINE z == At(o, 2, "any")
  <2>1. z \in Place /\ z.open = o /\ z.cost = 2 /\ z.mode = "any"
    BY <1>1, PlaceFacts DEF MaxCalls, Modes
  <2> HIDE DEF z
  <2>2. Leads(z, Reject, y)
    BY <1>1, <2>1, RejectLeads DEF Reject
  <2> DEFINE b == <<Reject>>
  <2>3. Path(z, b, y)
    BY <1>1, <2>1, <2>2, PathOne
  <2>4. Holds(z.mode, b)
    BY <2>1 DEF Holds
  <2> HIDE DEF b
  <2>5. Keeps(x, b, y)
    BY <1>1, <2>1, <2>3, <2>4 DEF Keeps
  <2>6. QED
    BY <1>7, <2>5 DEF b, parseStmt, If
<1>8. QED
  BY <1>2, <1>3, <1>4, <1>5, <1>6, <1>7

\* The syntax statement.
LEMMA SyntaxKeeps ==
  ASSUME NEW x, NEW y, Called(x, y, 1, 4), y.mode = "any"
  PROVE  Keeps(x, parseSyntaxStmt, y)
<1> DEFINE o == y.open
<1>1. /\ x \in Place /\ y \in Place /\ o \in Seq(Opens) /\ x.open = o /\ y.open = o
      /\ x.cost \in Nat /\ y.cost \in Nat /\ 1 <= x.cost /\ y.cost <= 4 /\ y.mode = "any"
  BY PlaceType DEF Called, MaxCalls
<1> HIDE DEF o
<1>2. Keeps(x, parseSyntaxStmt, y)
  <2> DEFINE z == At(o, 0, "any")
             m1 == At(o, 8, "any")
  <2>1. /\ z \in Place /\ z.open = o /\ z.cost = 0 /\ z.mode = "any"
        /\ m1 \in Place /\ m1.open = o /\ m1.cost = 8 /\ m1.mode = "any"
    BY <1>1, PlaceFacts DEF MaxCalls, Modes
  <2> HIDE DEF z, m1
  <2>2. Leads(z, Eat({"="}, "syntax", "assign"), m1)
    BY <1>1, <2>1, EatLeads, PlainSets, PlainKinds DEF Eat
  <2>3. Leads(m1, Eat(Str, "syntax", "value"), y)
    BY <1>1, <2>1, EatLeads, PlainSets, PlainKinds DEF Eat
  <2> DEFINE b == <<Eat({"="}, "syntax", "assign"), Eat(Str, "syntax", "value")>>
  <2>4. Path(z, b, y)
    BY <1>1, <2>1, <2>2, <2>3, PathTwo
  <2>5. Holds(z.mode, b)
    BY <2>1 DEF Holds
  <2> HIDE DEF b
  <2>6. Keeps(x, b, y)
    BY <1>1, <2>1, <2>4, <2>5 DEF Keeps
  <2>7. QED
    BY <2>6 DEF b, parseSyntaxStmt
<1>3. QED
  BY <1>2

\* The info statement.
LEMMA InfoKeeps ==
  ASSUME NEW x, NEW y, Called(x, y, 1, 4), y.mode = "any"
  PROVE  Keeps(x, parseInfoStmt, y)
<1> DEFINE o == y.open
<1>1. /\ x \in Place /\ y \in Place /\ o \in Seq(Opens) /\ x.open = o /\ y.open = o
      /\ x.cost \in Nat /\ y.cost \in Nat /\ 1 <= x.cost /\ y.cost <= 4 /\ y.mode = "any"
  BY PlaceType DEF Called, MaxCalls
<1> HIDE DEF o
<1>2. Keeps(x, parseInfoStmt, y)
  <2> DEFINE q == Append(o, "(")
             z == At(o, 0, "any")
             m1 == At(q, 8, "any")
             m2 == At(q, 0, "any")
  <2>1. q \in Seq(Opens)
    BY <1>1, Opened DEF Opens
  <2>2. q = Append(o, "(")
    OBVIOUS
  <2> HIDE DEF q
  <2>3. /\ z \in Place /\ z.open = o /\ z.cost = 0 /\ z.mode = "any"
        /\ m1 \in Place /\ m1.open = q /\ m1.cost = 8 /\ m1.mode = "any"
        /\ m2 \in Place /\ m2.open = q /\ m2.cost = 0 /\ m2.mode = "any"
    BY <1>1, <2>1, PlaceFacts DEF MaxCalls, Modes
  <2> HIDE DEF z, m1, m2
  <2>4. 2 <= m1.cost /\ m2.cost <= 0
    BY <1>1, <2>3
  <2>5. Leads(z, Eat({"("}, "info", "lparen"), m1)
    BY <1>1, <2>3, <2>2, OpenLeads DEF Eat, Opens
  <2>6. Leads(m1, CallIn("pairs", "info"), m2)
    BY <1>1, <2>3, <2>4, CallLeads, Contracts DEF CallIn
  <2>7. Leads(m2, Eat({")"}, "info", "rparen"), y)
    BY <1>1, <2>3, <2>2, CloseLeads DEF Eat, Closes, Opening
  <2> DEFINE b == <<Eat({"("}, "info", "lparen"), CallIn("pairs", "info"), Eat({")"}, "info", "rparen")>>
  <2>8. Path(z, b, y)
    BY <1>1, <2>3, <2>5, <2>6, <2>7, PathThree
  <2>9. Holds(z.mode, b)
    BY <2>3 DEF Holds
  <2> HIDE DEF b
  <2>10. Keeps(x, b, y)
    BY <1>1, <2>3, <2>8, <2>9 DEF Keeps
  <2>11. QED
    BY <2>10 DEF b, parseInfoStmt
<1>3. QED
  BY <1>2

\* Pair by pair.
LEMMA PairsKeep ==
  ASSUME NEW x, NEW y, Called(x, y, 2, 0), y.mode = "any", NEW u, u # "item"
  PROVE  Keeps(x, parsePairs(cur, peek, u), y)
<1> DEFINE o == y.open
<1>1. /\ x \in Place /\ y \in Place /\ o \in Seq(Opens) /\ x.open = o /\ y.open = o
      /\ x.cost \in Nat /\ y.cost \in Nat /\ 2 <= x.cost /\ y.cost <= 0 /\ y.mode = "any"
  BY PlaceType DEF Called, MaxCalls
<1> HIDE DEF o
<1>2. CASE cur.k # "EOF" /\ peek.k # ")"
  <2> DEFINE z == At(o, 1, "any")
             m1 == At(o, 2, "any")
  <2>1. /\ z \in Place /\ z.open = o /\ z.cost = 1 /\ z.mode = "any"
        /\ m1 \in Place /\ m1.open = o /\ m1.cost = 2 /\ m1.mode = "any"
    BY <1>1, PlaceFacts DEF MaxCalls, Modes
  <2> HIDE DEF z, m1
  <2>2. 1 <= z.cost /\ m1.cost <= 2 /\ m1.cost <= m1.cost /\ 2 <= m1.cost /\ y.cost <= 0
    BY <1>1, <2>1
  <2>3. Leads(z, CallIn("pair", u), m1)
    BY <1>1, <2>1, <2>2, CallLeads, Contracts DEF CallIn
  <2>4. Leads(m1, Expect({")"} \cup Idents), m1)
    BY <1>1, <2>1, <2>2, ExpectLeads DEF Expect
  <2>5. Leads(m1, CallIn("pairs", u), y)
    BY <1>1, <2>1, <2>2, CallLeads, Contracts DEF CallIn
  <2> DEFINE b == <<CallIn("pair", u), Expect({")"} \cup Idents), CallIn("pairs", u)>>
  <2>6. Path(z, b, y)
    BY <1>1, <2>1, <2>3, <2>4, <2>5, PathThree
  <2>7. Holds(z.mode, b)
    BY <2>1 DEF Holds
  <2> HIDE DEF b
  <2>8. Keeps(x, b, y)
    BY <1>1, <2>1, <2>6, <2>7 DEF Keeps
  <2>9. QED
    BY <1>2, <2>8 DEF b, parsePairs, If
<1>3. CASE ~(cur.k # "EOF" /\ peek.k # ")")
  <2>1. y.cost < x.cost
    BY <1>1
  <2>2. Keeps(x, <<>>, y)
    BY <1>1, <2>1, NothingKeeps
  <2>3. QED
    BY <1>3, <2>2 DEF parsePairs, If
<1>4. QED
  BY <1>2, <1>3

\* A key and its value.
LEMMA PairKeeps ==
  ASSUME NEW x, NEW y, Called(x, y, 1, 2), y.mode = "any", NEW u, u # "item"
  PROVE  Keeps(x, parseKVExpression(u), y)
<1> DEFINE o == y.open
<1>1. /\ x \in Place /\ y \in Place /\ o \in Seq(Opens) /\ x.open = o /\ y.open = o
      /\ x.cost \in Nat /\ y.cost \in Nat /\ 1 <= x.cost /\ y.cost <= 2 /\ y.mode = "any"
  BY PlaceType DEF Called, MaxCalls
<1> HIDE DEF o
<1>2. Keeps(x, parseKVExpression(u), y)
  <2> DEFINE z == At(o, 0, "any")
             m1 == At(o, 8, "any")
  <2>1. /\ z \in Place /\ z.open = o /\ z.cost = 0 /\ z.mode = "any"
        /\ m1 \in Place /\ m1.open = o /\ m1.cost = 8 /\ m1.mode = "any"
    BY <1>1, PlaceFacts DEF MaxCalls, Modes
  <2> HIDE DEF z, m1
  <2>2. Leads(z, Eat(Idents, u, "key"), m1)
    BY <1>1, <2>1, EatLeads, PlainSets, PlainKinds DEF Eat
  <2>3. Leads(m1, Eat({":"}, u, "colon"), m1)
    BY <1>1, <2>1, EatLeads, PlainSets, PlainKinds DEF Eat
  <2>4. Leads(m1, Eat(Str \cup {"raw"} \cup Idents, u, "value"), y)
    BY <1>1, <2>1, EatLeads, PlainSets, PlainKinds DEF Eat
  <2> DEFINE b == <<Eat(Idents, u, "key"), Eat({":"}, u, "colon"), Eat(Str \cup {"raw"} \cup Idents, u, "value")>>
  <2>5. Path(z, b, y)
    BY <1>1, <2>1, <2>2, <2>3, <2>4, PathThree
  <2>6. Holds(z.mode, b)
    BY <2>1 DEF Holds
  <2> HIDE DEF b
  <2>7. Keeps(x, b, y)
    BY <1>1, <2>1, <2>5, <2>6 DEF Keeps
  <2>8. QED
    BY <2>7 DEF b, parseKVExpression
<1>3. QED
  BY <1>2

\* The import statement.
LEMMA ImportKeeps ==
  ASSUME NEW x, NEW y, Called(x, y, 2, 4), y.mode = "any"
  PROVE  Keeps(x, parseImportStmt(peek), y)
<1> DEFINE o == y.open
<1>1. /\ x \in Place /\ y \in Place /\ o \in Seq(Opens) /\ x.open = o /\ y.open = o
      /\ x.cost \in Nat /\ y.cost \in Nat /\ 2 <= x.cost /\ y.cost <= 4 /\ y.mode = "any"
  BY PlaceType DEF Called, MaxCalls
<1> HIDE DEF o
<1>2. CASE peek.k = "("
  <2> DEFINE z == At(o, 1, "any")
  <2>1. z \in Place /\ z.open = o /\ z.cost = 1 /\ z.mode = "any"
    BY <1>1, PlaceFacts DEF MaxCalls, Modes
  <2> HIDE DEF z
  <2>2. z.cost <= z.cost /\ 1 <= z.cost /\ y.cost <= 4
    BY <1>1, <2>1
  <2>3. Leads(z, Expect({"("} \cup Str), z)
    BY <1>1, <2>1, <2>2, ExpectLeads DEF Expect
  <2>4. Leads(z, Call("importGroup"), y)
    BY <1>1, <2>1, <2>2, CallLeads, Contracts DEF Call
  <2> DEFINE b == <<Expect({"("} \cup Str), Call("importGroup")>>
  <2>5. Path(z, b, y)
    BY <1>1, <2>1, <2>3, <2>4, PathTwo
  <2>6. Holds(z.mode, b)
    BY <2>1 DEF Holds
  <2> HIDE DEF b
  <2>7. Keeps(x, b, y)
    BY <1>1, <2>1, <2>5, <2>6 DEF Keeps
  <2>8. QED
    BY <1>2, <2>7 DEF b, parseImportStmt, If
<1>3. CASE peek.k # "("
  <2> DEFINE z == At(o, 1, "any")
  <2>1. z \in Place /\ z.open = o /\ z.cost = 1 /\ z.mode = "any"
    BY <1>1, PlaceFacts DEF MaxCalls, Modes
  <2> HIDE DEF z
  <2>2. z.cost <= z.cost /\ 1 <= z.cost /\ y.cost <= 4
    BY <1>1, <2>1
  <2>3. Leads(z, Expect({"("} \cup Str), z)
    BY <1>1, <2>1, <2>2, ExpectLeads DEF Expect
  <2>4. Leads(z, Call("importLiteral"), y)
    BY <1>1, <2>1, <2>2, CallLeads, Contracts DEF Call
  <2> DEFINE b == <<Expect({"("} \cup Str), Call("importLiteral")>>
  <2>5. Path(z, b, y)
    BY <1>1, <2>1, <2>3, <2>4, PathTwo
  <2>6. Holds(z.mode, b)
    BY <2>1 DEF Holds
  <2> HIDE DEF b
  <2>7. Keeps(x, b, y)
    BY <1>1, <2>1, <2>5, <2>6 DEF Keeps
  <2>8. QED
    BY <1>3, <2>7 DEF b, parseImportStmt, If
<1>4. QED
  BY <1>2, <1>3

\* One import.
LEMMA ImportLiteralKeeps ==
  ASSUME NEW x, NEW y, Called(x, y, 1, 4), y.mode = "any"
  PROVE  Keeps(x, parseImportLiteralStmt, y)
<1> DEFINE o == y.open
<1>1. /\ x \in Place /\ y \in Place /\ o \in Seq(Opens) /\ x.open = o /\ y.open = o
      /\ x.cost \in Nat /\ y.cost \in Nat /\ 1 <= x.cost /\ y.cost <= 4 /\ y.mode = "any"
  BY PlaceType DEF Called, MaxCalls
<1> HIDE DEF o
<1>2. Keeps(x, parseImportLiteralStmt, y)
  <2> DEFINE z == At(o, 0, "any")
  <2>1. z \in Place /\ z.open = o /\ z.cost = 0 /\ z.mode = "any"
    BY <1>1, PlaceFacts DEF MaxCalls, Modes
  <2> HIDE DEF z
  <2>2. Leads(z, Eat(Str, "import", "value"), y)
    BY <1>1, <2>1, EatLeads, PlainSets, PlainKinds DEF Eat
  <2> DEFINE b == <<Eat(Str, "import", "value")>>
  <2>3. Path(z, b, y)
    BY <1>1, <2>1, <2>2, PathOne
  <2>4. Holds(z.mode, b)
    BY <2>1 DEF Holds
  <2> HIDE DEF b
  <2>5. Keeps(x, b, y)
    BY <1>1, <2>1, <2>3, <2>4 DEF Keeps
  <2>6. QED
    BY <2>5 DEF b, parseImportLiteralStmt
<1>3. QED
  BY <1>2

\* Imports in parentheses.
LEMMA ImportGroupKeeps ==
  ASSUME NEW x, NEW y, Called(x, y, 1, 4), y.mode = "any"
  PROVE  Keeps(x, parseImportGroupStmt, y)
<1> DEFINE o == y.open
<1>1. /\ x \in Place /\ y \in Place /\ o \in Seq(Opens) /\ x.open = o /\ y.open = o
      /\ x.cost \in Nat /\ y.cost \in Nat /\ 1 <= x.cost /\ y.cost <= 4 /\ y.mode = "any"
  BY PlaceType DEF Called, MaxCalls
<1> HIDE DEF o
<1>2. Keeps(x, parseImportGroupStmt, y)
  <2> DEFINE q == Append(o, "(")
             z == At(o, 0, "any")
             m1 == At(q, 8, "any")
             m2 == At(q, 0, "any")
  <2>1. q \in Seq(Opens)
    BY <1>1, Opened DEF Opens
  <2>2. q = Append(o, "(")
    OBVIOUS
  <2> HIDE DEF q
  <2>3. /\ z \in Place /\ z.open = o /\ z.cost = 0 /\ z.mode = "any"
        /\ m1 \in Place /\ m1.open = q /\ m1.cost = 8 /\ m1.mode = "any"
        /\ m2 \in Place /\ m2.open = q /\ m2.cost = 0 /\ m2.mode = "any"
    BY <1>1, <2>1, PlaceFacts DEF MaxCalls, Modes
  <2> HIDE DEF z, m1, m2
  <2>4. 1 <= m1.cost /\ m2.cost <= 0
    BY <1>1, <2>3
  <2>5. Leads(z, Eat({"("}, "import", "lparen"), m1)
    BY <1>1, <2>3, <2>2, OpenLeads DEF Eat, Opens
  <2>6. Leads(m1, Call("imports"), m2)
    BY <1>1, <2>3, <2>4, CallLeads, Contracts DEF Call
  <2>7. Leads(m2, Eat({")"}, "import", "rparen"), y)
    BY <1>1, <2>3, <2>2, CloseLeads DEF Eat, Closes, Opening
  <2> DEFINE b == <<Eat({"("}, "import", "lparen"), Call("imports"), Eat({")"}, "import", "rparen")>>
  <2>8. Path(z, b, y)
    BY <1>1, <2>3, <2>5, <2>6, <2>7, PathThree
  <2>9. Holds(z.mode, b)
    BY <2>3 DEF Holds
  <2> HIDE DEF b
  <2>10. Keeps(x, b, y)
    BY <1>1, <2>3, <2>8, <2>9 DEF Keeps
  <2>11. QED
    BY <2>10 DEF b, parseImportGroupStmt
<1>3. QED
  BY <1>2

\* Import by import.
LEMMA ImportsKeep ==
  ASSUME NEW x, NEW y, Called(x, y, 1, 0), y.mode = "any"
  PROVE  Keeps(x, parseImports(cur, peek), y)
<1> DEFINE o == y.open
<1>1. /\ x \in Place /\ y \in Place /\ o \in Seq(Opens) /\ x.open = o /\ y.open = o
      /\ x.cost \in Nat /\ y.cost \in Nat /\ 1 <= x.cost /\ y.cost <= 0 /\ y.mode = "any"
  BY PlaceType DEF Called, MaxCalls
<1> HIDE DEF o
<1>2. CASE cur.k # "EOF" /\ peek.k # ")"
  <2> DEFINE z == At(o, 0, "any")
             m1 == At(o, 8, "any")
  <2>1. /\ z \in Place /\ z.open = o /\ z.cost = 0 /\ z.mode = "any"
        /\ m1 \in Place /\ m1.open = o /\ m1.cost = 8 /\ m1.mode = "any"
    BY <1>1, PlaceFacts DEF MaxCalls, Modes
  <2> HIDE DEF z, m1
  <2>2. m1.cost <= m1.cost /\ 1 <= m1.cost /\ y.cost <= 0
    BY <1>1, <2>1
  <2>3. Leads(z, Eat(Str, "import", "value"), m1)
    BY <1>1, <2>1, EatLeads, PlainSets, PlainKinds DEF Eat
  <2>4. Leads(m1, Expect({")"} \cup Str), m1)
    BY <1>1, <2>1, <2>2, ExpectLeads DEF Expect
  <2>5. Leads(m1, Call("imports"), y)
    BY <1>1, <2>1, <2>2, CallLeads, Contracts DEF Call
  <2> DEFINE b == <<Eat(Str, "import", "value"), Expect({")"} \cup Str), Call("imports")>>
  <2>6. Path(z, b, y)
    BY <1>1, <2>1, <2>3, <2>4, <2>5, PathThree
  <2>7. Holds(z.mode, b)
    BY <2>1 DEF Holds
  <2> HIDE DEF b
  <2>8. Keeps(x, b, y)
    BY <1>1, <2>1, <2>6, <2>7 DEF Keeps
  <2>9. QED
    BY <1>2, <2>8 DEF b, parseImports, If
<1>3. CASE ~(cur.k # "EOF" /\ peek.k # ")")
  <2>1. y.cost < x.cost
    BY <1>1
  <2>2. Keeps(x, <<>>, y)
    BY <1>1, <2>1, NothingKeeps
  <2>3. QED
    BY <1>3, <2>2 DEF parseImports, If
<1>4. QED
  BY <1>2, <1>3

(***************************************************************************)
(* Services                                                                *)
(***************************************************************************)
\* A service, with what @server says of it.
LEMMA ServiceKeeps ==
  ASSUME NEW x, NEW y, Called(x, y, 2, 4), y.mode = "any", Quiet
  PROVE  Keeps(x, parseService(cur), y)
<1> DEFINE o == y.open
<1>1. /\ x \in Place /\ y \in Place /\ o \in Seq(Opens) /\ x.open = o /\ y.open = o
      /\ x.cost \in Nat /\ y.cost \in Nat /\ 2 <= x.cost /\ y.cost <= 4 /\ y.mode = "any"
  BY PlaceType DEF Called, MaxCalls
<1> HIDE DEF o
<1>2. CASE cur.k = "@server"
  <2> DEFINE q == Append(o, "{")
             z == At(o, 1, "quiet")
             m1 == At(o, 1, "any")
             m2 == At(o, 0, "any")
             m3 == At(o, 8, "quiet")
             m4 == At(o, 8, "any")
             m5 == At(q, 8, "any")
             m6 == At(q, 0, "any")
  <2>1. q \in Seq(Opens)
    BY <1>1, Opened DEF Opens
  <2>2. q = Append(o, "{")
    OBVIOUS
  <2> HIDE DEF q
  <2>3. /\ z \in Place /\ z.open = o /\ z.cost = 1 /\ z.mode = "quiet"
        /\ m1 \in Place /\ m1.open = o /\ m1.cost = 1 /\ m1.mode = "any"
        /\ m2 \in Place /\ m2.open = o /\ m2.cost = 0 /\ m2.mode = "any"
        /\ m3 \in Place /\ m3.open = o /\ m3.cost = 8 /\ m3.mode = "quiet"
        /\ m4 \in Place /\ m4.open = o /\ m4.cost = 8 /\ m4.mode = "any"
        /\ m5 \in Place /\ m5.open = q /\ m5.cost = 8 /\ m5.mode = "any"
        /\ m6 \in Place /\ m6.open = q /\ m6.cost = 0 /\ m6.mode = "any"
    BY <1>1, <2>1, PlaceFacts DEF MaxCalls, Modes
  <2> HIDE DEF z, m1, m2, m3, m4, m5, m6
  <2>4. m1.cost <= z.cost /\ 1 <= m1.cost /\ m2.cost <= 0 /\ m4.cost <= m3.cost /\ 1 <= m4.cost /\ 2 <= m5.cost
        /\ m6.cost <= 0
    BY <1>1, <2>3
  <2>5. Leads(z, Mark("server", "open"), m1)
    BY <1>1, <2>3, <2>4, MarkLeads DEF Mark
  <2>6. Leads(m1, Call("server"), m2)
    BY <1>1, <2>3, <2>4, CallLeads, Contracts DEF Call
  <2>7. Leads(m2, Skip({"service"}), m3)
    BY <1>1, <2>3, SkipLeads, PlainSets, PlainKinds DEF Skip
  <2>8. Leads(m3, Mark("service", "open"), m4)
    BY <1>1, <2>3, <2>4, MarkLeads DEF Mark
  <2>9. Leads(m4, Eat(Idents, "service", "name"), m4)
    BY <1>1, <2>3, EatLeads, PlainSets, PlainKinds DEF Eat
  <2>10. Leads(m4, Call("serviceName"), m2)
    BY <1>1, <2>3, <2>4, CallLeads, Contracts DEF Call
  <2>11. Leads(m2, Eat({"{"}, "service", "lbrace"), m5)
    BY <1>1, <2>3, <2>2, OpenLeads DEF Eat, Opens
  <2>12. Leads(m5, Call("items"), m6)
    BY <1>1, <2>3, <2>4, CallLeads, Contracts DEF Call
  <2>13. Leads(m6, Eat({"}"}, "service", "rbrace"), y)
    BY <1>1, <2>3, <2>2, CloseLeads DEF Eat, Closes, Opening
  <2>14. Path(z, <<Mark("server", "open"), Call("server"), Skip({"service"})>>, m3)
    BY <1>1, <2>3, <2>5, <2>6, <2>7, PathThree
  <2>15. Path(m3, <<Mark("service", "open"), Eat(Idents, "service", "name"), Call("serviceName"),
              Eat({"{"}, "service", "lbrace"), Call("items"), Eat({"}"}, "service", "rbrace")>>, y)
    BY <1>1, <2>3, <2>8, <2>9, <2>10, <2>11, <2>12, <2>13, PathSix
  <2> DEFINE b == <<Mark("server", "open"), Call("server"), Skip({"service"})>> \o <<Mark("service", "open"),
                    Eat(Idents, "service", "name"), Call("serviceName"), Eat({"{"}, "service", "lbrace"),
                    Call("items"), Eat({"}"}, "service", "rbrace")>>
  <2>16. Path(z, b, y)
    BY <2>14, <2>15, PathJoin
  <2>17. Holds(z.mode, b)
    BY <2>3, <1>2 DEF Holds, Quiet, Signs, Opens, Closes
  <2> HIDE DEF b
  <2>18. Keeps(x, b, y)
    BY <1>1, <2>3, <2>16, <2>17 DEF Keeps
  <2>19. QED
    BY <1>2, <2>18 DEF b, parseService, If
<1>3. CASE cur.k # "@server"
  <2> DEFINE q == Append(o, "{")
             z == At(o, 1, "quiet")
             m1 == At(o, 1, "any")
             m2 == At(o, 8, "any")
             m3 == At(o, 0, "any")
             m4 == At(q, 8, "any")
             m5 == At(q, 0, "any")
  <2>1. q \in Seq(Opens)
    BY <1>1, Opened DEF Opens
  <2>2. q = Append(o, "{")
    OBVIOUS
  <2> HIDE DEF q
  <2>3. /\ z \in Place /\ z.open = o /\ z.cost = 1 /\ z.mode = "quiet"
        /\ m1 \in Place /\ m1.open = o /\ m1.cost = 1 /\ m1.mode = "any"
        /\ m2 \in Place /\ m2.open = o /\ m2.cost = 8 /\ m2.mode = "any"
        /\ m3 \in Place /\ m3.open = o /\ m3.cost = 0 /\ m3.mode = "any"
        /\ m4 \in Place /\ m4.open = q /\ m4.cost = 8 /\ m4.mode = "any"
        /\ m5 \in Place /\ m5.open = q /\ m5.cost = 0 /\ m5.mode = "any"
    BY <1>1, <2>1, PlaceFacts DEF MaxCalls, Modes
  <2> HIDE DEF z, m1, m2, m3, m4, m5
  <2>4. m1.cost <= z.cost /\ 1 <= m2.cost /\ m3.cost <= 0 /\ 2 <= m4.cost /\ m5.cost <= 0
    BY <1>1, <2>3
  <2>5. Leads(z, Mark("service", "open"), m1)
    BY <1>1, <2>3, <2>4, MarkLeads DEF Mark
  <2>6. Leads(m1, Eat(Idents, "service", "name"), m2)
    BY <1>1, <2>3, EatLeads, PlainSets, PlainKinds DEF Eat
  <2>7. Leads(m2, Call("serviceName"), m3)
    BY <1>1, <2>3, <2>4, CallLeads, Contracts DEF Call
  <2>8. Leads(m3, Eat({"{"}, "service", "lbrace"), m4)
    BY <1>1, <2>3, <2>2, OpenLeads DEF Eat, Opens
  <2>9. Leads(m4, Call("items"), m5)
    BY <1>1, <2>3, <2>4, CallLeads, Contracts DEF Call
  <2>10. Leads(m5, Eat({"}"}, "service", "rbrace"), y)
    BY <1>1, <2>3, <2>2, CloseLeads DEF Eat, Closes, Opening
  <2>11. Path(z, <<>>, z)
    BY <1>1, <2>3, PathNone
  <2>12. Path(z, <<Mark("service", "open"), Eat(Idents, "service", "name"), Call("serviceName"),
              Eat({"{"}, "service", "lbrace"), Call("items"), Eat({"}"}, "service", "rbrace")>>, y)
    BY <1>1, <2>3, <2>5, <2>6, <2>7, <2>8, <2>9, <2>10, PathSix
  <2> DEFINE b == <<>> \o <<Mark("service", "open"), Eat(Idents, "service", "name"), Call("serviceName"),
                    Eat({"{"}, "service", "lbrace"), Call("items"), Eat({"}"}, "service", "rbrace")>>
  <2>13. Path(z, b, y)
    BY <2>11, <2>12, PathJoin
  <2>14. Holds(z.mode, b)
    BY <2>3, <1>3 DEF Holds, Quiet, Signs, Opens, Closes
  <2> HIDE DEF b
  <2>15. Keeps(x, b, y)
    BY <1>1, <2>3, <2>13, <2>14 DEF Keeps
  <2>16. QED
    BY <1>3, <2>15 DEF b, parseService, If
<1>4. QED
  BY <1>2, <1>3

\* The end of the name of a service.
LEMMA ServiceNameKeeps ==
  ASSUME NEW x, NEW y, Called(x, y, 1, 0), y.mode = "any"
  PROVE  Keeps(x, parseServiceNameExpr(peek), y)
<1> DEFINE o == y.open
<1>1. /\ x \in Place /\ y \in Place /\ o \in Seq(Opens) /\ x.open = o /\ y.open = o
      /\ x.cost \in Nat /\ y.cost \in Nat /\ 1 <= x.cost /\ y.cost <= 0 /\ y.mode = "any"
  BY PlaceType DEF Called, MaxCalls
<1> HIDE DEF o
<1>2. CASE peek.k = "-"
  <2> DEFINE z == At(o, 0, "any")
             m1 == At(o, 8, "any")
  <2>1. /\ z \in Place /\ z.open = o /\ z.cost = 0 /\ z.mode = "any"
        /\ m1 \in Place /\ m1.open = o /\ m1.cost = 8 /\ m1.mode = "any"
    BY <1>1, PlaceFacts DEF MaxCalls, Modes
  <2> HIDE DEF z, m1
  <2>2. Leads(z, Eat({"-"}, "service", "name"), m1)
    BY <1>1, <2>1, EatLeads, PlainSets, PlainKinds DEF Eat
  <2>3. Leads(m1, Eat({"api"}, "service", "name"), y)
    BY <1>1, <2>1, EatLeads, PlainSets, PlainKinds DEF Eat
  <2> DEFINE b == <<Eat({"-"}, "service", "name"), Eat({"api"}, "service", "name")>>
  <2>4. Path(z, b, y)
    BY <1>1, <2>1, <2>2, <2>3, PathTwo
  <2>5. Holds(z.mode, b)
    BY <2>1 DEF Holds
  <2> HIDE DEF b
  <2>6. Keeps(x, b, y)
    BY <1>1, <2>1, <2>4, <2>5 DEF Keeps
  <2>7. QED
    BY <1>2, <2>6 DEF b, parseServiceNameExpr, If
<1>3. CASE peek.k # "-"
  <2>1. y.cost < x.cost
    BY <1>1
  <2>2. Keeps(x, <<>>, y)
    BY <1>1, <2>1, NothingKeeps
  <2>3. QED
    BY <1>3, <2>2 DEF parseServiceNameExpr, If
<1>4. QED
  BY <1>2, <1>3

\* What @server says.
LEMMA ServerKeeps ==
  ASSUME NEW x, NEW y, Called(x, y, 1, 0), y.mode = "any"
  PROVE  Keeps(x, parseAtServerStmt, y)
<1> DEFINE o == y.open
<1>1. /\ x \in Place /\ y \in Place /\ o \in Seq(Opens) /\ x.open = o /\ y.open = o
      /\ x.cost \in Nat /\ y.cost \in Nat /\ 1 <= x.cost /\ y.cost <= 0 /\ y.mode = "any"
  BY PlaceType DEF Called, MaxCalls
<1> HIDE DEF o
<1>2. Keeps(x, parseAtServerStmt, y)
  <2> DEFINE q == Append(o, "(")
             z == At(o, 0, "any")
             m1 == At(q, 8, "any")
             m2 == At(q, 0, "any")
  <2>1. q \in Seq(Opens)
    BY <1>1, Opened DEF Opens
  <2>2. q = Append(o, "(")
    OBVIOUS
  <2> HIDE DEF q
  <2>3. /\ z \in Place /\ z.open = o /\ z.cost = 0 /\ z.mode = "any"
        /\ m1 \in Place /\ m1.open = q /\ m1.cost = 8 /\ m1.mode = "any"
        /\ m2 \in Place /\ m2.open = q /\ m2.cost = 0 /\ m2.mode = "any"
    BY <1>1, <2>1, PlaceFacts DEF MaxCalls, Modes
  <2> HIDE DEF z, m1, m2
  <2>4. 2 <= m1.cost /\ m2.cost <= 0
    BY <1>1, <2>3
  <2>5. Leads(z, Eat({"("}, "server", "lparen"), m1)
    BY <1>1, <2>3, <2>2, OpenLeads DEF Eat, Opens
  <2>6. Leads(m1, Call("serverPairs"), m2)
    BY <1>1, <2>3, <2>4, CallLeads, Contracts DEF Call
  <2>7. Leads(m2, Eat({")"}, "server", "rparen"), y)
    BY <1>1, <2>3, <2>2, CloseLeads DEF Eat, Closes, Opening
  <2> DEFINE b == <<Eat({"("}, "server", "lparen"), Call("serverPairs"), Eat({")"}, "server", "rparen")>>
  <2>8. Path(z, b, y)
    BY <1>1, <2>3, <2>5, <2>6, <2>7, PathThree
  <2>9. Holds(z.mode, b)
    BY <2>3 DEF Holds
  <2> HIDE DEF b
  <2>10. Keeps(x, b, y)
    BY <1>1, <2>3, <2>8, <2>9 DEF Keeps
  <2>11. QED
    BY <2>10 DEF b, parseAtServerStmt
<1>3. QED
  BY <1>2

\* Pair by pair; the parenthesis ends them.
LEMMA ServerPairsKeep ==
  ASSUME NEW x, NEW y, Called(x, y, 2, 0), y.mode = "any"
  PROVE  Keeps(x, parseServerPairs(cur, peek), y)
<1> DEFINE o == y.open
<1>1. /\ x \in Place /\ y \in Place /\ o \in Seq(Opens) /\ x.open = o /\ y.open = o
      /\ x.cost \in Nat /\ y.cost \in Nat /\ 2 <= x.cost /\ y.cost <= 0 /\ y.mode = "any"
  BY PlaceType DEF Called, MaxCalls
<1> HIDE DEF o
<1>2. CASE cur.k # "EOF" /\ peek.k # ")"
  <2> DEFINE z == At(o, 1, "now")
             m1 == At(o, 2, "any")
  <2>1. /\ z \in Place /\ z.open = o /\ z.cost = 1 /\ z.mode = "now"
        /\ m1 \in Place /\ m1.open = o /\ m1.cost = 2 /\ m1.mode = "any"
    BY <1>1, PlaceFacts DEF MaxCalls, Modes
  <2> HIDE DEF z, m1
  <2>2. 1 <= z.cost /\ m1.cost <= 2 /\ m1.cost <= m1.cost /\ 2 <= m1.cost /\ y.cost <= 0
    BY <1>1, <2>1
  <2>3. Leads(z, Call("serverPair"), m1)
    BY <1>1, <2>1, <2>2, AskingLeads, Contracts DEF Call
  <2>4. Leads(m1, Expect({")"} \cup Idents), m1)
    BY <1>1, <2>1, <2>2, ExpectLeads DEF Expect
  <2>5. Leads(m1, Call("serverPairs"), y)
    BY <1>1, <2>1, <2>2, CallLeads, Contracts DEF Call
  <2> DEFINE b == <<Call("serverPair"), Expect({")"} \cup Idents), Call("serverPairs")>>
  <2>6. Path(z, b, y)
    BY <1>1, <2>1, <2>3, <2>4, <2>5, PathThree
  <2>7. Holds(z.mode, b)
    BY <2>1, <1>2 DEF Holds, Ready, Op, Call
  <2> HIDE DEF b
  <2>8. Keeps(x, b, y)
    BY <1>1, <2>1, <2>6, <2>7 DEF Keeps
  <2>9. QED
    BY <1>2, <2>8 DEF b, parseServerPairs, If
<1>3. CASE ~(cur.k # "EOF" /\ peek.k # ")")
  <2>1. y.cost < x.cost
    BY <1>1
  <2>2. Keeps(x, <<>>, y)
    BY <1>1, <2>1, NothingKeeps
  <2>3. QED
    BY <1>3, <2>2 DEF parseServerPairs, If
<1>4. QED
  BY <1>2, <1>3

\* A key, which is no parenthesis, and its value.
LEMMA ServerPairKeeps ==
  ASSUME NEW x, NEW y, Called(x, y, 1, 2), y.mode = "any", peek.k # ")"
  PROVE  Keeps(x, parseAtServerKVExpression, y)
<1> DEFINE o == y.open
<1>1. /\ x \in Place /\ y \in Place /\ o \in Seq(Opens) /\ x.open = o /\ y.open = o
      /\ x.cost \in Nat /\ y.cost \in Nat /\ 1 <= x.cost /\ y.cost <= 2 /\ y.mode = "any"
  BY PlaceType DEF Called, MaxCalls
<1> HIDE DEF o
<1>2. Keeps(x, parseAtServerKVExpression, y)
  <2> DEFINE z == At(o, 0, "now")
             m1 == At(o, 8, "any")
  <2>1. /\ z \in Place /\ z.open = o /\ z.cost = 0 /\ z.mode = "now"
        /\ m1 \in Place /\ m1.open = o /\ m1.cost = 8 /\ m1.mode = "any"
    BY <1>1, PlaceFacts DEF MaxCalls, Modes
  <2> HIDE DEF z, m1
  <2>2. m1.cost <= m1.cost /\ 4 <= m1.cost /\ y.cost <= 2
    BY <1>1, <2>1
  <2>3. Leads(z, Eat(Idents \cup {")"}, "server", "key"), m1)
    BY <1>1, <2>1, KeyLeads, PlainSets DEF Eat
  <2>4. Leads(m1, Eat({":"}, "server", "colon"), m1)
    BY <1>1, <2>1, EatLeads, PlainSets, PlainKinds DEF Eat
  <2>5. Leads(m1, Expect({"/", "duration", "int"} \cup Idents \cup Str), m1)
    BY <1>1, <2>1, <2>2, ExpectLeads DEF Expect
  <2>6. Leads(m1, Call("serverValue"), y)
    BY <1>1, <2>1, <2>2, CallLeads, Contracts DEF Call
  <2> DEFINE b == <<Eat(Idents \cup {")"}, "server", "key"), Eat({":"}, "server", "colon"),
                    Expect({"/", "duration", "int"} \cup Idents \cup Str), Call("serverValue")>>
  <2>7. Path(z, b, y)
    BY <1>1, <2>1, <2>3, <2>4, <2>5, <2>6, PathFour
  <2>8. Holds(z.mode, b)
    BY <2>1, <1>1 DEF Holds, Ready, Op, Eat
  <2> HIDE DEF b
  <2>9. Keeps(x, b, y)
    BY <1>1, <2>1, <2>7, <2>8 DEF Keeps
  <2>10. QED
    BY <2>9 DEF b, parseAtServerKVExpression
<1>3. QED
  BY <1>2

\* A value of @server.
LEMMA ServerValueKeeps ==
  ASSUME NEW x, NEW y, Called(x, y, 4, 2), y.mode = "any"
  PROVE  Keeps(x, parseServerValue(peek), y)
<1> DEFINE o == y.open
<1>1. /\ x \in Place /\ y \in Place /\ o \in Seq(Opens) /\ x.open = o /\ y.open = o
      /\ x.cost \in Nat /\ y.cost \in Nat /\ 4 <= x.cost /\ y.cost <= 2 /\ y.mode = "any"
  BY PlaceType DEF Called, MaxCalls
<1> HIDE DEF o
<1>2. CASE peek.k = "/"
  <2> DEFINE z == At(o, 3, "any")
  <2>1. z \in Place /\ z.open = o /\ z.cost = 3 /\ z.mode = "any"
    BY <1>1, PlaceFacts DEF MaxCalls, Modes
  <2> HIDE DEF z
  <2>2. 3 <= z.cost /\ y.cost <= 2
    BY <1>1, <2>1
  <2>3. Leads(z, Call("valuePath"), y)
    BY <1>1, <2>1, <2>2, CallLeads, Contracts DEF Call
  <2> DEFINE b == <<Call("valuePath")>>
  <2>4. Path(z, b, y)
    BY <1>1, <2>1, <2>3, PathOne
  <2>5. Holds(z.mode, b)
    BY <2>1 DEF Holds
  <2> HIDE DEF b
  <2>6. Keeps(x, b, y)
    BY <1>1, <2>1, <2>4, <2>5 DEF Keeps
  <2>7. QED
    BY <1>2, <2>6 DEF b, parseServerValue, If, Str
<1>3. CASE peek.k \in {"duration", "int"} \cup Str
  <2> DEFINE z == At(o, 3, "any")
  <2>1. z \in Place /\ z.open = o /\ z.cost = 3 /\ z.mode = "any"
    BY <1>1, PlaceFacts DEF MaxCalls, Modes
  <2> HIDE DEF z
  <2>2. Leads(z, Eat({peek.k}, "server", "value"), y)
    BY <1>1, <2>1, <1>3, EatLeads, PlainSets, PlainKinds DEF Eat
  <2> DEFINE b == <<Eat({peek.k}, "server", "value")>>
  <2>3. Path(z, b, y)
    BY <1>1, <2>1, <2>2, PathOne
  <2>4. Holds(z.mode, b)
    BY <2>1 DEF Holds
  <2> HIDE DEF b
  <2>5. Keeps(x, b, y)
    BY <1>1, <2>1, <2>3, <2>4 DEF Keeps
  <2>6. QED
    BY <1>3, <2>5 DEF b, parseServerValue, If, Str
<1>4. CASE peek.k # "/" /\ peek.k \notin {"duration", "int"} \cup Str
  <2> DEFINE z == At(o, 3, "any")
             m1 == At(o, 8, "any")
  <2>1. /\ z \in Place /\ z.open = o /\ z.cost = 3 /\ z.mode = "any"
        /\ m1 \in Place /\ m1.open = o /\ m1.cost = 8 /\ m1.mode = "any"
    BY <1>1, PlaceFacts DEF MaxCalls, Modes
  <2> HIDE DEF z, m1
  <2>2. 4 <= m1.cost /\ y.cost <= 2
    BY <1>1, <2>1
  <2>3. Leads(z, ValueWord, m1)
    BY <1>1, <2>1, EatLeads, PlainSets, PlainKinds DEF ValueWord, Eat
  <2>4. Leads(m1, Call("valueRest"), y)
    BY <1>1, <2>1, <2>2, CallLeads, Contracts DEF Call
  <2> DEFINE b == <<ValueWord, Call("valueRest")>>
  <2>5. Path(z, b, y)
    BY <1>1, <2>1, <2>3, <2>4, PathTwo
  <2>6. Holds(z.mode, b)
    BY <2>1 DEF Holds
  <2> HIDE DEF b
  <2>7. Keeps(x, b, y)
    BY <1>1, <2>1, <2>5, <2>6 DEF Keeps
  <2>8. QED
    BY <1>4, <2>7 DEF b, parseServerValue, If, Str
<1>5. QED
  BY <1>2, <1>3, <1>4

\* How a value goes on.
LEMMA ValueRestKeeps ==
  ASSUME NEW x, NEW y, Called(x, y, 4, 2), y.mode = "any"
  PROVE  Keeps(x, parseValueRest(peek), y)
<1> DEFINE o == y.open
<1>1. /\ x \in Place /\ y \in Place /\ o \in Seq(Opens) /\ x.open = o /\ y.open = o
      /\ x.cost \in Nat /\ y.cost \in Nat /\ 4 <= x.cost /\ y.cost <= 2 /\ y.mode = "any"
  BY PlaceType DEF Called, MaxCalls
<1> HIDE DEF o
<1>2. CASE peek.k = ","
  <2> DEFINE z == At(o, 3, "any")
  <2>1. z \in Place /\ z.open = o /\ z.cost = 3 /\ z.mode = "any"
    BY <1>1, PlaceFacts DEF MaxCalls, Modes
  <2> HIDE DEF z
  <2>2. 3 <= z.cost /\ y.cost <= 2
    BY <1>1, <2>1
  <2>3. Leads(z, Call("commas"), y)
    BY <1>1, <2>1, <2>2, CallLeads, Contracts DEF Call
  <2> DEFINE b == <<Call("commas")>>
  <2>4. Path(z, b, y)
    BY <1>1, <2>1, <2>3, PathOne
  <2>5. Holds(z.mode, b)
    BY <2>1 DEF Holds
  <2> HIDE DEF b
  <2>6. Keeps(x, b, y)
    BY <1>1, <2>1, <2>4, <2>5 DEF Keeps
  <2>7. QED
    BY <1>2, <2>6 DEF b, parseValueRest, If
<1>3. CASE peek.k = "-"
  <2> DEFINE z == At(o, 3, "any")
  <2>1. z \in Place /\ z.open = o /\ z.cost = 3 /\ z.mode = "any"
    BY <1>1, PlaceFacts DEF MaxCalls, Modes
  <2> HIDE DEF z
  <2>2. 3 <= z.cost /\ y.cost <= 2
    BY <1>1, <2>1
  <2>3. Leads(z, Call("dashes"), y)
    BY <1>1, <2>1, <2>2, CallLeads, Contracts DEF Call
  <2> DEFINE b == <<Call("dashes")>>
  <2>4. Path(z, b, y)
    BY <1>1, <2>1, <2>3, PathOne
  <2>5. Holds(z.mode, b)
    BY <2>1 DEF Holds
  <2> HIDE DEF b
  <2>6. Keeps(x, b, y)
    BY <1>1, <2>1, <2>4, <2>5 DEF Keeps
  <2>7. QED
    BY <1>3, <2>6 DEF b, parseValueRest, If
<1>4. CASE peek.k # "," /\ peek.k # "-"
  <2> DEFINE z == At(o, 3, "any")
  <2>1. z \in Place /\ z.open = o /\ z.cost = 3 /\ z.mode = "any"
    BY <1>1, PlaceFacts DEF MaxCalls, Modes
  <2> HIDE DEF z
  <2>2. 3 <= z.cost /\ y.cost <= 2
    BY <1>1, <2>1
  <2>3. Leads(z, Call("valuePath"), y)
    BY <1>1, <2>1, <2>2, CallLeads, Contracts DEF Call
  <2> DEFINE b == <<Call("valuePath")>>
  <2>4. Path(z, b, y)
    BY <1>1, <2>1, <2>3, PathOne
  <2>5. Holds(z.mode, b)
    BY <2>1 DEF Holds
  <2> HIDE DEF b
  <2>6. Keeps(x, b, y)
    BY <1>1, <2>1, <2>4, <2>5 DEF Keeps
  <2>7. QED
    BY <1>4, <2>6 DEF b, parseValueRest, If
<1>5. QED
  BY <1>2, <1>3, <1>4

\* Words with commas between them.
LEMMA CommasKeep ==
  ASSUME NEW x, NEW y, Called(x, y, 3, 2), y.mode = "any"
  PROVE  Keeps(x, parseCommas(peek), y)
<1> DEFINE o == y.open
<1>1. /\ x \in Place /\ y \in Place /\ o \in Seq(Opens) /\ x.open = o /\ y.open = o
      /\ x.cost \in Nat /\ y.cost \in Nat /\ 3 <= x.cost /\ y.cost <= 2 /\ y.mode = "any"
  BY PlaceType DEF Called, MaxCalls
<1> HIDE DEF o
<1>2. CASE peek.k = ","
  <2> DEFINE z == At(o, 2, "any")
             m1 == At(o, 8, "any")
  <2>1. /\ z \in Place /\ z.open = o /\ z.cost = 2 /\ z.mode = "any"
        /\ m1 \in Place /\ m1.open = o /\ m1.cost = 8 /\ m1.mode = "any"
    BY <1>1, PlaceFacts DEF MaxCalls, Modes
  <2> HIDE DEF z, m1
  <2>2. 3 <= m1.cost /\ y.cost <= 2
    BY <1>1, <2>1
  <2>3. Leads(z, Eat({","}, "server", "value"), m1)
    BY <1>1, <2>1, EatLeads, PlainSets, PlainKinds DEF Eat
  <2>4. Leads(m1, ValueWord, m1)
    BY <1>1, <2>1, EatLeads, PlainSets, PlainKinds DEF ValueWord, Eat
  <2>5. Leads(m1, Call("commas"), y)
    BY <1>1, <2>1, <2>2, CallLeads, Contracts DEF Call
  <2> DEFINE b == <<Eat({","}, "server", "value"), ValueWord, Call("commas")>>
  <2>6. Path(z, b, y)
    BY <1>1, <2>1, <2>3, <2>4, <2>5, PathThree
  <2>7. Holds(z.mode, b)
    BY <2>1 DEF Holds
  <2> HIDE DEF b
  <2>8. Keeps(x, b, y)
    BY <1>1, <2>1, <2>6, <2>7 DEF Keeps
  <2>9. QED
    BY <1>2, <2>8 DEF b, parseCommas, If
<1>3. CASE peek.k # ","
  <2>1. y.cost < x.cost
    BY <1>1
  <2>2. Keeps(x, <<>>, y)
    BY <1>1, <2>1, NothingKeeps
  <2>3. QED
    BY <1>3, <2>2 DEF parseCommas, If
<1>4. QED
  BY <1>2, <1>3

\* Words with dashes between them.
LEMMA DashesKeep ==
  ASSUME NEW x, NEW y, Called(x, y, 3, 2), y.mode = "any"
  PROVE  Keeps(x, parseDashes(peek), y)
<1> DEFINE o == y.open
<1>1. /\ x \in Place /\ y \in Place /\ o \in Seq(Opens) /\ x.open = o /\ y.open = o
      /\ x.cost \in Nat /\ y.cost \in Nat /\ 3 <= x.cost /\ y.cost <= 2 /\ y.mode = "any"
  BY PlaceType DEF Called, MaxCalls
<1> HIDE DEF o
<1>2. CASE peek.k = "-"
  <2> DEFINE z == At(o, 2, "any")
             m1 == At(o, 8, "any")
  <2>1. /\ z \in Place /\ z.open = o /\ z.cost = 2 /\ z.mode = "any"
        /\ m1 \in Place /\ m1.open = o /\ m1.cost = 8 /\ m1.mode = "any"
    BY <1>1, PlaceFacts DEF MaxCalls, Modes
  <2> HIDE DEF z, m1
  <2>2. 3 <= m1.cost /\ y.cost <= 2
    BY <1>1, <2>1
  <2>3. Leads(z, Eat({"-"}, "server", "value"), m1)
    BY <1>1, <2>1, EatLeads, PlainSets, PlainKinds DEF Eat
  <2>4. Leads(m1, ValueWord, m1)
    BY <1>1, <2>1, EatLeads, PlainSets, PlainKinds DEF ValueWord, Eat
  <2>5. Leads(m1, Call("dashes"), y)
    BY <1>1, <2>1, <2>2, CallLeads, Contracts DEF Call
  <2> DEFINE b == <<Eat({"-"}, "server", "value"), ValueWord, Call("dashes")>>
  <2>6. Path(z, b, y)
    BY <1>1, <2>1, <2>3, <2>4, <2>5, PathThree
  <2>7. Holds(z.mode, b)
    BY <2>1 DEF Holds
  <2> HIDE DEF b
  <2>8. Keeps(x, b, y)
    BY <1>1, <2>1, <2>6, <2>7 DEF Keeps
  <2>9. QED
    BY <1>2, <2>8 DEF b, parseDashes, If
<1>3. CASE peek.k # "-"
  <2>1. y.cost < x.cost
    BY <1>1
  <2>2. Keeps(x, <<>>, y)
    BY <1>1, <2>1, NothingKeeps
  <2>3. QED
    BY <1>3, <2>2 DEF parseDashes, If
<1>4. QED
  BY <1>2, <1>3

\* A path as a value.
LEMMA ValuePathKeeps ==
  ASSUME NEW x, NEW y, Called(x, y, 3, 2), y.mode = "any"
  PROVE  Keeps(x, parseValuePath(peek), y)
<1> DEFINE o == y.open
<1>1. /\ x \in Place /\ y \in Place /\ o \in Seq(Opens) /\ x.open = o /\ y.open = o
      /\ x.cost \in Nat /\ y.cost \in Nat /\ 3 <= x.cost /\ y.cost <= 2 /\ y.mode = "any"
  BY PlaceType DEF Called, MaxCalls
<1> HIDE DEF o
<1>2. CASE peek.k = "/"
  <2> DEFINE z == At(o, 2, "any")
             m1 == At(o, 8, "any")
             m2 == At(o, 3, "any")
  <2>1. /\ z \in Place /\ z.open = o /\ z.cost = 2 /\ z.mode = "any"
        /\ m1 \in Place /\ m1.open = o /\ m1.cost = 8 /\ m1.mode = "any"
        /\ m2 \in Place /\ m2.open = o /\ m2.cost = 3 /\ m2.mode = "any"
    BY <1>1, PlaceFacts DEF MaxCalls, Modes
  <2> HIDE DEF z, m1, m2
  <2>2. 4 <= m1.cost /\ m2.cost <= 3 /\ 3 <= m2.cost /\ y.cost <= 2
    BY <1>1, <2>1
  <2>3. Leads(z, Eat({"/"}, "server", "value"), m1)
    BY <1>1, <2>1, EatLeads, PlainSets, PlainKinds DEF Eat
  <2>4. Leads(m1, ValueWord, m1)
    BY <1>1, <2>1, EatLeads, PlainSets, PlainKinds DEF ValueWord, Eat
  <2>5. Leads(m1, Call("valueDash"), m2)
    BY <1>1, <2>1, <2>2, CallLeads, Contracts DEF Call
  <2>6. Leads(m2, Call("valuePath"), y)
    BY <1>1, <2>1, <2>2, CallLeads, Contracts DEF Call
  <2> DEFINE b == <<Eat({"/"}, "server", "value"), ValueWord, Call("valueDash"), Call("valuePath")>>
  <2>7. Path(z, b, y)
    BY <1>1, <2>1, <2>3, <2>4, <2>5, <2>6, PathFour
  <2>8. Holds(z.mode, b)
    BY <2>1 DEF Holds
  <2> HIDE DEF b
  <2>9. Keeps(x, b, y)
    BY <1>1, <2>1, <2>7, <2>8 DEF Keeps
  <2>10. QED
    BY <1>2, <2>9 DEF b, parseValuePath, If
<1>3. CASE peek.k # "/"
  <2>1. y.cost < x.cost
    BY <1>1
  <2>2. Keeps(x, <<>>, y)
    BY <1>1, <2>1, NothingKeeps
  <2>3. QED
    BY <1>3, <2>2 DEF parseValuePath, If
<1>4. QED
  BY <1>2, <1>3

\* A dash in such a path.
LEMMA ValueDashKeeps ==
  ASSUME NEW x, NEW y, Called(x, y, 4, 3), y.mode = "any"
  PROVE  Keeps(x, parseValueDash(peek), y)
<1> DEFINE o == y.open
<1>1. /\ x \in Place /\ y \in Place /\ o \in Seq(Opens) /\ x.open = o /\ y.open = o
      /\ x.cost \in Nat /\ y.cost \in Nat /\ 4 <= x.cost /\ y.cost <= 3 /\ y.mode = "any"
  BY PlaceType DEF Called, MaxCalls
<1> HIDE DEF o
<1>2. CASE peek.k = "-"
  <2> DEFINE z == At(o, 3, "any")
             m1 == At(o, 8, "any")
  <2>1. /\ z \in Place /\ z.open = o /\ z.cost = 3 /\ z.mode = "any"
        /\ m1 \in Place /\ m1.open = o /\ m1.cost = 8 /\ m1.mode = "any"
    BY <1>1, PlaceFacts DEF MaxCalls, Modes
  <2> HIDE DEF z, m1
  <2>2. Leads(z, Eat({"-"}, "server", "value"), m1)
    BY <1>1, <2>1, EatLeads, PlainSets, PlainKinds DEF Eat
  <2>3. Leads(m1, ValueWord, y)
    BY <1>1, <2>1, EatLeads, PlainSets, PlainKinds DEF ValueWord, Eat
  <2> DEFINE b == <<Eat({"-"}, "server", "value"), ValueWord>>
  <2>4. Path(z, b, y)
    BY <1>1, <2>1, <2>2, <2>3, PathTwo
  <2>5. Holds(z.mode, b)
    BY <2>1 DEF Holds
  <2> HIDE DEF b
  <2>6. Keeps(x, b, y)
    BY <1>1, <2>1, <2>4, <2>5 DEF Keeps
  <2>7. QED
    BY <1>2, <2>6 DEF b, parseValueDash, If
<1>3. CASE peek.k # "-"
  <2>1. y.cost < x.cost
    BY <1>1
  <2>2. Keeps(x, <<>>, y)
    BY <1>1, <2>1, NothingKeeps
  <2>3. QED
    BY <1>3, <2>2 DEF parseValueDash, If
<1>4. QED
  BY <1>2, <1>3

\* Item by item.
LEMMA ItemsKeep ==
  ASSUME NEW x, NEW y, Called(x, y, 2, 0), y.mode = "any"
  PROVE  Keeps(x, parseServiceItemsStmt(cur, peek), y)
<1> DEFINE o == y.open
<1>1. /\ x \in Place /\ y \in Place /\ o \in Seq(Opens) /\ x.open = o /\ y.open = o
      /\ x.cost \in Nat /\ y.cost \in Nat /\ 2 <= x.cost /\ y.cost <= 0 /\ y.mode = "any"
  BY PlaceType DEF Called, MaxCalls
<1> HIDE DEF o
<1>2. CASE cur.k # "EOF" /\ peek.k # "}"
  <2> DEFINE z == At(o, 1, "any")
             m1 == At(o, 3, "rest")
  <2>1. /\ z \in Place /\ z.open = o /\ z.cost = 1 /\ z.mode = "any"
        /\ m1 \in Place /\ m1.open = o /\ m1.cost = 3 /\ m1.mode = "rest"
    BY <1>1, PlaceFacts DEF MaxCalls, Modes
  <2> HIDE DEF z, m1
  <2>2. 1 <= z.cost /\ m1.cost <= 3 /\ 3 <= m1.cost /\ y.cost <= 0
    BY <1>1, <2>1
  <2>3. Leads(z, Call("item"), m1)
    BY <1>1, <2>1, <2>2, EndLeads, Contracts DEF Call, ItemEnds
  <2>4. Leads(m1, Call("itemsRest"), y)
    BY <1>1, <2>1, <2>2, RestLeads
  <2> DEFINE b == <<Call("item"), Call("itemsRest")>>
  <2>5. Path(z, b, y)
    BY <1>1, <2>1, <2>3, <2>4, PathTwo
  <2>6. Holds(z.mode, b)
    BY <2>1 DEF Holds
  <2> HIDE DEF b
  <2>7. Keeps(x, b, y)
    BY <1>1, <2>1, <2>5, <2>6 DEF Keeps
  <2>8. QED
    BY <1>2, <2>7 DEF b, parseServiceItemsStmt, If
<1>3. CASE ~(cur.k # "EOF" /\ peek.k # "}")
  <2>1. y.cost < x.cost
    BY <1>1
  <2>2. Keeps(x, <<>>, y)
    BY <1>1, <2>1, NothingKeeps
  <2>3. QED
    BY <1>3, <2>2 DEF parseServiceItemsStmt, If
<1>4. QED
  BY <1>2, <1>3

\* Behind an item.
LEMMA ItemsRestKeeps ==
  ASSUME NEW x, NEW y, Called(x, y, 3, 0), y.mode = "any"
  PROVE  Keeps(x, parseItemsRest(peek), y)
<1> DEFINE o == y.open
<1>1. /\ x \in Place /\ y \in Place /\ o \in Seq(Opens) /\ x.open = o /\ y.open = o
      /\ x.cost \in Nat /\ y.cost \in Nat /\ 3 <= x.cost /\ y.cost <= 0 /\ y.mode = "any"
  BY PlaceType DEF Called, MaxCalls
<1> HIDE DEF o
<1>2. CASE peek.k # "}"
  <2> DEFINE z == At(o, 2, "any")
  <2>1. z \in Place /\ z.open = o /\ z.cost = 2 /\ z.mode = "any"
    BY <1>1, PlaceFacts DEF MaxCalls, Modes
  <2> HIDE DEF z
  <2>2. z.cost <= z.cost /\ 2 <= z.cost /\ y.cost <= 0
    BY <1>1, <2>1
  <2>3. Leads(z, Expect(RouteNext), z)
    BY <1>1, <2>1, <2>2, ExpectLeads DEF Expect
  <2>4. Leads(z, Call("items"), y)
    BY <1>1, <2>1, <2>2, CallLeads, Contracts DEF Call
  <2> DEFINE b == <<Expect(RouteNext), Call("items")>>
  <2>5. Path(z, b, y)
    BY <1>1, <2>1, <2>3, <2>4, PathTwo
  <2>6. Holds(z.mode, b)
    BY <2>1 DEF Holds
  <2> HIDE DEF b
  <2>7. Keeps(x, b, y)
    BY <1>1, <2>1, <2>5, <2>6 DEF Keeps
  <2>8. QED
    BY <1>2, <2>7 DEF b, parseItemsRest, If
<1>3. CASE peek.k = "}"
  <2>1. y.cost < x.cost
    BY <1>1
  <2>2. Keeps(x, <<>>, y)
    BY <1>1, <2>1, NothingKeeps
  <2>3. QED
    BY <1>3, <2>2 DEF parseItemsRest, If
<1>4. QED
  BY <1>2, <1>3

\* An item, with what @doc says of it.
LEMMA ItemKeeps ==
  ASSUME NEW x, NEW y, Called(x, y, 1, 3), y.mode = "rest"
  PROVE  Keeps(x, parseServiceItemStmt(peek), y)
<1> DEFINE o == y.open
<1>1. /\ x \in Place /\ y \in Place /\ o \in Seq(Opens) /\ x.open = o /\ y.open = o
      /\ x.cost \in Nat /\ y.cost \in Nat /\ 1 <= x.cost /\ y.cost <= 3 /\ y.mode = "rest"
  BY PlaceType DEF Called, MaxCalls
<1> HIDE DEF o
<1>2. CASE peek.k = "@doc"
  <2> DEFINE z == At(o, 0, "any")
             m1 == At(o, 8, "any")
             m2 == At(o, 8, "quiet")
  <2>1. /\ z \in Place /\ z.open = o /\ z.cost = 0 /\ z.mode = "any"
        /\ m1 \in Place /\ m1.open = o /\ m1.cost = 8 /\ m1.mode = "any"
        /\ m2 \in Place /\ m2.open = o /\ m2.cost = 8 /\ m2.mode = "quiet"
    BY <1>1, PlaceFacts DEF MaxCalls, Modes
  <2> HIDE DEF z, m1, m2
  <2>2. 2 <= m1.cost /\ z.cost <= 0 /\ 4 <= m2.cost /\ y.cost <= 3
    BY <1>1, <2>1
  <2>3. Leads(z, Eat({"@doc"}, "doc", "open"), m1)
    BY <1>1, <2>1, EatLeads, PlainSets, PlainKinds DEF Eat
  <2>4. Leads(m1, Call("doc"), z)
    BY <1>1, <2>1, <2>2, CallLeads, Contracts DEF Call
  <2>5. Leads(z, Eat({"@handler", "}"}, "handler", "open"), m2)
    BY <1>1, <2>1, HandlerLeads DEF Eat
  <2>6. Leads(m2, Call("itemRest"), y)
    BY <1>1, <2>1, <2>2, EndLeads, Contracts DEF Call, ItemEnds
  <2>7. Path(z, <<Eat({"@doc"}, "doc", "open"), Call("doc")>>, z)
    BY <1>1, <2>1, <2>3, <2>4, PathTwo
  <2>8. Path(z, <<Eat({"@handler", "}"}, "handler", "open"), Call("itemRest")>>, y)
    BY <1>1, <2>1, <2>5, <2>6, PathTwo
  <2> DEFINE b == <<Eat({"@doc"}, "doc", "open"), Call("doc")>> \o <<Eat({"@handler", "}"}, "handler", "open"),
                    Call("itemRest")>>
  <2>9. Path(z, b, y)
    BY <2>7, <2>8, PathJoin
  <2>10. Holds(z.mode, b)
    BY <2>1 DEF Holds
  <2> HIDE DEF b
  <2>11. Keeps(x, b, y)
    BY <1>1, <2>1, <2>9, <2>10 DEF Keeps
  <2>12. QED
    BY <1>2, <2>11 DEF b, parseServiceItemStmt, If
<1>3. CASE peek.k # "@doc"
  <2> DEFINE z == At(o, 0, "any")
             m1 == At(o, 8, "quiet")
  <2>1. /\ z \in Place /\ z.open = o /\ z.cost = 0 /\ z.mode = "any"
        /\ m1 \in Place /\ m1.open = o /\ m1.cost = 8 /\ m1.mode = "quiet"
    BY <1>1, PlaceFacts DEF MaxCalls, Modes
  <2> HIDE DEF z, m1
  <2>2. 4 <= m1.cost /\ y.cost <= 3
    BY <1>1, <2>1
  <2>3. Leads(z, Eat({"@handler", "}"}, "handler", "open"), m1)
    BY <1>1, <2>1, HandlerLeads DEF Eat
  <2>4. Leads(m1, Call("itemRest"), y)
    BY <1>1, <2>1, <2>2, EndLeads, Contracts DEF Call, ItemEnds
  <2>5. Path(z, <<>>, z)
    BY <1>1, <2>1, PathNone
  <2>6. Path(z, <<Eat({"@handler", "}"}, "handler", "open"), Call("itemRest")>>, y)
    BY <1>1, <2>1, <2>3, <2>4, PathTwo
  <2> DEFINE b == <<>> \o <<Eat({"@handler", "}"}, "handler", "open"), Call("itemRest")>>
  <2>7. Path(z, b, y)
    BY <2>5, <2>6, PathJoin
  <2>8. Holds(z.mode, b)
    BY <2>1 DEF Holds
  <2> HIDE DEF b
  <2>9. Keeps(x, b, y)
    BY <1>1, <2>1, <2>7, <2>8 DEF Keeps
  <2>10. QED
    BY <1>3, <2>9 DEF b, parseServiceItemStmt, If
<1>4. QED
  BY <1>2, <1>3

\* An item that ends after its handler, or has a route.
LEMMA ItemRestKeeps ==
  ASSUME NEW x, NEW y, Called(x, y, 4, 3), y.mode = "rest", Quiet
  PROVE  Keeps(x, parseItemRest(peek), y)
<1> DEFINE o == y.open
<1>1. /\ x \in Place /\ y \in Place /\ o \in Seq(Opens) /\ x.open = o /\ y.open = o
      /\ x.cost \in Nat /\ y.cost \in Nat /\ 4 <= x.cost /\ y.cost <= 3 /\ y.mode = "rest"
  BY PlaceType DEF Called, MaxCalls
<1> HIDE DEF o
<1>2. CASE peek.k = "}"
  <2> DEFINE z == At(o, 3, "quiet")
  <2>1. z \in Place /\ z.open = o /\ z.cost = 3 /\ z.mode = "quiet"
    BY <1>1, PlaceFacts DEF MaxCalls, Modes
  <2> HIDE DEF z
  <2>2. y.cost <= z.cost
    BY <1>1, <2>1
  <2>3. Leads(z, Op("bare", {}, "item", "bare", <<>>), y)
    BY <1>1, <2>1, <2>2, MarkLeads
  <2> DEFINE b == <<Op("bare", {}, "item", "bare", <<>>)>>
  <2>4. Path(z, b, y)
    BY <1>1, <2>1, <2>3, PathOne
  <2>5. Holds(z.mode, b)
    BY <2>1, <1>1 DEF Holds
  <2> HIDE DEF b
  <2>6. Keeps(x, b, y)
    BY <1>1, <2>1, <2>4, <2>5 DEF Keeps
  <2>7. QED
    BY <1>2, <2>6 DEF b, parseItemRest, If
<1>3. CASE peek.k # "}"
  <2> DEFINE z == At(o, 3, "any")
             m1 == At(o, 8, "any")
  <2>1. /\ z \in Place /\ z.open = o /\ z.cost = 3 /\ z.mode = "any"
        /\ m1 \in Place /\ m1.open = o /\ m1.cost = 8 /\ m1.mode = "any"
    BY <1>1, PlaceFacts DEF MaxCalls, Modes
  <2> HIDE DEF z, m1
  <2>2. 1 <= m1.cost /\ y.cost <= 3
    BY <1>1, <2>1
  <2>3. Leads(z, Eat(Idents, "handler", "name"), m1)
    BY <1>1, <2>1, EatLeads, PlainSets, PlainKinds DEF Eat
  <2>4. Leads(m1, Call("route"), y)
    BY <1>1, <2>1, <2>2, EndLeads, Contracts DEF Call, ItemEnds
  <2> DEFINE b == <<Eat(Idents, "handler", "name"), Call("route")>>
  <2>5. Path(z, b, y)
    BY <1>1, <2>1, <2>3, <2>4, PathTwo
  <2>6. Holds(z.mode, b)
    BY <2>1 DEF Holds
  <2> HIDE DEF b
  <2>7. Keeps(x, b, y)
    BY <1>1, <2>1, <2>5, <2>6 DEF Keeps
  <2>8. QED
    BY <1>3, <2>7 DEF b, parseItemRest, If
<1>4. QED
  BY <1>2, <1>3

\* What @doc says.
LEMMA DocKeeps ==
  ASSUME NEW x, NEW y, Called(x, y, 2, 0), y.mode = "any"
  PROVE  Keeps(x, parseAtDocStmt(peek), y)
<1> DEFINE o == y.open
<1>1. /\ x \in Place /\ y \in Place /\ o \in Seq(Opens) /\ x.open = o /\ y.open = o
      /\ x.cost \in Nat /\ y.cost \in Nat /\ 2 <= x.cost /\ y.cost <= 0 /\ y.mode = "any"
  BY PlaceType DEF Called, MaxCalls
<1> HIDE DEF o
<1>2. CASE peek.k = "("
  <2> DEFINE z == At(o, 1, "any")
  <2>1. z \in Place /\ z.open = o /\ z.cost = 1 /\ z.mode = "any"
    BY <1>1, PlaceFacts DEF MaxCalls, Modes
  <2> HIDE DEF z
  <2>2. z.cost <= z.cost /\ 1 <= z.cost /\ y.cost <= 0
    BY <1>1, <2>1
  <2>3. Leads(z, Expect({"("} \cup Str), z)
    BY <1>1, <2>1, <2>2, ExpectLeads DEF Expect
  <2>4. Leads(z, Call("docGroup"), y)
    BY <1>1, <2>1, <2>2, CallLeads, Contracts DEF Call
  <2> DEFINE b == <<Expect({"("} \cup Str), Call("docGroup")>>
  <2>5. Path(z, b, y)
    BY <1>1, <2>1, <2>3, <2>4, PathTwo
  <2>6. Holds(z.mode, b)
    BY <2>1 DEF Holds
  <2> HIDE DEF b
  <2>7. Keeps(x, b, y)
    BY <1>1, <2>1, <2>5, <2>6 DEF Keeps
  <2>8. QED
    BY <1>2, <2>7 DEF b, parseAtDocStmt, If
<1>3. CASE peek.k # "("
  <2> DEFINE z == At(o, 1, "any")
  <2>1. z \in Place /\ z.open = o /\ z.cost = 1 /\ z.mode = "any"
    BY <1>1, PlaceFacts DEF MaxCalls, Modes
  <2> HIDE DEF z
  <2>2. z.cost <= z.cost /\ 1 <= z.cost /\ y.cost <= 0
    BY <1>1, <2>1
  <2>3. Leads(z, Expect({"("} \cup Str), z)
    BY <1>1, <2>1, <2>2, ExpectLeads DEF Expect
  <2>4. Leads(z, Call("docLiteral"), y)
    BY <1>1, <2>1, <2>2, CallLeads, Contracts DEF Call
  <2> DEFINE b == <<Expect({"("} \cup Str), Call("docLiteral")>>
  <2>5. Path(z, b, y)
    BY <1>1, <2>1, <2>3, <2>4, PathTwo
  <2>6. Holds(z.mode, b)
    BY <2>1 DEF Holds
  <2> HIDE DEF b
  <2>7. Keeps(x, b, y)
    BY <1>1, <2>1, <2>5, <2>6 DEF Keeps
  <2>8. QED
    BY <1>3, <2>7 DEF b, parseAtDocStmt, If
<1>4. QED
  BY <1>2, <1>3

\* Pairs in parentheses.
LEMMA DocGroupKeeps ==
  ASSUME NEW x, NEW y, Called(x, y, 1, 0), y.mode = "any"
  PROVE  Keeps(x, parseAtDocGroupStmt, y)
<1> DEFINE o == y.open
<1>1. /\ x \in Place /\ y \in Place /\ o \in Seq(Opens) /\ x.open = o /\ y.open = o
      /\ x.cost \in Nat /\ y.cost \in Nat /\ 1 <= x.cost /\ y.cost <= 0 /\ y.mode = "any"
  BY PlaceType DEF Called, MaxCalls
<1> HIDE DEF o
<1>2. Keeps(x, parseAtDocGroupStmt, y)
  <2> DEFINE q == Append(o, "(")
             z == At(o, 0, "any")
             m1 == At(q, 8, "any")
             m2 == At(q, 0, "any")
  <2>1. q \in Seq(Opens)
    BY <1>1, Opened DEF Opens
  <2>2. q = Append(o, "(")
    OBVIOUS
  <2> HIDE DEF q
  <2>3. /\ z \in Place /\ z.open = o /\ z.cost = 0 /\ z.mode = "any"
        /\ m1 \in Place /\ m1.open = q /\ m1.cost = 8 /\ m1.mode = "any"
        /\ m2 \in Place /\ m2.open = q /\ m2.cost = 0 /\ m2.mode = "any"
    BY <1>1, <2>1, PlaceFacts DEF MaxCalls, Modes
  <2> HIDE DEF z, m1, m2
  <2>4. 2 <= m1.cost /\ m2.cost <= 0
    BY <1>1, <2>3
  <2>5. Leads(z, Eat({"("}, "doc", "lparen"), m1)
    BY <1>1, <2>3, <2>2, OpenLeads DEF Eat, Opens
  <2>6. Leads(m1, CallIn("pairs", "doc"), m2)
    BY <1>1, <2>3, <2>4, CallLeads, Contracts DEF CallIn
  <2>7. Leads(m2, Eat({")"}, "doc", "rparen"), y)
    BY <1>1, <2>3, <2>2, CloseLeads DEF Eat, Closes, Opening
  <2> DEFINE b == <<Eat({"("}, "doc", "lparen"), CallIn("pairs", "doc"), Eat({")"}, "doc", "rparen")>>
  <2>8. Path(z, b, y)
    BY <1>1, <2>3, <2>5, <2>6, <2>7, PathThree
  <2>9. Holds(z.mode, b)
    BY <2>3 DEF Holds
  <2> HIDE DEF b
  <2>10. Keeps(x, b, y)
    BY <1>1, <2>3, <2>8, <2>9 DEF Keeps
  <2>11. QED
    BY <2>10 DEF b, parseAtDocGroupStmt
<1>3. QED
  BY <1>2

\* One text.
LEMMA DocLiteralKeeps ==
  ASSUME NEW x, NEW y, Called(x, y, 1, 0), y.mode = "any"
  PROVE  Keeps(x, parseAtDocLiteralStmt, y)
<1> DEFINE o == y.open
<1>1. /\ x \in Place /\ y \in Place /\ o \in Seq(Opens) /\ x.open = o /\ y.open = o
      /\ x.cost \in Nat /\ y.cost \in Nat /\ 1 <= x.cost /\ y.cost <= 0 /\ y.mode = "any"
  BY PlaceType DEF Called, MaxCalls
<1> HIDE DEF o
<1>2. Keeps(x, parseAtDocLiteralStmt, y)
  <2> DEFINE z == At(o, 0, "any")
  <2>1. z \in Place /\ z.open = o /\ z.cost = 0 /\ z.mode = "any"
    BY <1>1, PlaceFacts DEF MaxCalls, Modes
  <2> HIDE DEF z
  <2>2. Leads(z, Eat(Str, "doc", "literal"), y)
    BY <1>1, <2>1, EatLeads, PlainSets, PlainKinds DEF Eat
  <2> DEFINE b == <<Eat(Str, "doc", "literal")>>
  <2>3. Path(z, b, y)
    BY <1>1, <2>1, <2>2, PathOne
  <2>4. Holds(z.mode, b)
    BY <2>1 DEF Holds
  <2> HIDE DEF b
  <2>5. Keeps(x, b, y)
    BY <1>1, <2>1, <2>3, <2>4 DEF Keeps
  <2>6. QED
    BY <2>5 DEF b, parseAtDocLiteralStmt
<1>3. QED
  BY <1>2

(***************************************************************************)
(* Routes                                                                  *)
(***************************************************************************)
\* A route.
LEMMA RouteKeeps ==
  ASSUME NEW x, NEW y, Called(x, y, 1, 3), y.mode = "rest"
  PROVE  Keeps(x, parseRouteStmt, y)
<1> DEFINE o == y.open
<1>1. /\ x \in Place /\ y \in Place /\ o \in Seq(Opens) /\ x.open = o /\ y.open = o
      /\ x.cost \in Nat /\ y.cost \in Nat /\ 1 <= x.cost /\ y.cost <= 3 /\ y.mode = "rest"
  BY PlaceType DEF Called, MaxCalls
<1> HIDE DEF o
<1>2. Keeps(x, parseRouteStmt, y)
  <2> DEFINE z == At(o, 0, "any")
             m1 == At(o, 8, "any")
             m2 == At(o, 6, "any")
  <2>1. /\ z \in Place /\ z.open = o /\ z.cost = 0 /\ z.mode = "any"
        /\ m1 \in Place /\ m1.open = o /\ m1.cost = 8 /\ m1.mode = "any"
        /\ m2 \in Place /\ m2.open = o /\ m2.cost = 6 /\ m2.mode = "any"
    BY <1>1, PlaceFacts DEF MaxCalls, Modes
  <2> HIDE DEF z, m1, m2
  <2>2. 2 <= m1.cost /\ m2.cost <= 6 /\ 6 <= m2.cost /\ y.cost <= 3
    BY <1>1, <2>1
  <2>3. Leads(z, Eat({"get"}, "route", "open"), m1)
    BY <1>1, <2>1, EatLeads, PlainSets, PlainKinds DEF Eat
  <2>4. Leads(m1, Call("path"), m2)
    BY <1>1, <2>1, <2>2, CallLeads, Contracts DEF Call
  <2>5. Leads(m2, Call("request"), y)
    BY <1>1, <2>1, <2>2, EndLeads, Contracts DEF Call, ItemEnds
  <2> DEFINE b == <<Eat({"get"}, "route", "open"), Call("path"), Call("request")>>
  <2>6. Path(z, b, y)
    BY <1>1, <2>1, <2>3, <2>4, <2>5, PathThree
  <2>7. Holds(z.mode, b)
    BY <2>1 DEF Holds
  <2> HIDE DEF b
  <2>8. Keeps(x, b, y)
    BY <1>1, <2>1, <2>6, <2>7 DEF Keeps
  <2>9. QED
    BY <2>8 DEF b, parseRouteStmt
<1>3. QED
  BY <1>2

\* What a route asks for; a semicolon may end it.
LEMMA RequestKeeps ==
  ASSUME NEW x, NEW y, Called(x, y, 6, 3), y.mode = "rest"
  PROVE  Keeps(x, parseRequest(peek), y)
<1> DEFINE o == y.open
<1>1. /\ x \in Place /\ y \in Place /\ o \in Seq(Opens) /\ x.open = o /\ y.open = o
      /\ x.cost \in Nat /\ y.cost \in Nat /\ 6 <= x.cost /\ y.cost <= 3 /\ y.mode = "rest"
  BY PlaceType DEF Called, MaxCalls
<1> HIDE DEF o
<1>2. CASE peek.k \in RouteNext
  <2>1. y.cost < x.cost
    BY <1>1
  <2>2. Keeps(x, <<>>, y)
    BY <1>1, <2>1, NothingKeeps
  <2>3. QED
    BY <1>2, <2>2 DEF parseRequest, If, RouteNext
<1>3. CASE peek.k = ";"
  <2> DEFINE z == At(o, 5, "now")
  <2>1. z \in Place /\ z.open = o /\ z.cost = 5 /\ z.mode = "now"
    BY <1>1, PlaceFacts DEF MaxCalls, Modes
  <2> HIDE DEF z
  <2>2. Leads(z, Advance("route", "semicolon"), y)
    BY <1>1, <2>1, AdvanceLeads DEF Advance
  <2> DEFINE b == <<Advance("route", "semicolon")>>
  <2>3. Path(z, b, y)
    BY <1>1, <2>1, <2>2, PathOne
  <2>4. Holds(z.mode, b)
    BY <2>1, <1>3 DEF Holds, Ready, Op, Advance
  <2> HIDE DEF b
  <2>5. Keeps(x, b, y)
    BY <1>1, <2>1, <2>3, <2>4 DEF Keeps
  <2>6. QED
    BY <1>3, <2>5 DEF b, parseRequest, If, RouteNext
<1>4. CASE peek.k = "("
  <2> DEFINE z == At(o, 5, "any")
  <2>1. z \in Place /\ z.open = o /\ z.cost = 5 /\ z.mode = "any"
    BY <1>1, PlaceFacts DEF MaxCalls, Modes
  <2> HIDE DEF z
  <2>2. z.cost <= z.cost /\ 1 <= z.cost /\ z.cost <= 5 /\ 5 <= z.cost /\ y.cost <= 3
    BY <1>1, <2>1
  <2>3. Leads(z, Expect({"returns", "("}), z)
    BY <1>1, <2>1, <2>2, ExpectLeads DEF Expect
  <2>4. Leads(z, CallIn("body", "request"), z)
    BY <1>1, <2>1, <2>2, CallLeads, Contracts DEF CallIn
  <2>5. Leads(z, Expect({"returns", ";"} \cup RouteNext), z)
    BY <1>1, <2>1, <2>2, ExpectLeads DEF Expect
  <2>6. Leads(z, Call("response"), y)
    BY <1>1, <2>1, <2>2, EndLeads, Contracts DEF Call, ItemEnds
  <2>7. Path(z, <<Expect({"returns", "("})>>, z)
    BY <1>1, <2>1, <2>3, PathOne
  <2>8. Path(z, <<CallIn("body", "request")>>, z)
    BY <1>1, <2>1, <2>4, PathOne
  <2>9. Path(z, <<Expect({"returns", ";"} \cup RouteNext), Call("response")>>, y)
    BY <1>1, <2>1, <2>5, <2>6, PathTwo
  <2> DEFINE a == <<Expect({"returns", "("})>> \o <<CallIn("body", "request")>>
  <2>10. Path(z, a, z)
    BY <2>7, <2>8, PathJoin
  <2> HIDE DEF a
  <2> DEFINE b == a \o <<Expect({"returns", ";"} \cup RouteNext), Call("response")>>
  <2>11. Path(z, b, y)
    BY <2>10, <2>9, PathJoin
  <2>12. Holds(z.mode, b)
    BY <2>1 DEF Holds
  <2> HIDE DEF b
  <2>13. Keeps(x, b, y)
    BY <1>1, <2>1, <2>11, <2>12 DEF Keeps
  <2>14. QED
    BY <1>4, <2>13 DEF b, a, parseRequest, If, RouteNext
<1>5. CASE peek.k \notin RouteNext \cup {";", "("}
  <2> DEFINE z == At(o, 5, "any")
  <2>1. z \in Place /\ z.open = o /\ z.cost = 5 /\ z.mode = "any"
    BY <1>1, PlaceFacts DEF MaxCalls, Modes
  <2> HIDE DEF z
  <2>2. z.cost <= z.cost /\ 5 <= z.cost /\ y.cost <= 3
    BY <1>1, <2>1
  <2>3. Leads(z, Expect({"returns", "("}), z)
    BY <1>1, <2>1, <2>2, ExpectLeads DEF Expect
  <2>4. Leads(z, Expect({"returns", ";"} \cup RouteNext), z)
    BY <1>1, <2>1, <2>2, ExpectLeads DEF Expect
  <2>5. Leads(z, Call("response"), y)
    BY <1>1, <2>1, <2>2, EndLeads, Contracts DEF Call, ItemEnds
  <2>6. Path(z, <<Expect({"returns", "("})>>, z)
    BY <1>1, <2>1, <2>3, PathOne
  <2>7. Path(z, <<>>, z)
    BY <1>1, <2>1, PathNone
  <2>8. Path(z, <<Expect({"returns", ";"} \cup RouteNext), Call("response")>>, y)
    BY <1>1, <2>1, <2>4, <2>5, PathTwo
  <2> DEFINE a == <<Expect({"returns", "("})>> \o <<>>
  <2>9. Path(z, a, z)
    <3> DEFINE e == Expect({"returns", "("})
    <3>1. Path(z, <<e>>, z)
      BY <2>6
    <3> HIDE DEF e
    <3>2. Path(z, <<e>> \o <<>>, z)
      BY <3>1, PathStill
    <3>3. QED
      BY <3>2 DEF e
  <2> HIDE DEF a
  <2> DEFINE b == a \o <<Expect({"returns", ";"} \cup RouteNext), Call("response")>>
  <2>10. Path(z, b, y)
    BY <2>9, <2>8, PathJoin
  <2>11. Holds(z.mode, b)
    BY <2>1 DEF Holds
  <2> HIDE DEF b
  <2>12. Keeps(x, b, y)
    BY <1>1, <2>1, <2>10, <2>11 DEF Keeps
  <2>13. QED
    BY <1>5, <2>12 DEF b, a, parseRequest, If, RouteNext
<1>6. QED
  BY <1>2, <1>3, <1>4, <1>5

\* What a route replies.
LEMMA ResponseKeeps ==
  ASSUME NEW x, NEW y, Called(x, y, 5, 3), y.mode = "rest"
  PROVE  Keeps(x, parseResponse(peek), y)
<1> DEFINE o == y.open
<1>1. /\ x \in Place /\ y \in Place /\ o \in Seq(Opens) /\ x.open = o /\ y.open = o
      /\ x.cost \in Nat /\ y.cost \in Nat /\ 5 <= x.cost /\ y.cost <= 3 /\ y.mode = "rest"
  BY PlaceType DEF Called, MaxCalls
<1> HIDE DEF o
<1>2. CASE peek.k = "returns"
  <2> DEFINE z == At(o, 4, "any")
             m1 == At(o, 8, "any")
             m2 == At(o, 5, "any")
  <2>1. /\ z \in Place /\ z.open = o /\ z.cost = 4 /\ z.mode = "any"
        /\ m1 \in Place /\ m1.open = o /\ m1.cost = 8 /\ m1.mode = "any"
        /\ m2 \in Place /\ m2.open = o /\ m2.cost = 5 /\ m2.mode = "any"
    BY <1>1, PlaceFacts DEF MaxCalls, Modes
  <2> HIDE DEF z, m1, m2
  <2>2. 1 <= m1.cost /\ m2.cost <= 5 /\ 4 <= m2.cost /\ y.cost <= 3
    BY <1>1, <2>1
  <2>3. Leads(z, Eat({"returns"}, "response", "open"), m1)
    BY <1>1, <2>1, EatLeads, PlainSets, PlainKinds DEF Eat
  <2>4. Leads(m1, CallIn("body", "response"), m2)
    BY <1>1, <2>1, <2>2, CallLeads, Contracts DEF CallIn
  <2>5. Leads(m2, Call("routeEnd"), y)
    BY <1>1, <2>1, <2>2, EndLeads, Contracts DEF Call, ItemEnds
  <2>6. Path(z, <<Eat({"returns"}, "response", "open"), CallIn("body", "response")>>, m2)
    BY <1>1, <2>1, <2>3, <2>4, PathTwo
  <2>7. Path(m2, <<Call("routeEnd")>>, y)
    BY <1>1, <2>1, <2>5, PathOne
  <2> DEFINE b == <<Eat({"returns"}, "response", "open"), CallIn("body", "response")>> \o <<Call("routeEnd")>>
  <2>8. Path(z, b, y)
    BY <2>6, <2>7, PathJoin
  <2>9. Holds(z.mode, b)
    BY <2>1 DEF Holds
  <2> HIDE DEF b
  <2>10. Keeps(x, b, y)
    BY <1>1, <2>1, <2>8, <2>9 DEF Keeps
  <2>11. QED
    BY <1>2, <2>10 DEF b, parseResponse, If
<1>3. CASE peek.k # "returns"
  <2> DEFINE z == At(o, 4, "any")
  <2>1. z \in Place /\ z.open = o /\ z.cost = 4 /\ z.mode = "any"
    BY <1>1, PlaceFacts DEF MaxCalls, Modes
  <2> HIDE DEF z
  <2>2. 4 <= z.cost /\ y.cost <= 3
    BY <1>1, <2>1
  <2>3. Leads(z, Call("routeEnd"), y)
    BY <1>1, <2>1, <2>2, EndLeads, Contracts DEF Call, ItemEnds
  <2>4. Path(z, <<>>, z)
    BY <1>1, <2>1, PathNone
  <2>5. Path(z, <<Call("routeEnd")>>, y)
    BY <1>1, <2>1, <2>3, PathOne
  <2> DEFINE b == <<>> \o <<Call("routeEnd")>>
  <2>6. Path(z, b, y)
    BY <2>4, <2>5, PathJoin
  <2>7. Holds(z.mode, b)
    BY <2>1 DEF Holds
  <2> HIDE DEF b
  <2>8. Keeps(x, b, y)
    BY <1>1, <2>1, <2>6, <2>7 DEF Keeps
  <2>9. QED
    BY <1>3, <2>8 DEF b, parseResponse, If
<1>4. QED
  BY <1>2, <1>3

\* The end of a route.
LEMMA RouteEndKeeps ==
  ASSUME NEW x, NEW y, Called(x, y, 4, 3), y.mode = "rest"
  PROVE  Keeps(x, parseRouteEnd(peek), y)
<1> DEFINE o == y.open
<1>1. /\ x \in Place /\ y \in Place /\ o \in Seq(Opens) /\ x.open = o /\ y.open = o
      /\ x.cost \in Nat /\ y.cost \in Nat /\ 4 <= x.cost /\ y.cost <= 3 /\ y.mode = "rest"
  BY PlaceType DEF Called, MaxCalls
<1> HIDE DEF o
<1>2. CASE peek.k = ";"
  <2> DEFINE z == At(o, 3, "now")
  <2>1. z \in Place /\ z.open = o /\ z.cost = 3 /\ z.mode = "now"
    BY <1>1, PlaceFacts DEF MaxCalls, Modes
  <2> HIDE DEF z
  <2>2. Leads(z, Advance("route", "semicolon"), y)
    BY <1>1, <2>1, AdvanceLeads DEF Advance
  <2> DEFINE b == <<Advance("route", "semicolon")>>
  <2>3. Path(z, b, y)
    BY <1>1, <2>1, <2>2, PathOne
  <2>4. Holds(z.mode, b)
    BY <2>1, <1>2 DEF Holds, Ready, Op, Advance
  <2> HIDE DEF b
  <2>5. Keeps(x, b, y)
    BY <1>1, <2>1, <2>3, <2>4 DEF Keeps
  <2>6. QED
    BY <1>2, <2>5 DEF b, parseRouteEnd, If
<1>3. CASE peek.k # ";"
  <2>1. y.cost < x.cost
    BY <1>1
  <2>2. Keeps(x, <<>>, y)
    BY <1>1, <2>1, NothingKeeps
  <2>3. QED
    BY <1>3, <2>2 DEF parseRouteEnd, If
<1>4. QED
  BY <1>2, <1>3

\* A body in its parentheses.
LEMMA BodyStmtKeeps ==
  ASSUME NEW x, NEW y, Called(x, y, 1, 5), y.mode = "any", NEW u, u # "item"
  PROVE  Keeps(x, parseBodyStmt(u), y)
<1> DEFINE o == y.open
<1>1. /\ x \in Place /\ y \in Place /\ o \in Seq(Opens) /\ x.open = o /\ y.open = o
      /\ x.cost \in Nat /\ y.cost \in Nat /\ 1 <= x.cost /\ y.cost <= 5 /\ y.mode = "any"
  BY PlaceType DEF Called, MaxCalls
<1> HIDE DEF o
<1>2. Keeps(x, parseBodyStmt(u), y)
  <2> DEFINE q == Append(o, "(")
             z == At(o, 0, "any")
             m1 == At(q, 8, "any")
             m2 == At(q, 0, "any")
  <2>1. q \in Seq(Opens)
    BY <1>1, Opened DEF Opens
  <2>2. q = Append(o, "(")
    OBVIOUS
  <2> HIDE DEF q
  <2>3. /\ z \in Place /\ z.open = o /\ z.cost = 0 /\ z.mode = "any"
        /\ m1 \in Place /\ m1.open = q /\ m1.cost = 8 /\ m1.mode = "any"
        /\ m2 \in Place /\ m2.open = q /\ m2.cost = 0 /\ m2.mode = "any"
    BY <1>1, <2>1, PlaceFacts DEF MaxCalls, Modes
  <2> HIDE DEF z, m1, m2
  <2>4. 2 <= m1.cost /\ m2.cost <= 0
    BY <1>1, <2>3
  <2>5. Leads(z, Eat({"("}, u, "lparen"), m1)
    BY <1>1, <2>3, <2>2, OpenLeads DEF Eat, Opens
  <2>6. Leads(m1, CallIn("bodyRest", u), m2)
    BY <1>1, <2>3, <2>4, CallLeads, Contracts DEF CallIn
  <2>7. Leads(m2, Eat({")"}, u, "rparen"), y)
    BY <1>1, <2>3, <2>2, CloseLeads DEF Eat, Closes, Opening
  <2> DEFINE b == <<Eat({"("}, u, "lparen"), CallIn("bodyRest", u), Eat({")"}, u, "rparen")>>
  <2>8. Path(z, b, y)
    BY <1>1, <2>3, <2>5, <2>6, <2>7, PathThree
  <2>9. Holds(z.mode, b)
    BY <2>3 DEF Holds
  <2> HIDE DEF b
  <2>10. Keeps(x, b, y)
    BY <1>1, <2>3, <2>8, <2>9 DEF Keeps
  <2>11. QED
    BY <2>10 DEF b, parseBodyStmt
<1>3. QED
  BY <1>2

\* A type, a list of one, or nothing.
LEMMA BodyExprKeeps ==
  ASSUME NEW x, NEW y, Called(x, y, 2, 0), y.mode = "any", NEW u, u # "item"
  PROVE  Keeps(x, parseBodyExpr(peek, u), y)
<1> DEFINE o == y.open
<1>1. /\ x \in Place /\ y \in Place /\ o \in Seq(Opens) /\ x.open = o /\ y.open = o
      /\ x.cost \in Nat /\ y.cost \in Nat /\ 2 <= x.cost /\ y.cost <= 0 /\ y.mode = "any"
  BY PlaceType DEF Called, MaxCalls
<1> HIDE DEF o
<1>2. CASE peek.k = ")"
  <2>1. y.cost < x.cost
    BY <1>1
  <2>2. Keeps(x, <<>>, y)
    BY <1>1, <2>1, NothingKeeps
  <2>3. QED
    BY <1>2, <2>2 DEF parseBodyExpr, If
<1>3. CASE peek.k = "["
  <2> DEFINE q == Append(o, "[")
             z == At(o, 1, "any")
             m1 == At(q, 8, "any")
             m2 == At(o, 8, "any")
  <2>1. q \in Seq(Opens)
    BY <1>1, Opened DEF Opens
  <2>2. q = Append(o, "[")
    OBVIOUS
  <2> HIDE DEF q
  <2>3. /\ z \in Place /\ z.open = o /\ z.cost = 1 /\ z.mode = "any"
        /\ m1 \in Place /\ m1.open = q /\ m1.cost = 8 /\ m1.mode = "any"
        /\ m2 \in Place /\ m2.open = o /\ m2.cost = 8 /\ m2.mode = "any"
    BY <1>1, <2>1, PlaceFacts DEF MaxCalls, Modes
  <2> HIDE DEF z, m1, m2
  <2>4. 1 <= m2.cost /\ y.cost <= 0
    BY <1>1, <2>3
  <2>5. Leads(z, Eat({"["}, u, "bracket"), m1)
    BY <1>1, <2>3, <2>2, OpenLeads DEF Eat, Opens
  <2>6. Leads(m1, Eat({"]"}, u, "bracket"), m2)
    BY <1>1, <2>3, <2>2, CloseLeads DEF Eat, Closes, Opening
  <2>7. Leads(m2, CallIn("bodyElem", u), y)
    BY <1>1, <2>3, <2>4, CallLeads, Contracts DEF CallIn
  <2> DEFINE b == <<Eat({"["}, u, "bracket"), Eat({"]"}, u, "bracket"), CallIn("bodyElem", u)>>
  <2>8. Path(z, b, y)
    BY <1>1, <2>3, <2>5, <2>6, <2>7, PathThree
  <2>9. Holds(z.mode, b)
    BY <2>3 DEF Holds
  <2> HIDE DEF b
  <2>10. Keeps(x, b, y)
    BY <1>1, <2>3, <2>8, <2>9 DEF Keeps
  <2>11. QED
    BY <1>3, <2>10 DEF b, parseBodyExpr, If
<1>4. CASE peek.k \notin {")", "["}
  <2> DEFINE z == At(o, 1, "any")
  <2>1. z \in Place /\ z.open = o /\ z.cost = 1 /\ z.mode = "any"
    BY <1>1, PlaceFacts DEF MaxCalls, Modes
  <2> HIDE DEF z
  <2>2. 1 <= z.cost /\ y.cost <= 0
    BY <1>1, <2>1
  <2>3. Leads(z, CallIn("bodyElem", u), y)
    BY <1>1, <2>1, <2>2, CallLeads, Contracts DEF CallIn
  <2> DEFINE b == <<CallIn("bodyElem", u)>>
  <2>4. Path(z, b, y)
    BY <1>1, <2>1, <2>3, PathOne
  <2>5. Holds(z.mode, b)
    BY <2>1 DEF Holds
  <2> HIDE DEF b
  <2>6. Keeps(x, b, y)
    BY <1>1, <2>1, <2>4, <2>5 DEF Keeps
  <2>7. QED
    BY <1>4, <2>6 DEF b, parseBodyExpr, If
<1>5. QED
  BY <1>2, <1>3, <1>4

\* The type of a body.
LEMMA BodyElemKeeps ==
  ASSUME NEW x, NEW y, Called(x, y, 1, 0), y.mode = "any", NEW u, u # "item"
  PROVE  Keeps(x, parseBodyElem(peek, u), y)
<1> DEFINE o == y.open
<1>1. /\ x \in Place /\ y \in Place /\ o \in Seq(Opens) /\ x.open = o /\ y.open = o
      /\ x.cost \in Nat /\ y.cost \in Nat /\ 1 <= x.cost /\ y.cost <= 0 /\ y.mode = "any"
  BY PlaceType DEF Called, MaxCalls
<1> HIDE DEF o
<1>2. CASE peek.k = "*"
  <2> DEFINE z == At(o, 0, "any")
             m1 == At(o, 8, "any")
  <2>1. /\ z \in Place /\ z.open = o /\ z.cost = 0 /\ z.mode = "any"
        /\ m1 \in Place /\ m1.open = o /\ m1.cost = 8 /\ m1.mode = "any"
    BY <1>1, PlaceFacts DEF MaxCalls, Modes
  <2> HIDE DEF z, m1
  <2>2. Leads(z, Eat({"*"}, u, "bracket"), m1)
    BY <1>1, <2>1, EatLeads, PlainSets, PlainKinds DEF Eat
  <2>3. Leads(m1, Eat(Idents, u, "value"), y)
    BY <1>1, <2>1, EatLeads, PlainSets, PlainKinds DEF Eat
  <2> DEFINE b == <<Eat({"*"}, u, "bracket"), Eat(Idents, u, "value")>>
  <2>4. Path(z, b, y)
    BY <1>1, <2>1, <2>2, <2>3, PathTwo
  <2>5. Holds(z.mode, b)
    BY <2>1 DEF Holds
  <2> HIDE DEF b
  <2>6. Keeps(x, b, y)
    BY <1>1, <2>1, <2>4, <2>5 DEF Keeps
  <2>7. QED
    BY <1>2, <2>6 DEF b, parseBodyElem, If, Unexpected, Idents, Keywords
<1>3. CASE peek.k \in Idents
  <2> DEFINE z == At(o, 0, "any")
  <2>1. z \in Place /\ z.open = o /\ z.cost = 0 /\ z.mode = "any"
    BY <1>1, PlaceFacts DEF MaxCalls, Modes
  <2> HIDE DEF z
  <2>2. Leads(z, Eat(Idents, u, "value"), y)
    BY <1>1, <2>1, EatLeads, PlainSets, PlainKinds DEF Eat
  <2> DEFINE b == <<Eat(Idents, u, "value")>>
  <2>3. Path(z, b, y)
    BY <1>1, <2>1, <2>2, PathOne
  <2>4. Holds(z.mode, b)
    BY <2>1 DEF Holds
  <2> HIDE DEF b
  <2>5. Keeps(x, b, y)
    BY <1>1, <2>1, <2>3, <2>4 DEF Keeps
  <2>6. QED
    BY <1>3, <2>5 DEF b, parseBodyElem, If, Unexpected, Idents, Keywords
<1>4. CASE peek.k \notin {"*"} \cup Idents
  <2> DEFINE z == At(o, 0, "now")
  <2>1. z \in Place /\ z.open = o /\ z.cost = 0 /\ z.mode = "now"
    BY <1>1, PlaceFacts DEF MaxCalls, Modes
  <2> HIDE DEF z
  <2>2. Leads(z, Op("unexpected", {"*"} \cup Idents, "", "", <<>>), y)
    BY <1>1, <2>1, UnexpectedLeads
  <2> DEFINE b == <<Op("unexpected", {"*"} \cup Idents, "", "", <<>>)>>
  <2>3. Path(z, b, y)
    BY <1>1, <2>1, <2>2, PathOne
  <2>4. Holds(z.mode, b)
    BY <2>1, <1>4 DEF Holds, Ready, Op
  <2> HIDE DEF b
  <2>5. Keeps(x, b, y)
    BY <1>1, <2>1, <2>3, <2>4 DEF Keeps
  <2>6. QED
    BY <1>4, <2>5 DEF b, parseBodyElem, If, Unexpected, Idents, Keywords
<1>5. QED
  BY <1>2, <1>3, <1>4 DEF Types, Idents, Keywords

\* The path of a route.
LEMMA PathExprKeeps ==
  ASSUME NEW x, NEW y, Called(x, y, 2, 6), y.mode = "any"
  PROVE  Keeps(x, parsePathExpr(cur, peek), y)
<1> DEFINE o == y.open
<1>1. /\ x \in Place /\ y \in Place /\ o \in Seq(Opens) /\ x.open = o /\ y.open = o
      /\ x.cost \in Nat /\ y.cost \in Nat /\ 2 <= x.cost /\ y.cost <= 6 /\ y.mode = "any"
  BY PlaceType DEF Called, MaxCalls
<1> HIDE DEF o
<1>2. CASE cur.k = "EOF" \/ peek.k \in PathEnd
  <2> DEFINE z == At(o, 1, "any")
  <2>1. z \in Place /\ z.open = o /\ z.cost = 1 /\ z.mode = "any"
    BY <1>1, PlaceFacts DEF MaxCalls, Modes
  <2> HIDE DEF z
  <2>2. Leads(z, Panic, y)
    BY <1>1, <2>1, RejectLeads DEF Panic
  <2> DEFINE b == <<Panic>>
  <2>3. Path(z, b, y)
    BY <1>1, <2>1, <2>2, PathOne
  <2>4. Holds(z.mode, b)
    BY <2>1 DEF Holds
  <2> HIDE DEF b
  <2>5. Keeps(x, b, y)
    BY <1>1, <2>1, <2>3, <2>4 DEF Keeps
  <2>6. QED
    BY <1>2, <2>5 DEF b, parsePathExpr, If
<1>3. CASE ~(cur.k = "EOF" \/ peek.k \in PathEnd)
  <2> DEFINE z == At(o, 1, "any")
  <2>1. z \in Place /\ z.open = o /\ z.cost = 1 /\ z.mode = "any"
    BY <1>1, PlaceFacts DEF MaxCalls, Modes
  <2> HIDE DEF z
  <2>2. 1 <= z.cost /\ y.cost <= 6
    BY <1>1, <2>1
  <2>3. Leads(z, Call("segment"), y)
    BY <1>1, <2>1, <2>2, CallLeads, Contracts DEF Call
  <2> DEFINE b == <<Call("segment")>>
  <2>4. Path(z, b, y)
    BY <1>1, <2>1, <2>3, PathOne
  <2>5. Holds(z.mode, b)
    BY <2>1 DEF Holds
  <2> HIDE DEF b
  <2>6. Keeps(x, b, y)
    BY <1>1, <2>1, <2>4, <2>5 DEF Keeps
  <2>7. QED
    BY <1>3, <2>6 DEF b, parsePathExpr, If
<1>4. QED
  BY <1>2, <1>3

\* A segment of the path.
LEMMA SegmentKeeps ==
  ASSUME NEW x, NEW y, Called(x, y, 1, 6), y.mode = "any"
  PROVE  Keeps(x, parseSegment, y)
<1> DEFINE o == y.open
<1>1. /\ x \in Place /\ y \in Place /\ o \in Seq(Opens) /\ x.open = o /\ y.open = o
      /\ x.cost \in Nat /\ y.cost \in Nat /\ 1 <= x.cost /\ y.cost <= 6 /\ y.mode = "any"
  BY PlaceType DEF Called, MaxCalls
<1> HIDE DEF o
<1>2. Keeps(x, parseSegment, y)
  <2> DEFINE z == At(o, 0, "any")
             m1 == At(o, 8, "any")
  <2>1. /\ z \in Place /\ z.open = o /\ z.cost = 0 /\ z.mode = "any"
        /\ m1 \in Place /\ m1.open = o /\ m1.cost = 8 /\ m1.mode = "any"
    BY <1>1, PlaceFacts DEF MaxCalls, Modes
  <2> HIDE DEF z, m1
  <2>2. 7 <= m1.cost /\ y.cost <= 6
    BY <1>1, <2>1
  <2>3. Leads(z, Eat({"/"}, "route", "path"), m1)
    BY <1>1, <2>1, EatLeads, PlainSets, PlainKinds DEF Eat
  <2>4. Leads(m1, Call("segmentRest"), y)
    BY <1>1, <2>1, <2>2, CallLeads, Contracts DEF Call
  <2> DEFINE b == <<Eat({"/"}, "route", "path"), Call("segmentRest")>>
  <2>5. Path(z, b, y)
    BY <1>1, <2>1, <2>3, <2>4, PathTwo
  <2>6. Holds(z.mode, b)
    BY <2>1 DEF Holds
  <2> HIDE DEF b
  <2>7. Keeps(x, b, y)
    BY <1>1, <2>1, <2>5, <2>6 DEF Keeps
  <2>8. QED
    BY <2>7 DEF b, parseSegment
<1>3. QED
  BY <1>2

\* Behind the slash.
LEMMA SegmentRestKeeps ==
  ASSUME NEW x, NEW y, Called(x, y, 7, 6), y.mode = "any"
  PROVE  Keeps(x, parseSegmentRest(cur, peek), y)
<1> DEFINE o == y.open
<1>1. /\ x \in Place /\ y \in Place /\ o \in Seq(Opens) /\ x.open = o /\ y.open = o
      /\ x.cost \in Nat /\ y.cost \in Nat /\ 7 <= x.cost /\ y.cost <= 6 /\ y.mode = "any"
  BY PlaceType DEF Called, MaxCalls
<1> HIDE DEF o
<1>2. CASE peek.k \in PathEnd
  <2>1. y.cost < x.cost
    BY <1>1
  <2>2. Keeps(x, <<>>, y)
    BY <1>1, <2>1, NothingKeeps
  <2>3. QED
    BY <1>2, <2>2 DEF parseSegmentRest, If
<1>3. CASE peek.k \notin PathEnd /\ cur.tail
  <2> DEFINE z == At(o, 6, "any")
  <2>1. z \in Place /\ z.open = o /\ z.cost = 6 /\ z.mode = "any"
    BY <1>1, PlaceFacts DEF MaxCalls, Modes
  <2> HIDE DEF z
  <2>2. Leads(z, Reject, y)
    BY <1>1, <2>1, RejectLeads DEF Reject
  <2> DEFINE b == <<Reject>>
  <2>3. Path(z, b, y)
    BY <1>1, <2>1, <2>2, PathOne
  <2>4. Holds(z.mode, b)
    BY <2>1 DEF Holds
  <2> HIDE DEF b
  <2>5. Keeps(x, b, y)
    BY <1>1, <2>1, <2>3, <2>4 DEF Keeps
  <2>6. QED
    BY <1>3, <2>5 DEF b, parseSegmentRest, If
<1>4. CASE peek.k \notin PathEnd /\ ~cur.tail /\ peek.k = ":"
  <2> DEFINE z == At(o, 6, "any")
             m1 == At(o, 8, "any")
             m2 == At(o, 7, "any")
  <2>1. /\ z \in Place /\ z.open = o /\ z.cost = 6 /\ z.mode = "any"
        /\ m1 \in Place /\ m1.open = o /\ m1.cost = 8 /\ m1.mode = "any"
        /\ m2 \in Place /\ m2.open = o /\ m2.cost = 7 /\ m2.mode = "any"
    BY <1>1, PlaceFacts DEF MaxCalls, Modes
  <2> HIDE DEF z, m1, m2
  <2>2. z.cost <= z.cost /\ 8 <= m1.cost /\ m2.cost <= 7 /\ m2.cost <= m2.cost /\ 7 <= m2.cost /\ y.cost <= 6
    BY <1>1, <2>1
  <2>3. Leads(z, Expect({":", "int"} \cup Idents), z)
    BY <1>1, <2>1, <2>2, ExpectLeads DEF Expect
  <2>4. Leads(z, Eat({":"}, "route", "path"), m1)
    BY <1>1, <2>1, EatLeads, PlainSets, PlainKinds DEF Eat
  <2>5. Leads(m1, Eat({"int"} \cup Idents, "route", "path"), m1)
    BY <1>1, <2>1, EatLeads, PlainSets, PlainKinds DEF Eat
  <2>6. Leads(m1, Call("pathItem"), m2)
    BY <1>1, <2>1, <2>2, CallLeads, Contracts DEF Call
  <2>7. Leads(m2, Expect({"/"} \cup PathEnd), m2)
    BY <1>1, <2>1, <2>2, ExpectLeads DEF Expect
  <2>8. Leads(m2, Call("segments"), y)
    BY <1>1, <2>1, <2>2, CallLeads, Contracts DEF Call
  <2>9. Path(z, <<Expect({":", "int"} \cup Idents)>>, z)
    BY <1>1, <2>1, <2>3, PathOne
  <2>10. Path(z, <<Eat({":"}, "route", "path")>>, m1)
    BY <1>1, <2>1, <2>4, PathOne
  <2>11. Path(m1, <<Eat({"int"} \cup Idents, "route", "path"), Call("pathItem"), Expect({"/"} \cup PathEnd),
              Call("segments")>>, y)
    BY <1>1, <2>1, <2>5, <2>6, <2>7, <2>8, PathFour
  <2> DEFINE a == <<Expect({":", "int"} \cup Idents)>> \o <<Eat({":"}, "route", "path")>>
  <2>12. Path(z, a, m1)
    BY <2>9, <2>10, PathJoin
  <2> HIDE DEF a
  <2> DEFINE b == a \o <<Eat({"int"} \cup Idents, "route", "path"), Call("pathItem"), Expect({"/"} \cup PathEnd),
                  Call("segments")>>
  <2>13. Path(z, b, y)
    BY <2>12, <2>11, PathJoin
  <2>14. Holds(z.mode, b)
    BY <2>1 DEF Holds
  <2> HIDE DEF b
  <2>15. Keeps(x, b, y)
    BY <1>1, <2>1, <2>13, <2>14 DEF Keeps
  <2>16. QED
    BY <1>4, <2>15 DEF b, a, parseSegmentRest, If
<1>5. CASE peek.k \notin PathEnd /\ ~cur.tail /\ peek.k # ":"
  <2> DEFINE z == At(o, 6, "any")
             m1 == At(o, 8, "any")
             m2 == At(o, 7, "any")
  <2>1. /\ z \in Place /\ z.open = o /\ z.cost = 6 /\ z.mode = "any"
        /\ m1 \in Place /\ m1.open = o /\ m1.cost = 8 /\ m1.mode = "any"
        /\ m2 \in Place /\ m2.open = o /\ m2.cost = 7 /\ m2.mode = "any"
    BY <1>1, PlaceFacts DEF MaxCalls, Modes
  <2> HIDE DEF z, m1, m2
  <2>2. z.cost <= z.cost /\ 8 <= m1.cost /\ m2.cost <= 7 /\ m2.cost <= m2.cost /\ 7 <= m2.cost /\ y.cost <= 6
    BY <1>1, <2>1
  <2>3. Leads(z, Expect({":", "int"} \cup Idents), z)
    BY <1>1, <2>1, <2>2, ExpectLeads DEF Expect
  <2>4. Leads(z, Eat({"int"} \cup Idents, "route", "path"), m1)
    BY <1>1, <2>1, EatLeads, PlainSets, PlainKinds DEF Eat
  <2>5. Leads(m1, Call("pathItem"), m2)
    BY <1>1, <2>1, <2>2, CallLeads, Contracts DEF Call
  <2>6. Leads(m2, Expect({"/"} \cup PathEnd), m2)
    BY <1>1, <2>1, <2>2, ExpectLeads DEF Expect
  <2>7. Leads(m2, Call("segments"), y)
    BY <1>1, <2>1, <2>2, CallLeads, Contracts DEF Call
  <2>8. Path(z, <<Expect({":", "int"} \cup Idents)>>, z)
    BY <1>1, <2>1, <2>3, PathOne
  <2>9. Path(z, <<>>, z)
    BY <1>1, <2>1, PathNone
  <2>10. Path(z, <<Eat({"int"} \cup Idents, "route", "path"), Call("pathItem"), Expect({"/"} \cup PathEnd),
              Call("segments")>>, y)
    BY <1>1, <2>1, <2>4, <2>5, <2>6, <2>7, PathFour
  <2> DEFINE a == <<Expect({":", "int"} \cup Idents)>> \o <<>>
  <2>11. Path(z, a, z)
    <3> DEFINE e == Expect({":", "int"} \cup Idents)
    <3>1. Path(z, <<e>>, z)
      BY <2>8
    <3> HIDE DEF e
    <3>2. Path(z, <<e>> \o <<>>, z)
      BY <3>1, PathStill
    <3>3. QED
      BY <3>2 DEF e
  <2> HIDE DEF a
  <2> DEFINE b == a \o <<Eat({"int"} \cup Idents, "route", "path"), Call("pathItem"), Expect({"/"} \cup PathEnd),
                  Call("segments")>>
  <2>12. Path(z, b, y)
    BY <2>11, <2>10, PathJoin
  <2>13. Holds(z.mode, b)
    BY <2>1 DEF Holds
  <2> HIDE DEF b
  <2>14. Keeps(x, b, y)
    BY <1>1, <2>1, <2>12, <2>13 DEF Keeps
  <2>15. QED
    BY <1>5, <2>14 DEF b, a, parseSegmentRest, If
<1>6. QED
  BY <1>2, <1>3, <1>4, <1>5

\* Segment by segment.
LEMMA SegmentsKeep ==
  ASSUME NEW x, NEW y, Called(x, y, 7, 6), y.mode = "any"
  PROVE  Keeps(x, parseSegments(cur, peek), y)
<1> DEFINE o == y.open
<1>1. /\ x \in Place /\ y \in Place /\ o \in Seq(Opens) /\ x.open = o /\ y.open = o
      /\ x.cost \in Nat /\ y.cost \in Nat /\ 7 <= x.cost /\ y.cost <= 6 /\ y.mode = "any"
  BY PlaceType DEF Called, MaxCalls
<1> HIDE DEF o
<1>2. CASE cur.k # "EOF" /\ peek.k \notin PathEnd
  <2> DEFINE z == At(o, 6, "any")
  <2>1. z \in Place /\ z.open = o /\ z.cost = 6 /\ z.mode = "any"
    BY <1>1, PlaceFacts DEF MaxCalls, Modes
  <2> HIDE DEF z
  <2>2. 1 <= z.cost /\ y.cost <= 6
    BY <1>1, <2>1
  <2>3. Leads(z, Call("segment"), y)
    BY <1>1, <2>1, <2>2, CallLeads, Contracts DEF Call
  <2> DEFINE b == <<Call("segment")>>
  <2>4. Path(z, b, y)
    BY <1>1, <2>1, <2>3, PathOne
  <2>5. Holds(z.mode, b)
    BY <2>1 DEF Holds
  <2> HIDE DEF b
  <2>6. Keeps(x, b, y)
    BY <1>1, <2>1, <2>4, <2>5 DEF Keeps
  <2>7. QED
    BY <1>2, <2>6 DEF b, parseSegments, If
<1>3. CASE ~(cur.k # "EOF" /\ peek.k \notin PathEnd)
  <2>1. y.cost < x.cost
    BY <1>1
  <2>2. Keeps(x, <<>>, y)
    BY <1>1, <2>1, NothingKeeps
  <2>3. QED
    BY <1>3, <2>2 DEF parseSegments, If
<1>4. QED
  BY <1>2, <1>3

\* The words of a segment.
LEMMA PathItemKeeps ==
  ASSUME NEW x, NEW y, Called(x, y, 8, 7), y.mode = "any"
  PROVE  Keeps(x, parsePathItem(cur, peek), y)
<1> DEFINE o == y.open
<1>1. /\ x \in Place /\ y \in Place /\ o \in Seq(Opens) /\ x.open = o /\ y.open = o
      /\ x.cost \in Nat /\ y.cost \in Nat /\ 8 <= x.cost /\ y.cost <= 7 /\ y.mode = "any"
  BY PlaceType DEF Called, MaxCalls
<1> HIDE DEF o
<1>2. CASE ~(cur.k # "EOF" /\ peek.k \notin {"/", "EOF"} \cup PathEnd)
  <2>1. y.cost < x.cost
    BY <1>1
  <2>2. Keeps(x, <<>>, y)
    BY <1>1, <2>1, NothingKeeps
  <2>3. QED
    BY <1>2, <2>2 DEF parsePathItem, If
<1>3. CASE cur.k # "EOF" /\ peek.k \notin {"/", "EOF"} \cup PathEnd /\ peek.k \in {"-", "."}
  <2> DEFINE z == At(o, 7, "any")
             m1 == At(o, 8, "any")
  <2>1. /\ z \in Place /\ z.open = o /\ z.cost = 7 /\ z.mode = "any"
        /\ m1 \in Place /\ m1.open = o /\ m1.cost = 8 /\ m1.mode = "any"
    BY <1>1, PlaceFacts DEF MaxCalls, Modes
  <2> HIDE DEF z, m1
  <2>2. 8 <= m1.cost /\ y.cost <= 7
    BY <1>1, <2>1
  <2>3. Leads(z, Eat({peek.k}, "route", "path"), m1)
    BY <1>1, <2>1, <1>3, EatLeads, PlainSets, PlainKinds DEF Eat
  <2>4. Leads(m1, Eat(Idents, "route", "path"), m1)
    BY <1>1, <2>1, EatLeads, PlainSets, PlainKinds DEF Eat
  <2>5. Leads(m1, Call("pathItem"), y)
    BY <1>1, <2>1, <2>2, CallLeads, Contracts DEF Call
  <2>6. Path(z, <<Eat({peek.k}, "route", "path")>>, m1)
    BY <1>1, <2>1, <2>3, PathOne
  <2>7. Path(m1, <<Eat(Idents, "route", "path"), Call("pathItem")>>, y)
    BY <1>1, <2>1, <2>4, <2>5, PathTwo
  <2> DEFINE b == <<Eat({peek.k}, "route", "path")>> \o <<Eat(Idents, "route", "path"), Call("pathItem")>>
  <2>8. Path(z, b, y)
    BY <2>6, <2>7, PathJoin
  <2>9. Holds(z.mode, b)
    BY <2>1 DEF Holds
  <2> HIDE DEF b
  <2>10. Keeps(x, b, y)
    BY <1>1, <2>1, <2>8, <2>9 DEF Keeps
  <2>11. QED
    BY <1>3, <2>10 DEF b, parsePathItem, If
<1>4. CASE cur.k # "EOF" /\ peek.k \notin {"/", "EOF"} \cup PathEnd /\ peek.k \notin {"-", "."}
  <2> DEFINE z == At(o, 7, "any")
             m1 == At(o, 8, "any")
  <2>1. /\ z \in Place /\ z.open = o /\ z.cost = 7 /\ z.mode = "any"
        /\ m1 \in Place /\ m1.open = o /\ m1.cost = 8 /\ m1.mode = "any"
    BY <1>1, PlaceFacts DEF MaxCalls, Modes
  <2> HIDE DEF z, m1
  <2>2. 8 <= m1.cost /\ y.cost <= 7
    BY <1>1, <2>1
  <2>3. Leads(z, Eat(Idents, "route", "path"), m1)
    BY <1>1, <2>1, EatLeads, PlainSets, PlainKinds DEF Eat
  <2>4. Leads(m1, Call("pathItem"), y)
    BY <1>1, <2>1, <2>2, CallLeads, Contracts DEF Call
  <2>5. Path(z, <<>>, z)
    BY <1>1, <2>1, PathNone
  <2>6. Path(z, <<Eat(Idents, "route", "path"), Call("pathItem")>>, y)
    BY <1>1, <2>1, <2>3, <2>4, PathTwo
  <2> DEFINE b == <<>> \o <<Eat(Idents, "route", "path"), Call("pathItem")>>
  <2>7. Path(z, b, y)
    BY <2>5, <2>6, PathJoin
  <2>8. Holds(z.mode, b)
    BY <2>1 DEF Holds
  <2> HIDE DEF b
  <2>9. Keeps(x, b, y)
    BY <1>1, <2>1, <2>7, <2>8 DEF Keeps
  <2>10. QED
    BY <1>4, <2>9 DEF b, parsePathItem, If
<1>5. QED
  BY <1>2, <1>3, <1>4

(***************************************************************************)
(* Types                                                                   *)
(***************************************************************************)
\* A type or a group of types.
LEMMA TypesKeep ==
  ASSUME NEW x, NEW y, Called(x, y, 2, 4), y.mode = "any", Quiet
  PROVE  Keeps(x, parseTypeStmt(peek), y)
<1> DEFINE o == y.open
<1>1. /\ x \in Place /\ y \in Place /\ o \in Seq(Opens) /\ x.open = o /\ y.open = o
      /\ x.cost \in Nat /\ y.cost \in Nat /\ 2 <= x.cost /\ y.cost <= 4 /\ y.mode = "any"
  BY PlaceType DEF Called, MaxCalls
<1> HIDE DEF o
<1>2. CASE peek.k = "("
  <2> DEFINE z == At(o, 1, "quiet")
             m1 == At(o, 1, "any")
  <2>1. /\ z \in Place /\ z.open = o /\ z.cost = 1 /\ z.mode = "quiet"
        /\ m1 \in Place /\ m1.open = o /\ m1.cost = 1 /\ m1.mode = "any"
    BY <1>1, PlaceFacts DEF MaxCalls, Modes
  <2> HIDE DEF z, m1
  <2>2. m1.cost <= z.cost /\ 1 <= m1.cost /\ y.cost <= 4
    BY <1>1, <2>1
  <2>3. Leads(z, Mark("group", "open"), m1)
    BY <1>1, <2>1, <2>2, MarkLeads DEF Mark
  <2>4. Leads(m1, Call("typeGroup"), y)
    BY <1>1, <2>1, <2>2, CallLeads, Contracts DEF Call
  <2> DEFINE b == <<Mark("group", "open"), Call("typeGroup")>>
  <2>5. Path(z, b, y)
    BY <1>1, <2>1, <2>3, <2>4, PathTwo
  <2>6. Holds(z.mode, b)
    BY <2>1, <1>1 DEF Holds
  <2> HIDE DEF b
  <2>7. Keeps(x, b, y)
    BY <1>1, <2>1, <2>5, <2>6 DEF Keeps
  <2>8. QED
    BY <1>2, <2>7 DEF b, parseTypeStmt, If, Unexpected, Idents, Keywords
<1>3. CASE peek.k \in Idents
  <2> DEFINE z == At(o, 1, "quiet")
             m1 == At(o, 1, "any")
  <2>1. /\ z \in Place /\ z.open = o /\ z.cost = 1 /\ z.mode = "quiet"
        /\ m1 \in Place /\ m1.open = o /\ m1.cost = 1 /\ m1.mode = "any"
    BY <1>1, PlaceFacts DEF MaxCalls, Modes
  <2> HIDE DEF z, m1
  <2>2. m1.cost <= z.cost /\ 1 <= m1.cost /\ y.cost <= 4
    BY <1>1, <2>1
  <2>3. Leads(z, Mark("type", "open"), m1)
    BY <1>1, <2>1, <2>2, MarkLeads DEF Mark
  <2>4. Leads(m1, CallIn("typeExpr", "type"), y)
    BY <1>1, <2>1, <2>2, CallLeads, Contracts DEF CallIn
  <2> DEFINE b == <<Mark("type", "open"), CallIn("typeExpr", "type")>>
  <2>5. Path(z, b, y)
    BY <1>1, <2>1, <2>3, <2>4, PathTwo
  <2>6. Holds(z.mode, b)
    BY <2>1, <1>1 DEF Holds
  <2> HIDE DEF b
  <2>7. Keeps(x, b, y)
    BY <1>1, <2>1, <2>5, <2>6 DEF Keeps
  <2>8. QED
    BY <1>3, <2>7 DEF b, parseTypeStmt, If, Unexpected, Idents, Keywords
<1>4. CASE peek.k \notin {"("} \cup Idents
  <2> DEFINE z == At(o, 1, "now")
  <2>1. z \in Place /\ z.open = o /\ z.cost = 1 /\ z.mode = "now"
    BY <1>1, PlaceFacts DEF MaxCalls, Modes
  <2> HIDE DEF z
  <2>2. Leads(z, Op("unexpected", {"("} \cup Idents, "", "", <<>>), y)
    BY <1>1, <2>1, UnexpectedLeads
  <2> DEFINE b == <<Op("unexpected", {"("} \cup Idents, "", "", <<>>)>>
  <2>3. Path(z, b, y)
    BY <1>1, <2>1, <2>2, PathOne
  <2>4. Holds(z.mode, b)
    BY <2>1, <1>4 DEF Holds, Ready, Op
  <2> HIDE DEF b
  <2>5. Keeps(x, b, y)
    BY <1>1, <2>1, <2>3, <2>4 DEF Keeps
  <2>6. QED
    BY <1>4, <2>5 DEF b, parseTypeStmt, If, Unexpected, Idents, Keywords
<1>5. QED
  BY <1>2, <1>3, <1>4 DEF Types, Idents, Keywords

\* Types in parentheses.
LEMMA TypeGroupKeeps ==
  ASSUME NEW x, NEW y, Called(x, y, 1, 4), y.mode = "any"
  PROVE  Keeps(x, parseTypeGroupStmt, y)
<1> DEFINE o == y.open
<1>1. /\ x \in Place /\ y \in Place /\ o \in Seq(Opens) /\ x.open = o /\ y.open = o
      /\ x.cost \in Nat /\ y.cost \in Nat /\ 1 <= x.cost /\ y.cost <= 4 /\ y.mode = "any"
  BY PlaceType DEF Called, MaxCalls
<1> HIDE DEF o
<1>2. Keeps(x, parseTypeGroupStmt, y)
  <2> DEFINE q == Append(o, "(")
             z == At(o, 0, "any")
             m1 == At(q, 8, "any")
             m2 == At(q, 0, "any")
  <2>1. q \in Seq(Opens)
    BY <1>1, Opened DEF Opens
  <2>2. q = Append(o, "(")
    OBVIOUS
  <2> HIDE DEF q
  <2>3. /\ z \in Place /\ z.open = o /\ z.cost = 0 /\ z.mode = "any"
        /\ m1 \in Place /\ m1.open = q /\ m1.cost = 8 /\ m1.mode = "any"
        /\ m2 \in Place /\ m2.open = q /\ m2.cost = 0 /\ m2.mode = "any"
    BY <1>1, <2>1, PlaceFacts DEF MaxCalls, Modes
  <2> HIDE DEF z, m1, m2
  <2>4. m1.cost <= m1.cost /\ 2 <= m1.cost /\ m2.cost <= 0
    BY <1>1, <2>3
  <2>5. Leads(z, Eat({"("}, "group", "lparen"), m1)
    BY <1>1, <2>3, <2>2, OpenLeads DEF Eat, Opens
  <2>6. Leads(m1, Expect({")"} \cup Idents), m1)
    BY <1>1, <2>3, <2>4, ExpectLeads DEF Expect
  <2>7. Leads(m1, Call("typeExprs"), m2)
    BY <1>1, <2>3, <2>4, CallLeads, Contracts DEF Call
  <2>8. Leads(m2, Eat({")"}, "group", "rparen"), y)
    BY <1>1, <2>3, <2>2, CloseLeads DEF Eat, Closes, Opening
  <2> DEFINE b == <<Eat({"("}, "group", "lparen"), Expect({")"} \cup Idents), Call("typeExprs"),
                    Eat({")"}, "group", "rparen")>>
  <2>9. Path(z, b, y)
    BY <1>1, <2>3, <2>5, <2>6, <2>7, <2>8, PathFour
  <2>10. Holds(z.mode, b)
    BY <2>3 DEF Holds
  <2> HIDE DEF b
  <2>11. Keeps(x, b, y)
    BY <1>1, <2>3, <2>9, <2>10 DEF Keeps
  <2>12. QED
    BY <2>11 DEF b, parseTypeGroupStmt
<1>3. QED
  BY <1>2

\* Type by type.
LEMMA TypeExprListKeeps ==
  ASSUME NEW x, NEW y, Called(x, y, 2, 0), y.mode = "any"
  PROVE  Keeps(x, parseTypeExprList(cur, peek), y)
<1> DEFINE o == y.open
<1>1. /\ x \in Place /\ y \in Place /\ o \in Seq(Opens) /\ x.open = o /\ y.open = o
      /\ x.cost \in Nat /\ y.cost \in Nat /\ 2 <= x.cost /\ y.cost <= 0 /\ y.mode = "any"
  BY PlaceType DEF Called, MaxCalls
<1> HIDE DEF o
<1>2. CASE cur.k # "EOF" /\ peek.k \notin {")", "EOF"}
  <2> DEFINE z == At(o, 1, "any")
             m1 == At(o, 4, "any")
  <2>1. /\ z \in Place /\ z.open = o /\ z.cost = 1 /\ z.mode = "any"
        /\ m1 \in Place /\ m1.open = o /\ m1.cost = 4 /\ m1.mode = "any"
    BY <1>1, PlaceFacts DEF MaxCalls, Modes
  <2> HIDE DEF z, m1
  <2>2. 1 <= z.cost /\ m1.cost <= 4 /\ m1.cost <= m1.cost /\ 2 <= m1.cost /\ y.cost <= 0
    BY <1>1, <2>1
  <2>3. Leads(z, CallIn("typeExpr", "group"), m1)
    BY <1>1, <2>1, <2>2, CallLeads, Contracts DEF CallIn
  <2>4. Leads(m1, Expect({")"} \cup Idents), m1)
    BY <1>1, <2>1, <2>2, ExpectLeads DEF Expect
  <2>5. Leads(m1, Call("typeExprs"), y)
    BY <1>1, <2>1, <2>2, CallLeads, Contracts DEF Call
  <2> DEFINE b == <<CallIn("typeExpr", "group"), Expect({")"} \cup Idents), Call("typeExprs")>>
  <2>6. Path(z, b, y)
    BY <1>1, <2>1, <2>3, <2>4, <2>5, PathThree
  <2>7. Holds(z.mode, b)
    BY <2>1 DEF Holds
  <2> HIDE DEF b
  <2>8. Keeps(x, b, y)
    BY <1>1, <2>1, <2>6, <2>7 DEF Keeps
  <2>9. QED
    BY <1>2, <2>8 DEF b, parseTypeExprList, If
<1>3. CASE ~(cur.k # "EOF" /\ peek.k \notin {")", "EOF"})
  <2>1. y.cost < x.cost
    BY <1>1
  <2>2. Keeps(x, <<>>, y)
    BY <1>1, <2>1, NothingKeeps
  <2>3. QED
    BY <1>3, <2>2 DEF parseTypeExprList, If
<1>4. QED
  BY <1>2, <1>3

\* A type.
LEMMA TypeExprKeeps ==
  ASSUME NEW x, NEW y, Called(x, y, 1, 4), y.mode = "any", NEW u, u # "item"
  PROVE  Keeps(x, parseTypeExpr(u), y)
<1> DEFINE o == y.open
<1>1. /\ x \in Place /\ y \in Place /\ o \in Seq(Opens) /\ x.open = o /\ y.open = o
      /\ x.cost \in Nat /\ y.cost \in Nat /\ 1 <= x.cost /\ y.cost <= 4 /\ y.mode = "any"
  BY PlaceType DEF Called, MaxCalls
<1> HIDE DEF o
<1>2. Keeps(x, parseTypeExpr(u), y)
  <2> DEFINE z == At(o, 0, "any")
             m1 == At(o, 8, "any")
             m2 == At(o, 4, "any")
             m3 == At(o, 2, "any")
  <2>1. /\ z \in Place /\ z.open = o /\ z.cost = 0 /\ z.mode = "any"
        /\ m1 \in Place /\ m1.open = o /\ m1.cost = 8 /\ m1.mode = "any"
        /\ m2 \in Place /\ m2.open = o /\ m2.cost = 4 /\ m2.mode = "any"
        /\ m3 \in Place /\ m3.open = o /\ m3.cost = 2 /\ m3.mode = "any"
    BY <1>1, PlaceFacts DEF MaxCalls, Modes
  <2> HIDE DEF z, m1, m2, m3
  <2>2. 5 <= m1.cost /\ m2.cost <= 4 /\ 3 <= m2.cost /\ m3.cost <= 2 /\ 2 <= m3.cost /\ y.cost <= 4
    BY <1>1, <2>1
  <2>3. Leads(z, Eat(Idents, u, "type"), m1)
    BY <1>1, <2>1, EatLeads, PlainSets, PlainKinds DEF Eat
  <2>4. Leads(m1, Call("keyword"), m2)
    BY <1>1, <2>1, <2>2, CallLeads, Contracts DEF Call
  <2>5. Leads(m2, CallIn("assign", u), m3)
    BY <1>1, <2>1, <2>2, CallLeads, Contracts DEF CallIn
  <2>6. Leads(m3, CallAt("dataType", u, <<>>), y)
    BY <1>1, <2>1, <2>2, CallLeads, Contracts DEF CallAt
  <2> DEFINE b == <<Eat(Idents, u, "type"), Call("keyword"), CallIn("assign", u), CallAt("dataType", u, <<>>)>>
  <2>7. Path(z, b, y)
    BY <1>1, <2>1, <2>3, <2>4, <2>5, <2>6, PathFour
  <2>8. Holds(z.mode, b)
    BY <2>1 DEF Holds
  <2> HIDE DEF b
  <2>9. Keeps(x, b, y)
    BY <1>1, <2>1, <2>7, <2>8 DEF Keeps
  <2>10. QED
    BY <2>9 DEF b, parseTypeExpr
<1>3. QED
  BY <1>2

\* An alias.
LEMMA AssignKeeps ==
  ASSUME NEW x, NEW y, Called(x, y, 3, 2), y.mode = "any", NEW u, u # "item"
  PROVE  Keeps(x, parseAssign(peek, u), y)
<1> DEFINE o == y.open
<1>1. /\ x \in Place /\ y \in Place /\ o \in Seq(Opens) /\ x.open = o /\ y.open = o
      /\ x.cost \in Nat /\ y.cost \in Nat /\ 3 <= x.cost /\ y.cost <= 2 /\ y.mode = "any"
  BY PlaceType DEF Called, MaxCalls
<1> HIDE DEF o
<1>2. CASE peek.k = "="
  <2> DEFINE z == At(o, 2, "any")
  <2>1. z \in Place /\ z.open = o /\ z.cost = 2 /\ z.mode = "any"
    BY <1>1, PlaceFacts DEF MaxCalls, Modes
  <2> HIDE DEF z
  <2>2. Leads(z, Eat({"="}, u, "assign"), y)
    BY <1>1, <2>1, EatLeads, PlainSets, PlainKinds DEF Eat
  <2> DEFINE b == <<Eat({"="}, u, "assign")>>
  <2>3. Path(z, b, y)
    BY <1>1, <2>1, <2>2, PathOne
  <2>4. Holds(z.mode, b)
    BY <2>1 DEF Holds
  <2> HIDE DEF b
  <2>5. Keeps(x, b, y)
    BY <1>1, <2>1, <2>3, <2>4 DEF Keeps
  <2>6. QED
    BY <1>2, <2>5 DEF b, parseAssign, If
<1>3. CASE peek.k # "="
  <2>1. y.cost < x.cost
    BY <1>1
  <2>2. Keeps(x, <<>>, y)
    BY <1>1, <2>1, NothingKeeps
  <2>3. QED
    BY <1>3, <2>2 DEF parseAssign, If
<1>4. QED
  BY <1>2, <1>3

\* A keyword is no name.
LEMMA KeywordKeeps ==
  ASSUME NEW x, NEW y, Called(x, y, 5, 4), y.mode = "any"
  PROVE  Keeps(x, curTokenIsKeyword(cur), y)
<1> DEFINE o == y.open
<1>1. /\ x \in Place /\ y \in Place /\ o \in Seq(Opens) /\ x.open = o /\ y.open = o
      /\ x.cost \in Nat /\ y.cost \in Nat /\ 5 <= x.cost /\ y.cost <= 4 /\ y.mode = "any"
  BY PlaceType DEF Called, MaxCalls
<1> HIDE DEF o
<1>2. CASE cur.k \in Keywords
  <2> DEFINE z == At(o, 4, "any")
  <2>1. z \in Place /\ z.open = o /\ z.cost = 4 /\ z.mode = "any"
    BY <1>1, PlaceFacts DEF MaxCalls, Modes
  <2> HIDE DEF z
  <2>2. Leads(z, Reject, y)
    BY <1>1, <2>1, RejectLeads DEF Reject
  <2> DEFINE b == <<Reject>>
  <2>3. Path(z, b, y)
    BY <1>1, <2>1, <2>2, PathOne
  <2>4. Holds(z.mode, b)
    BY <2>1 DEF Holds
  <2> HIDE DEF b
  <2>5. Keeps(x, b, y)
    BY <1>1, <2>1, <2>3, <2>4 DEF Keeps
  <2>6. QED
    BY <1>2, <2>5 DEF b, curTokenIsKeyword, If
<1>3. CASE cur.k \notin Keywords
  <2>1. y.cost < x.cost
    BY <1>1
  <2>2. Keeps(x, <<>>, y)
    BY <1>1, <2>1, NothingKeeps
  <2>3. QED
    BY <1>3, <2>2 DEF curTokenIsKeyword, If
<1>4. QED
  BY <1>2, <1>3

\* A data type is told by its first token.
LEMMA DataTypeKeeps ==
  ASSUME NEW x, NEW y, Called(x, y, 2, 4), y.mode = "any", NEW u, u # "item", NEW at
  PROVE  Keeps(x, parseDataType(peek, u, at), y)
<1> DEFINE o == y.open
<1>1. /\ x \in Place /\ y \in Place /\ o \in Seq(Opens) /\ x.open = o /\ y.open = o
      /\ x.cost \in Nat /\ y.cost \in Nat /\ 2 <= x.cost /\ y.cost <= 4 /\ y.mode = "any"
  BY PlaceType DEF Called, MaxCalls
<1> HIDE DEF o
<1>2. CASE peek.k = "any"
  <2> DEFINE z == At(o, 1, "any")
  <2>1. z \in Place /\ z.open = o /\ z.cost = 1 /\ z.mode = "any"
    BY <1>1, PlaceFacts DEF MaxCalls, Modes
  <2> HIDE DEF z
  <2>2. Leads(z, EatIn({"any"}, u, "base", at), y)
    BY <1>1, <2>1, EatLeads, PlainSets, PlainKinds DEF EatIn
  <2> DEFINE b == <<EatIn({"any"}, u, "base", at)>>
  <2>3. Path(z, b, y)
    BY <1>1, <2>1, <2>2, PathOne
  <2>4. Holds(z.mode, b)
    BY <2>1 DEF Holds
  <2> HIDE DEF b
  <2>5. Keeps(x, b, y)
    BY <1>1, <2>1, <2>3, <2>4 DEF Keeps
  <2>6. QED
    BY <1>2, <2>5 DEF b, parseDataType, If, Unexpected, Types, Idents, Keywords
<1>3. CASE peek.k = "{"
  <2> DEFINE z == At(o, 1, "any")
  <2>1. z \in Place /\ z.open = o /\ z.cost = 1 /\ z.mode = "any"
    BY <1>1, PlaceFacts DEF MaxCalls, Modes
  <2> HIDE DEF z
  <2>2. 1 <= z.cost /\ y.cost <= 4
    BY <1>1, <2>1
  <2>3. Leads(z, CallAt("struct", u, at), y)
    BY <1>1, <2>1, <2>2, CallLeads, Contracts DEF CallAt
  <2> DEFINE b == <<CallAt("struct", u, at)>>
  <2>4. Path(z, b, y)
    BY <1>1, <2>1, <2>3, PathOne
  <2>5. Holds(z.mode, b)
    BY <2>1 DEF Holds
  <2> HIDE DEF b
  <2>6. Keeps(x, b, y)
    BY <1>1, <2>1, <2>4, <2>5 DEF Keeps
  <2>7. QED
    BY <1>3, <2>6 DEF b, parseDataType, If, Unexpected, Types, Idents, Keywords
<1>4. CASE peek.k = "map"
  <2> DEFINE z == At(o, 1, "any")
  <2>1. z \in Place /\ z.open = o /\ z.cost = 1 /\ z.mode = "any"
    BY <1>1, PlaceFacts DEF MaxCalls, Modes
  <2> HIDE DEF z
  <2>2. 1 <= z.cost /\ y.cost <= 4
    BY <1>1, <2>1
  <2>3. Leads(z, CallAt("map", u, at), y)
    BY <1>1, <2>1, <2>2, CallLeads, Contracts DEF CallAt
  <2> DEFINE b == <<CallAt("map", u, at)>>
  <2>4. Path(z, b, y)
    BY <1>1, <2>1, <2>3, PathOne
  <2>5. Holds(z.mode, b)
    BY <2>1 DEF Holds
  <2> HIDE DEF b
  <2>6. Keeps(x, b, y)
    BY <1>1, <2>1, <2>4, <2>5 DEF Keeps
  <2>7. QED
    BY <1>4, <2>6 DEF b, parseDataType, If, Unexpected, Types, Idents, Keywords
<1>5. CASE peek.k \in Idents \ {"any", "map"}
  <2> DEFINE z == At(o, 1, "any")
             m1 == At(o, 8, "any")
  <2>1. /\ z \in Place /\ z.open = o /\ z.cost = 1 /\ z.mode = "any"
        /\ m1 \in Place /\ m1.open = o /\ m1.cost = 8 /\ m1.mode = "any"
    BY <1>1, PlaceFacts DEF MaxCalls, Modes
  <2> HIDE DEF z, m1
  <2>2. 5 <= m1.cost /\ y.cost <= 4
    BY <1>1, <2>1
  <2>3. Leads(z, EatIn(Idents, u, "base", at), m1)
    BY <1>1, <2>1, EatLeads, PlainSets, PlainKinds DEF EatIn
  <2>4. Leads(m1, Call("keyword"), y)
    BY <1>1, <2>1, <2>2, CallLeads, Contracts DEF Call
  <2> DEFINE b == <<EatIn(Idents, u, "base", at), Call("keyword")>>
  <2>5. Path(z, b, y)
    BY <1>1, <2>1, <2>3, <2>4, PathTwo
  <2>6. Holds(z.mode, b)
    BY <2>1 DEF Holds
  <2> HIDE DEF b
  <2>7. Keeps(x, b, y)
    BY <1>1, <2>1, <2>5, <2>6 DEF Keeps
  <2>8. QED
    BY <1>5, <2>7 DEF b, parseDataType, If, Unexpected, Types, Idents, Keywords
<1>6. CASE peek.k = "["
  <2> DEFINE q == Append(o, "[")
             z == At(o, 1, "any")
             m1 == At(q, 8, "any")
  <2>1. q \in Seq(Opens)
    BY <1>1, Opened DEF Opens
  <2>2. q = Append(o, "[")
    OBVIOUS
  <2> HIDE DEF q
  <2>3. /\ z \in Place /\ z.open = o /\ z.cost = 1 /\ z.mode = "any"
        /\ m1 \in Place /\ m1.open = q /\ m1.cost = 8 /\ m1.mode = "any"
    BY <1>1, <2>1, PlaceFacts DEF MaxCalls, Modes
  <2> HIDE DEF z, m1
  <2>4. 1 <= m1.cost /\ y.cost <= 4
    BY <1>1, <2>3
  <2>5. Leads(z, EatIn({"["}, u, "prefix", at), m1)
    BY <1>1, <2>3, <2>2, OpenLeads DEF EatIn, Opens
  <2>6. Leads(m1, CallAt("list", u, at), y)
    BY <1>1, <2>3, <2>4, <2>2, ListLeads, Contracts DEF CallAt
  <2> DEFINE b == <<EatIn({"["}, u, "prefix", at), CallAt("list", u, at)>>
  <2>7. Path(z, b, y)
    BY <1>1, <2>3, <2>5, <2>6, PathTwo
  <2>8. Holds(z.mode, b)
    BY <2>3 DEF Holds
  <2> HIDE DEF b
  <2>9. Keeps(x, b, y)
    BY <1>1, <2>3, <2>7, <2>8 DEF Keeps
  <2>10. QED
    BY <1>6, <2>9 DEF b, parseDataType, If, Unexpected, Types, Idents, Keywords
<1>7. CASE peek.k = "any{}"
  <2> DEFINE z == At(o, 1, "any")
  <2>1. z \in Place /\ z.open = o /\ z.cost = 1 /\ z.mode = "any"
    BY <1>1, PlaceFacts DEF MaxCalls, Modes
  <2> HIDE DEF z
  <2>2. Leads(z, EatIn({"any{}"}, u, "base", at), y)
    BY <1>1, <2>1, EatLeads, PlainSets, PlainKinds DEF EatIn
  <2> DEFINE b == <<EatIn({"any{}"}, u, "base", at)>>
  <2>3. Path(z, b, y)
    BY <1>1, <2>1, <2>2, PathOne
  <2>4. Holds(z.mode, b)
    BY <2>1 DEF Holds
  <2> HIDE DEF b
  <2>5. Keeps(x, b, y)
    BY <1>1, <2>1, <2>3, <2>4 DEF Keeps
  <2>6. QED
    BY <1>7, <2>5 DEF b, parseDataType, If, Unexpected, Types, Idents, Keywords
<1>8. CASE peek.k = "*"
  <2> DEFINE z == At(o, 1, "any")
  <2>1. z \in Place /\ z.open = o /\ z.cost = 1 /\ z.mode = "any"
    BY <1>1, PlaceFacts DEF MaxCalls, Modes
  <2> HIDE DEF z
  <2>2. 1 <= z.cost /\ y.cost <= 4
    BY <1>1, <2>1
  <2>3. Leads(z, CallAt("pointer", u, at), y)
    BY <1>1, <2>1, <2>2, CallLeads, Contracts DEF CallAt
  <2> DEFINE b == <<CallAt("pointer", u, at)>>
  <2>4. Path(z, b, y)
    BY <1>1, <2>1, <2>3, PathOne
  <2>5. Holds(z.mode, b)
    BY <2>1 DEF Holds
  <2> HIDE DEF b
  <2>6. Keeps(x, b, y)
    BY <1>1, <2>1, <2>4, <2>5 DEF Keeps
  <2>7. QED
    BY <1>8, <2>6 DEF b, parseDataType, If, Unexpected, Types, Idents, Keywords
<1>9. CASE peek.k \notin {"{"} \cup Types
  <2> DEFINE z == At(o, 1, "now")
  <2>1. z \in Place /\ z.open = o /\ z.cost = 1 /\ z.mode = "now"
    BY <1>1, PlaceFacts DEF MaxCalls, Modes
  <2> HIDE DEF z
  <2>2. Leads(z, Op("unexpected", {"{"} \cup Types, "", "", <<>>), y)
    BY <1>1, <2>1, UnexpectedLeads
  <2> DEFINE b == <<Op("unexpected", {"{"} \cup Types, "", "", <<>>)>>
  <2>3. Path(z, b, y)
    BY <1>1, <2>1, <2>2, PathOne
  <2>4. Holds(z.mode, b)
    BY <2>1, <1>9 DEF Holds, Ready, Op
  <2> HIDE DEF b
  <2>5. Keeps(x, b, y)
    BY <1>1, <2>1, <2>3, <2>4 DEF Keeps
  <2>6. QED
    BY <1>9, <2>5 DEF b, parseDataType, If, Unexpected, Types, Idents, Keywords
<1>10. QED
  BY <1>2, <1>3, <1>4, <1>5, <1>6, <1>7, <1>8, <1>9 DEF Types, Idents, Keywords

\* A map.
LEMMA MapKeeps ==
  ASSUME NEW x, NEW y, Called(x, y, 1, 4), y.mode = "any", NEW u, u # "item", NEW at
  PROVE  Keeps(x, parseMapDataType(u, at), y)
<1> DEFINE o == y.open
<1>1. /\ x \in Place /\ y \in Place /\ o \in Seq(Opens) /\ x.open = o /\ y.open = o
      /\ x.cost \in Nat /\ y.cost \in Nat /\ 1 <= x.cost /\ y.cost <= 4 /\ y.mode = "any"
  BY PlaceType DEF Called, MaxCalls
<1> HIDE DEF o
<1>2. Keeps(x, parseMapDataType(u, at), y)
  <2> DEFINE q == Append(o, "[")
             z == At(o, 0, "any")
             m1 == At(o, 8, "any")
             m2 == At(q, 8, "any")
             m3 == At(q, 4, "any")
  <2>1. q \in Seq(Opens)
    BY <1>1, Opened DEF Opens
  <2>2. q = Append(o, "[")
    OBVIOUS
  <2> HIDE DEF q
  <2>3. /\ z \in Place /\ z.open = o /\ z.cost = 0 /\ z.mode = "any"
        /\ m1 \in Place /\ m1.open = o /\ m1.cost = 8 /\ m1.mode = "any"
        /\ m2 \in Place /\ m2.open = q /\ m2.cost = 8 /\ m2.mode = "any"
        /\ m3 \in Place /\ m3.open = q /\ m3.cost = 4 /\ m3.mode = "any"
    BY <1>1, <2>1, PlaceFacts DEF MaxCalls, Modes
  <2> HIDE DEF z, m1, m2, m3
  <2>4. 2 <= m2.cost /\ m3.cost <= 4 /\ 2 <= m1.cost /\ y.cost <= 4
    BY <1>1, <2>3
  <2>5. Leads(z, EatIn({"map"}, u, "prefix", at), m1)
    BY <1>1, <2>3, EatLeads, PlainSets, PlainKinds DEF EatIn
  <2>6. Leads(m1, EatIn({"["}, u, "inner", at), m2)
    BY <1>1, <2>3, <2>2, OpenLeads DEF EatIn, Opens
  <2>7. Leads(m2, CallAt("dataType", u, at \o <<"mapKey">>), m3)
    BY <1>1, <2>3, <2>4, CallLeads, Contracts DEF CallAt
  <2>8. Leads(m3, EatIn({"]"}, u, "inner", at), m1)
    BY <1>1, <2>3, <2>2, CloseLeads DEF EatIn, Closes, Opening
  <2>9. Leads(m1, CallAt("dataType", u, at \o <<"mapValue">>), y)
    BY <1>1, <2>3, <2>4, CallLeads, Contracts DEF CallAt
  <2> DEFINE b == <<EatIn({"map"}, u, "prefix", at), EatIn({"["}, u, "inner", at),
                    CallAt("dataType", u, at \o <<"mapKey">>), EatIn({"]"}, u, "inner", at),
                      CallAt("dataType", u, at \o <<"mapValue">>)>>
  <2>10. Path(z, b, y)
    BY <1>1, <2>3, <2>5, <2>6, <2>7, <2>8, <2>9, PathFive
  <2>11. Holds(z.mode, b)
    BY <2>3 DEF Holds
  <2> HIDE DEF b
  <2>12. Keeps(x, b, y)
    BY <1>1, <2>3, <2>10, <2>11 DEF Keeps
  <2>13. QED
    BY <2>12 DEF b, parseMapDataType
<1>3. QED
  BY <1>2

\* A pointer.
LEMMA PointerKeeps ==
  ASSUME NEW x, NEW y, Called(x, y, 1, 4), y.mode = "any", NEW u, u # "item", NEW at
  PROVE  Keeps(x, parsePointerDataType(u, at), y)
<1> DEFINE o == y.open
<1>1. /\ x \in Place /\ y \in Place /\ o \in Seq(Opens) /\ x.open = o /\ y.open = o
      /\ x.cost \in Nat /\ y.cost \in Nat /\ 1 <= x.cost /\ y.cost <= 4 /\ y.mode = "any"
  BY PlaceType DEF Called, MaxCalls
<1> HIDE DEF o
<1>2. Keeps(x, parsePointerDataType(u, at), y)
  <2> DEFINE z == At(o, 0, "any")
             m1 == At(o, 8, "any")
  <2>1. /\ z \in Place /\ z.open = o /\ z.cost = 0 /\ z.mode = "any"
        /\ m1 \in Place /\ m1.open = o /\ m1.cost = 8 /\ m1.mode = "any"
    BY <1>1, PlaceFacts DEF MaxCalls, Modes
  <2> HIDE DEF z, m1
  <2>2. m1.cost <= m1.cost /\ 2 <= m1.cost /\ y.cost <= 4
    BY <1>1, <2>1
  <2>3. Leads(z, EatIn({"*"}, u, "prefix", at), m1)
    BY <1>1, <2>1, EatLeads, PlainSets, PlainKinds DEF EatIn
  <2>4. Leads(m1, Expect(Types), m1)
    BY <1>1, <2>1, <2>2, ExpectLeads DEF Expect
  <2>5. Leads(m1, CallAt("dataType", u, at \o <<"pointer">>), y)
    BY <1>1, <2>1, <2>2, CallLeads, Contracts DEF CallAt
  <2> DEFINE b == <<EatIn({"*"}, u, "prefix", at), Expect(Types), CallAt("dataType", u, at \o <<"pointer">>)>>
  <2>6. Path(z, b, y)
    BY <1>1, <2>1, <2>3, <2>4, <2>5, PathThree
  <2>7. Holds(z.mode, b)
    BY <2>1 DEF Holds
  <2> HIDE DEF b
  <2>8. Keeps(x, b, y)
    BY <1>1, <2>1, <2>6, <2>7 DEF Keeps
  <2>9. QED
    BY <2>8 DEF b, parsePointerDataType
<1>3. QED
  BY <1>2

\* A slice or an array, behind the bracket it opens with.
LEMMA ListKeeps ==
  ASSUME NEW x, NEW y, CalledInList(x, y, 1, 4), y.mode = "any", NEW u, u # "item", NEW at
  PROVE  Keeps(x, parseListDataType(peek, u, at), y)
<1> DEFINE o == y.open
<1>1. /\ x \in Place /\ y \in Place /\ o \in Seq(Opens) /\ y.open = o
      /\ x.cost \in Nat /\ y.cost \in Nat /\ 1 <= x.cost /\ y.cost <= 4 /\ y.mode = "any"
  BY PlaceType DEF CalledInList, MaxCalls
<1> HIDE DEF o
<1>2. CASE peek.k = "]"
  <2> DEFINE q == Append(o, "[")
             z == At(q, 0, "any")
             m1 == At(o, 8, "any")
  <2>1. q \in Seq(Opens)
    BY <1>1, Opened DEF Opens
  <2>2. q = Append(o, "[")
    OBVIOUS
  <2> HIDE DEF q
  <2>3. /\ z \in Place /\ z.open = q /\ z.cost = 0 /\ z.mode = "any"
        /\ m1 \in Place /\ m1.open = o /\ m1.cost = 8 /\ m1.mode = "any"
    BY <1>1, <2>1, PlaceFacts DEF MaxCalls, Modes
  <2> HIDE DEF z, m1
  <2>4. 2 <= m1.cost /\ y.cost <= 4
    BY <1>1, <2>3
  <2>5. Leads(z, EatIn({"]"}, u, "inner", at), m1)
    BY <1>1, <2>3, <2>2, CloseLeads DEF EatIn, Closes, Opening
  <2>6. Leads(m1, CallAt("dataType", u, at \o <<"slice">>), y)
    BY <1>1, <2>3, <2>4, CallLeads, Contracts DEF CallAt
  <2> DEFINE b == <<EatIn({"]"}, u, "inner", at), CallAt("dataType", u, at \o <<"slice">>)>>
  <2>7. Path(z, b, y)
    BY <1>1, <2>3, <2>5, <2>6, PathTwo
  <2>8. Holds(z.mode, b)
    BY <2>3 DEF Holds
  <2> HIDE DEF b
  <2>9. z.open = x.open
    BY <1>1, <2>2, <2>3 DEF CalledInList
  <2>10. Keeps(x, b, y)
    BY <1>1, <2>3, <2>7, <2>8, <2>9 DEF Keeps
  <2>11. QED
    BY <1>2, <2>10 DEF b, parseListDataType, If, Unexpected
<1>3. CASE peek.k \in {"int", "..."}
  <2> DEFINE q == Append(o, "[")
             z == At(q, 0, "any")
             m1 == At(q, 8, "any")
             m2 == At(o, 8, "any")
  <2>1. q \in Seq(Opens)
    BY <1>1, Opened DEF Opens
  <2>2. q = Append(o, "[")
    OBVIOUS
  <2> HIDE DEF q
  <2>3. /\ z \in Place /\ z.open = q /\ z.cost = 0 /\ z.mode = "any"
        /\ m1 \in Place /\ m1.open = q /\ m1.cost = 8 /\ m1.mode = "any"
        /\ m2 \in Place /\ m2.open = o /\ m2.cost = 8 /\ m2.mode = "any"
    BY <1>1, <2>1, PlaceFacts DEF MaxCalls, Modes
  <2> HIDE DEF z, m1, m2
  <2>4. 2 <= m2.cost /\ y.cost <= 4
    BY <1>1, <2>3
  <2>5. Leads(z, EatIn({"int", "..."}, u, "inner", at), m1)
    BY <1>1, <2>3, EatLeads, PlainSets, PlainKinds DEF EatIn
  <2>6. Leads(m1, EatIn({"]"}, u, "inner", at), m2)
    BY <1>1, <2>3, <2>2, CloseLeads DEF EatIn, Closes, Opening
  <2>7. Leads(m2, CallAt("dataType", u, at \o <<"array">>), y)
    BY <1>1, <2>3, <2>4, CallLeads, Contracts DEF CallAt
  <2> DEFINE b == <<EatIn({"int", "..."}, u, "inner", at), EatIn({"]"}, u, "inner", at),
                    CallAt("dataType", u, at \o <<"array">>)>>
  <2>8. Path(z, b, y)
    BY <1>1, <2>3, <2>5, <2>6, <2>7, PathThree
  <2>9. Holds(z.mode, b)
    BY <2>3 DEF Holds
  <2> HIDE DEF b
  <2>10. z.open = x.open
    BY <1>1, <2>2, <2>3 DEF CalledInList
  <2>11. Keeps(x, b, y)
    BY <1>1, <2>3, <2>8, <2>9, <2>10 DEF Keeps
  <2>12. QED
    BY <1>3, <2>11 DEF b, parseListDataType, If, Unexpected
<1>4. CASE peek.k \notin {"]", "int", "..."}
  <2> DEFINE q == Append(o, "[")
             z == At(q, 0, "now")
  <2>1. q \in Seq(Opens)
    BY <1>1, Opened DEF Opens
  <2>2. q = Append(o, "[")
    OBVIOUS
  <2> HIDE DEF q
  <2>3. z \in Place /\ z.open = q /\ z.cost = 0 /\ z.mode = "now"
    BY <1>1, <2>1, PlaceFacts DEF MaxCalls, Modes
  <2> HIDE DEF z
  <2>4. Leads(z, Op("unexpected", {"]", "int", "..."}, "", "", <<>>), y)
    BY <1>1, <2>3, UnexpectedLeads
  <2> DEFINE b == <<Op("unexpected", {"]", "int", "..."}, "", "", <<>>)>>
  <2>5. Path(z, b, y)
    BY <1>1, <2>3, <2>4, PathOne
  <2>6. Holds(z.mode, b)
    BY <2>3, <1>4 DEF Holds, Ready, Op
  <2> HIDE DEF b
  <2>7. z.open = x.open
    BY <1>1, <2>2, <2>3 DEF CalledInList
  <2>8. Keeps(x, b, y)
    BY <1>1, <2>3, <2>5, <2>6, <2>7 DEF Keeps
  <2>9. QED
    BY <1>4, <2>8 DEF b, parseListDataType, If, Unexpected
<1>5. QED
  BY <1>2, <1>3, <1>4

\* A struct.
LEMMA StructKeeps ==
  ASSUME NEW x, NEW y, Called(x, y, 1, 4), y.mode = "any", NEW u, u # "item", NEW at
  PROVE  Keeps(x, parseStructDataType(u, at), y)
<1> DEFINE o == y.open
<1>1. /\ x \in Place /\ y \in Place /\ o \in Seq(Opens) /\ x.open = o /\ y.open = o
      /\ x.cost \in Nat /\ y.cost \in Nat /\ 1 <= x.cost /\ y.cost <= 4 /\ y.mode = "any"
  BY PlaceType DEF Called, MaxCalls
<1> HIDE DEF o
<1>2. Keeps(x, parseStructDataType(u, at), y)
  <2> DEFINE q == Append(o, "{")
             z == At(o, 0, "any")
             m1 == At(q, 8, "any")
             m2 == At(q, 0, "any")
  <2>1. q \in Seq(Opens)
    BY <1>1, Opened DEF Opens
  <2>2. q = Append(o, "{")
    OBVIOUS
  <2> HIDE DEF q
  <2>3. /\ z \in Place /\ z.open = o /\ z.cost = 0 /\ z.mode = "any"
        /\ m1 \in Place /\ m1.open = q /\ m1.cost = 8 /\ m1.mode = "any"
        /\ m2 \in Place /\ m2.open = q /\ m2.cost = 0 /\ m2.mode = "any"
    BY <1>1, <2>1, PlaceFacts DEF MaxCalls, Modes
  <2> HIDE DEF z, m1, m2
  <2>4. m1.cost <= m1.cost /\ 1 <= m1.cost /\ m2.cost <= 0
    BY <1>1, <2>3
  <2>5. Leads(z, EatIn({"{"}, u, "lbrace", at), m1)
    BY <1>1, <2>3, <2>2, OpenLeads DEF EatIn, Opens
  <2>6. Leads(m1, Expect({"*", "}"} \cup Idents), m1)
    BY <1>1, <2>3, <2>4, ExpectLeads DEF Expect
  <2>7. Leads(m1, CallIn("elems", u), m2)
    BY <1>1, <2>3, <2>4, CallLeads, Contracts DEF CallIn
  <2>8. Leads(m2, EatIn({"}"}, u, "rbrace", at), y)
    BY <1>1, <2>3, <2>2, CloseLeads DEF EatIn, Closes, Opening
  <2> DEFINE b == <<EatIn({"{"}, u, "lbrace", at), Expect({"*", "}"} \cup Idents), CallIn("elems", u),
                    EatIn({"}"}, u, "rbrace", at)>>
  <2>9. Path(z, b, y)
    BY <1>1, <2>3, <2>5, <2>6, <2>7, <2>8, PathFour
  <2>10. Holds(z.mode, b)
    BY <2>3 DEF Holds
  <2> HIDE DEF b
  <2>11. Keeps(x, b, y)
    BY <1>1, <2>3, <2>9, <2>10 DEF Keeps
  <2>12. QED
    BY <2>11 DEF b, parseStructDataType
<1>3. QED
  BY <1>2

\* Field by field.
LEMMA ElemListKeeps ==
  ASSUME NEW x, NEW y, Called(x, y, 1, 0), y.mode = "any", NEW u, u # "item"
  PROVE  Keeps(x, parseElemExprList(cur, peek, u), y)
<1> DEFINE o == y.open
<1>1. /\ x \in Place /\ y \in Place /\ o \in Seq(Opens) /\ x.open = o /\ y.open = o
      /\ x.cost \in Nat /\ y.cost \in Nat /\ 1 <= x.cost /\ y.cost <= 0 /\ y.mode = "any"
  BY PlaceType DEF Called, MaxCalls
<1> HIDE DEF o
<1>2. CASE cur.k # "EOF" /\ peek.k \notin {"}", "EOF"}
  <2> DEFINE z == At(o, 0, "any")
             m1 == At(o, 8, "quiet")
             m2 == At(o, 2, "any")
             m3 == At(o, 1, "any")
  <2>1. /\ z \in Place /\ z.open = o /\ z.cost = 0 /\ z.mode = "any"
        /\ m1 \in Place /\ m1.open = o /\ m1.cost = 8 /\ m1.mode = "quiet"
        /\ m2 \in Place /\ m2.open = o /\ m2.cost = 2 /\ m2.mode = "any"
        /\ m3 \in Place /\ m3.open = o /\ m3.cost = 1 /\ m3.mode = "any"
    BY <1>1, PlaceFacts DEF MaxCalls, Modes
  <2> HIDE DEF z, m1, m2, m3
  <2>2. z.cost <= z.cost /\ 4 <= m1.cost /\ m2.cost <= 2 /\ 2 <= m2.cost /\ m3.cost <= 1 /\ m3.cost <= m3.cost
        /\ 1 <= m3.cost /\ y.cost <= 0
    BY <1>1, <2>1
  <2>3. Leads(z, Expect({"*", "}"} \cup Idents), z)
    BY <1>1, <2>1, <2>2, ExpectLeads DEF Expect
  <2>4. Leads(z, Skip({"*"} \cup Idents), m1)
    BY <1>1, <2>1, SkipLeads, PlainSets, PlainKinds DEF Skip
  <2>5. Leads(m1, CallIn("elem", u), m2)
    BY <1>1, <2>1, <2>2, AskingLeads, Contracts DEF CallIn
  <2>6. Leads(m2, CallIn("tag", u), m3)
    BY <1>1, <2>1, <2>2, CallLeads, Contracts DEF CallIn
  <2>7. Leads(m3, Expect({"*", "}"} \cup Idents), m3)
    BY <1>1, <2>1, <2>2, ExpectLeads DEF Expect
  <2>8. Leads(m3, CallIn("elems", u), y)
    BY <1>1, <2>1, <2>2, CallLeads, Contracts DEF CallIn
  <2> DEFINE b == <<Expect({"*", "}"} \cup Idents), Skip({"*"} \cup Idents), CallIn("elem", u), CallIn("tag", u),
                    Expect({"*", "}"} \cup Idents), CallIn("elems", u)>>
  <2>9. Path(z, b, y)
    BY <1>1, <2>1, <2>3, <2>4, <2>5, <2>6, <2>7, <2>8, PathSix
  <2>10. Holds(z.mode, b)
    BY <2>1 DEF Holds
  <2> HIDE DEF b
  <2>11. Keeps(x, b, y)
    BY <1>1, <2>1, <2>9, <2>10 DEF Keeps
  <2>12. QED
    BY <1>2, <2>11 DEF b, parseElemExprList, If
<1>3. CASE ~(cur.k # "EOF" /\ peek.k \notin {"}", "EOF"})
  <2>1. y.cost < x.cost
    BY <1>1
  <2>2. Keeps(x, <<>>, y)
    BY <1>1, <2>1, NothingKeeps
  <2>3. QED
    BY <1>3, <2>2 DEF parseElemExprList, If
<1>4. QED
  BY <1>2, <1>3

\* A field or an embedded type; its first token is no bracket.
LEMMA ElemKeeps ==
  ASSUME NEW x, NEW y, Called(x, y, 4, 2), y.mode = "any", NEW u, u # "item", Quiet
  PROVE  Keeps(x, parseElemExpr(cur, peek, u), y)
<1> DEFINE o == y.open
<1>1. /\ x \in Place /\ y \in Place /\ o \in Seq(Opens) /\ x.open = o /\ y.open = o
      /\ x.cost \in Nat /\ y.cost \in Nat /\ 4 <= x.cost /\ y.cost <= 2 /\ y.mode = "any"
  BY PlaceType DEF Called, MaxCalls
<1> HIDE DEF o
<1>2. CASE cur.k \in Keywords
  <2> DEFINE z == At(o, 3, "any")
  <2>1. z \in Place /\ z.open = o /\ z.cost = 3 /\ z.mode = "any"
    BY <1>1, PlaceFacts DEF MaxCalls, Modes
  <2> HIDE DEF z
  <2>2. Leads(z, Reject, y)
    BY <1>1, <2>1, RejectLeads DEF Reject
  <2> DEFINE b == <<Reject>>
  <2>3. Path(z, b, y)
    BY <1>1, <2>1, <2>2, PathOne
  <2>4. Holds(z.mode, b)
    BY <2>1 DEF Holds
  <2> HIDE DEF b
  <2>5. Keeps(x, b, y)
    BY <1>1, <2>1, <2>3, <2>4 DEF Keeps
  <2>6. QED
    BY <1>2, <2>5 DEF b, parseElemExpr, If, Keywords
<1>3. CASE cur.k = "*"
  <2> DEFINE z == At(o, 3, "quiet")
             m1 == At(o, 3, "any")
  <2>1. /\ z \in Place /\ z.open = o /\ z.cost = 3 /\ z.mode = "quiet"
        /\ m1 \in Place /\ m1.open = o /\ m1.cost = 3 /\ m1.mode = "any"
    BY <1>1, PlaceFacts DEF MaxCalls, Modes
  <2> HIDE DEF z, m1
  <2>2. m1.cost <= z.cost
    BY <1>1, <2>1
  <2>3. Leads(z, MarkIn(u, "star", <<>>), m1)
    BY <1>1, <2>1, <2>2, MarkLeads DEF MarkIn
  <2>4. Leads(m1, EatIn(Idents, u, "base", <<"pointer">>), y)
    BY <1>1, <2>1, EatLeads, PlainSets, PlainKinds DEF EatIn
  <2> DEFINE b == <<MarkIn(u, "star", <<>>), EatIn(Idents, u, "base", <<"pointer">>)>>
  <2>5. Path(z, b, y)
    BY <1>1, <2>1, <2>3, <2>4, PathTwo
  <2>6. Holds(z.mode, b)
    BY <2>1, <1>1 DEF Holds
  <2> HIDE DEF b
  <2>7. Keeps(x, b, y)
    BY <1>1, <2>1, <2>5, <2>6 DEF Keeps
  <2>8. QED
    BY <1>3, <2>7 DEF b, parseElemExpr, If, Keywords
<1>4. CASE cur.k \notin Keywords \cup {"*"} /\ (peek.nl \/ peek.k = "raw")
  <2> DEFINE z == At(o, 3, "quiet")
  <2>1. z \in Place /\ z.open = o /\ z.cost = 3 /\ z.mode = "quiet"
    BY <1>1, PlaceFacts DEF MaxCalls, Modes
  <2> HIDE DEF z
  <2>2. y.cost <= z.cost
    BY <1>1, <2>1
  <2>3. Leads(z, MarkIn(u, "embedded", <<>>), y)
    BY <1>1, <2>1, <2>2, MarkLeads DEF MarkIn
  <2> DEFINE b == <<MarkIn(u, "embedded", <<>>)>>
  <2>4. Path(z, b, y)
    BY <1>1, <2>1, <2>3, PathOne
  <2>5. Holds(z.mode, b)
    BY <2>1, <1>1 DEF Holds
  <2> HIDE DEF b
  <2>6. Keeps(x, b, y)
    BY <1>1, <2>1, <2>4, <2>5 DEF Keeps
  <2>7. QED
    BY <1>4, <2>6 DEF b, parseElemExpr, If, Keywords
<1>5. CASE cur.k \notin Keywords \cup {"*"} /\ ~(peek.nl \/ peek.k = "raw")
  <2> DEFINE z == At(o, 3, "quiet")
             m1 == At(o, 3, "any")
             m2 == At(o, 2, "any")
  <2>1. /\ z \in Place /\ z.open = o /\ z.cost = 3 /\ z.mode = "quiet"
        /\ m1 \in Place /\ m1.open = o /\ m1.cost = 3 /\ m1.mode = "any"
        /\ m2 \in Place /\ m2.open = o /\ m2.cost = 2 /\ m2.mode = "any"
    BY <1>1, PlaceFacts DEF MaxCalls, Modes
  <2> HIDE DEF z, m1, m2
  <2>2. m1.cost <= z.cost /\ m1.cost <= m1.cost /\ 3 <= m1.cost /\ m2.cost <= 2 /\ 2 <= m2.cost /\ y.cost <= 4
    BY <1>1, <2>1
  <2>3. Leads(z, Mark(u, "field"), m1)
    BY <1>1, <2>1, <2>2, MarkLeads DEF Mark
  <2>4. Leads(m1, Expect({",", "{"} \cup Types), m1)
    BY <1>1, <2>1, <2>2, ExpectLeads DEF Expect
  <2>5. Leads(m1, CallIn("fields", u), m2)
    BY <1>1, <2>1, <2>2, CallLeads, Contracts DEF CallIn
  <2>6. Leads(m2, CallAt("dataType", u, <<>>), y)
    BY <1>1, <2>1, <2>2, CallLeads, Contracts DEF CallAt
  <2> DEFINE b == <<Mark(u, "field"), Expect({",", "{"} \cup Types), CallIn("fields", u), CallAt("dataType", u, <<>>)>>
  <2>7. Path(z, b, y)
    BY <1>1, <2>1, <2>3, <2>4, <2>5, <2>6, PathFour
  <2>8. Holds(z.mode, b)
    BY <2>1, <1>1 DEF Holds
  <2> HIDE DEF b
  <2>9. Keeps(x, b, y)
    BY <1>1, <2>1, <2>7, <2>8 DEF Keeps
  <2>10. QED
    BY <1>5, <2>9 DEF b, parseElemExpr, If, Keywords
<1>6. QED
  BY <1>2, <1>3, <1>4, <1>5 DEF Types, Idents, Keywords

\* Names with commas between them.
LEMMA FieldsKeep ==
  ASSUME NEW x, NEW y, Called(x, y, 3, 2), y.mode = "any", NEW u, u # "item"
  PROVE  Keeps(x, parseFields(peek, u), y)
<1> DEFINE o == y.open
<1>1. /\ x \in Place /\ y \in Place /\ o \in Seq(Opens) /\ x.open = o /\ y.open = o
      /\ x.cost \in Nat /\ y.cost \in Nat /\ 3 <= x.cost /\ y.cost <= 2 /\ y.mode = "any"
  BY PlaceType DEF Called, MaxCalls
<1> HIDE DEF o
<1>2. CASE peek.k = ","
  <2> DEFINE z == At(o, 2, "any")
             m1 == At(o, 8, "any")
             m2 == At(o, 4, "any")
  <2>1. /\ z \in Place /\ z.open = o /\ z.cost = 2 /\ z.mode = "any"
        /\ m1 \in Place /\ m1.open = o /\ m1.cost = 8 /\ m1.mode = "any"
        /\ m2 \in Place /\ m2.open = o /\ m2.cost = 4 /\ m2.mode = "any"
    BY <1>1, PlaceFacts DEF MaxCalls, Modes
  <2> HIDE DEF z, m1, m2
  <2>2. 5 <= m1.cost /\ m2.cost <= 4 /\ 3 <= m2.cost /\ y.cost <= 2
    BY <1>1, <2>1
  <2>3. Leads(z, Eat({","}, u, "comma"), m1)
    BY <1>1, <2>1, EatLeads, PlainSets, PlainKinds DEF Eat
  <2>4. Leads(m1, Eat(Idents, u, "more"), m1)
    BY <1>1, <2>1, EatLeads, PlainSets, PlainKinds DEF Eat
  <2>5. Leads(m1, Call("keyword"), m2)
    BY <1>1, <2>1, <2>2, CallLeads, Contracts DEF Call
  <2>6. Leads(m2, CallIn("fields", u), y)
    BY <1>1, <2>1, <2>2, CallLeads, Contracts DEF CallIn
  <2> DEFINE b == <<Eat({","}, u, "comma"), Eat(Idents, u, "more"), Call("keyword"), CallIn("fields", u)>>
  <2>7. Path(z, b, y)
    BY <1>1, <2>1, <2>3, <2>4, <2>5, <2>6, PathFour
  <2>8. Holds(z.mode, b)
    BY <2>1 DEF Holds
  <2> HIDE DEF b
  <2>9. Keeps(x, b, y)
    BY <1>1, <2>1, <2>7, <2>8 DEF Keeps
  <2>10. QED
    BY <1>2, <2>9 DEF b, parseFields, If
<1>3. CASE peek.k # ","
  <2>1. y.cost < x.cost
    BY <1>1
  <2>2. Keeps(x, <<>>, y)
    BY <1>1, <2>1, NothingKeeps
  <2>3. QED
    BY <1>3, <2>2 DEF parseFields, If
<1>4. QED
  BY <1>2, <1>3

\* The tag of a field.
LEMMA TagKeeps ==
  ASSUME NEW x, NEW y, Called(x, y, 2, 1), y.mode = "any", NEW u, u # "item"
  PROVE  Keeps(x, parseTag(peek, u), y)
<1> DEFINE o == y.open
<1>1. /\ x \in Place /\ y \in Place /\ o \in Seq(Opens) /\ x.open = o /\ y.open = o
      /\ x.cost \in Nat /\ y.cost \in Nat /\ 2 <= x.cost /\ y.cost <= 1 /\ y.mode = "any"
  BY PlaceType DEF Called, MaxCalls
<1> HIDE DEF o
<1>2. CASE peek.k = "raw"
  <2> DEFINE z == At(o, 1, "any")
  <2>1. z \in Place /\ z.open = o /\ z.cost = 1 /\ z.mode = "any"
    BY <1>1, PlaceFacts DEF MaxCalls, Modes
  <2> HIDE DEF z
  <2>2. z.cost <= z.cost
    BY <1>1, <2>1
  <2>3. Leads(z, Expect({"raw", "*", "}"} \cup Idents), z)
    BY <1>1, <2>1, <2>2, ExpectLeads DEF Expect
  <2>4. Leads(z, Eat({"raw"}, u, "tag"), y)
    BY <1>1, <2>1, EatLeads, PlainSets, PlainKinds DEF Eat
  <2>5. Path(z, <<Expect({"raw", "*", "}"} \cup Idents)>>, z)
    BY <1>1, <2>1, <2>3, PathOne
  <2>6. Path(z, <<Eat({"raw"}, u, "tag")>>, y)
    BY <1>1, <2>1, <2>4, PathOne
  <2> DEFINE b == <<Expect({"raw", "*", "}"} \cup Idents)>> \o <<Eat({"raw"}, u, "tag")>>
  <2>7. Path(z, b, y)
    BY <2>5, <2>6, PathJoin
  <2>8. Holds(z.mode, b)
    BY <2>1 DEF Holds
  <2> HIDE DEF b
  <2>9. Keeps(x, b, y)
    BY <1>1, <2>1, <2>7, <2>8 DEF Keeps
  <2>10. QED
    BY <1>2, <2>9 DEF b, parseTag, If
<1>3. CASE peek.k # "raw"
  <2> DEFINE z == At(o, 1, "any")
  <2>1. z \in Place /\ z.open = o /\ z.cost = 1 /\ z.mode = "any"
    BY <1>1, PlaceFacts DEF MaxCalls, Modes
  <2> HIDE DEF z
  <2>2. y.cost <= z.cost
    BY <1>1, <2>1
  <2>3. Leads(z, Expect({"raw", "*", "}"} \cup Idents), y)
    BY <1>1, <2>1, <2>2, ExpectLeads DEF Expect
  <2>4. Path(z, <<Expect({"raw", "*", "}"} \cup Idents)>>, y)
    BY <1>1, <2>1, <2>3, PathOne
  <2>5. Path(y, <<>>, y)
    BY <1>1, <2>1, PathNone
  <2> DEFINE b == <<Expect({"raw", "*", "}"} \cup Idents)>> \o <<>>
  <2>6. Path(z, b, y)
    BY <2>4, <2>5, PathJoin
  <2>7. Holds(z.mode, b)
    BY <2>1 DEF Holds
  <2> HIDE DEF b
  <2>8. Keeps(x, b, y)
    BY <1>1, <2>1, <2>6, <2>7 DEF Keeps
  <2>9. QED
    BY <1>3, <2>8 DEF b, parseTag, If
<1>4. QED
  BY <1>2, <1>3

(***************************************************************************)
(* Every body keeps its contract                                           *)
(***************************************************************************)
\* What a call may rely on.
LEMMA CallFacts ==
  ASSUME NEW x \in Place, NEW y \in Place, NEW op, op.op = "call", Leads(x, op, y), Holds(x.mode, <<op>>)
  PROVE  /\ op.part \in Functions /\ op.unit # "item"
         /\ IF op.part = "list" THEN CalledInList(x, y, Cost(op.part), After(op.part))
            ELSE Called(x, y, Cost(op.part), After(op.part))
         /\ y.mode = IF op.part \in ItemEnds THEN "rest" ELSE "any"
         /\ op.part \in {"service", "types", "elem", "itemRest"} => Quiet
         /\ op.part = "serverPair" => peek.k # ")"
<1>1. Calls(x, op, y)
  BY DEF Leads
<1>2. <<op>>[1] = op
  OBVIOUS
<1>3. op.part \in {"service", "types", "elem", "itemRest"} => Quiet
  <2>1. op.part \in {"elem", "itemRest"} => Quiet
    BY <1>1 DEF Calls, Holds
  <2>2. op.part \in {"service", "types"} => Ready(op)
    BY <1>1, <1>2 DEF Calls, Holds
  <2>3. op.part \in {"service", "types"} /\ Ready(op) => Quiet
    BY DEF Ready
  <2>4. QED
    BY <2>1, <2>2, <2>3
<1>4. op.part = "serverPair" => peek.k # ")"
  <2>1. op.part = "serverPair" => Ready(op)
    BY <1>1, <1>2 DEF Calls, Holds
  <2>2. QED
    BY <2>1 DEF Ready
<1>5. /\ op.part \in Functions /\ op.unit # "item"
      /\ Cost(op.part) <= x.cost /\ y.cost <= After(op.part)
      /\ IF op.part = "list" THEN x.open = Append(y.open, "[") ELSE x.open = y.open
      /\ y.mode = IF op.part \in ItemEnds THEN "rest" ELSE "any"
  BY <1>1 DEF Calls
<1>6. IF op.part = "list" THEN CalledInList(x, y, Cost(op.part), After(op.part))
      ELSE Called(x, y, Cost(op.part), After(op.part))
  BY <1>5 DEF Called, CalledInList
<1>7. QED
  BY <1>3, <1>4, <1>5, <1>6

\* The function that is called is the one of its name.
LEMMA Bodies ==
  \A u, at :
    /\ Body("parse", u, at) = Parse(cur)
    /\ Body("stmt", u, at) = parseStmt(cur)
    /\ Body("syntax", u, at) = parseSyntaxStmt
    /\ Body("info", u, at) = parseInfoStmt
    /\ Body("pairs", u, at) = parsePairs(cur, peek, u)
    /\ Body("pair", u, at) = parseKVExpression(u)
    /\ Body("import", u, at) = parseImportStmt(peek)
    /\ Body("importLiteral", u, at) = parseImportLiteralStmt
    /\ Body("importGroup", u, at) = parseImportGroupStmt
    /\ Body("imports", u, at) = parseImports(cur, peek)
    /\ Body("service", u, at) = parseService(cur)
    /\ Body("serviceName", u, at) = parseServiceNameExpr(peek)
    /\ Body("server", u, at) = parseAtServerStmt
    /\ Body("serverPairs", u, at) = parseServerPairs(cur, peek)
    /\ Body("serverPair", u, at) = parseAtServerKVExpression
    /\ Body("serverValue", u, at) = parseServerValue(peek)
    /\ Body("valueRest", u, at) = parseValueRest(peek)
    /\ Body("commas", u, at) = parseCommas(peek)
    /\ Body("dashes", u, at) = parseDashes(peek)
    /\ Body("valuePath", u, at) = parseValuePath(peek)
    /\ Body("valueDash", u, at) = parseValueDash(peek)
    /\ Body("items", u, at) = parseServiceItemsStmt(cur, peek)
    /\ Body("itemsRest", u, at) = parseItemsRest(peek)
    /\ Body("item", u, at) = parseServiceItemStmt(peek)
    /\ Body("itemRest", u, at) = parseItemRest(peek)
    /\ Body("doc", u, at) = parseAtDocStmt(peek)
    /\ Body("docGroup", u, at) = parseAtDocGroupStmt
    /\ Body("docLiteral", u, at) = parseAtDocLiteralStmt
    /\ Body("route", u, at) = parseRouteStmt
    /\ Body("request", u, at) = parseRequest(peek)
    /\ Body("response", u, at) = parseResponse(peek)
    /\ Body("routeEnd", u, at) = parseRouteEnd(peek)
    /\ Body("body", u, at) = parseBodyStmt(u)
    /\ Body("bodyRest", u, at) = parseBodyExpr(peek, u)
    /\ Body("bodyElem", u, at) = parseBodyElem(peek, u)
    /\ Body("path", u, at) = parsePathExpr(cur, peek)
    /\ Body("segment", u, at) = parseSegment
    /\ Body("segmentRest", u, at) = parseSegmentRest(cur, peek)
    /\ Body("segments", u, at) = parseSegments(cur, peek)
    /\ Body("pathItem", u, at) = parsePathItem(cur, peek)
    /\ Body("types", u, at) = parseTypeStmt(peek)
    /\ Body("typeGroup", u, at) = parseTypeGroupStmt
    /\ Body("typeExprs", u, at) = parseTypeExprList(cur, peek)
    /\ Body("typeExpr", u, at) = parseTypeExpr(u)
    /\ Body("assign", u, at) = parseAssign(peek, u)
    /\ Body("keyword", u, at) = curTokenIsKeyword(cur)
    /\ Body("dataType", u, at) = parseDataType(peek, u, at)
    /\ Body("map", u, at) = parseMapDataType(u, at)
    /\ Body("pointer", u, at) = parsePointerDataType(u, at)
    /\ Body("list", u, at) = parseListDataType(peek, u, at)
    /\ Body("struct", u, at) = parseStructDataType(u, at)
    /\ Body("elems", u, at) = parseElemExprList(cur, peek, u)
    /\ Body("elem", u, at) = parseElemExpr(cur, peek, u)
    /\ Body("fields", u, at) = parseFields(peek, u)
    /\ Body("tag", u, at) = parseTag(peek, u)
BY DEF Body

\* The steps of a function lead where its contract says.
LEMMA BodyKeeps ==
  ASSUME NEW x \in Place, NEW y \in Place, NEW op, op.op = "call", Leads(x, op, y), Holds(x.mode, <<op>>)
  PROVE  Keeps(x, Body(op.part, op.unit, op.at), y)
<1> DEFINE f == op.part
           u == op.unit
           at == op.at
<1>1. /\ f \in Functions /\ u # "item"
      /\ IF f = "list" THEN CalledInList(x, y, Cost(f), After(f)) ELSE Called(x, y, Cost(f), After(f))
      /\ y.mode = IF f \in ItemEnds THEN "rest" ELSE "any"
      /\ f \in {"service", "types", "elem", "itemRest"} => Quiet
      /\ f = "serverPair" => peek.k # ")"
  BY CallFacts
<1> SUFFICES Keeps(x, Body(f, u, at), y)
  OBVIOUS
<1> HIDE DEF f, u, at
<1>2. CASE f = "parse"
  <2>1. Called(x, y, 4, 0) /\ y.mode = "any"
    BY <1>1, <1>2, Contracts DEF ItemEnds
  <2>2. Body(f, u, at) = Parse(cur)
    BY <1>2, Bodies
  <2>3. Keeps(x, Parse(cur), y)
    BY <1>1, <2>1, ParseKeeps
  <2>4. QED
    BY <2>2, <2>3
<1>3. CASE f = "stmt"
  <2>1. Called(x, y, 3, 4) /\ y.mode = "any"
    BY <1>1, <1>3, Contracts DEF ItemEnds
  <2>2. Body(f, u, at) = parseStmt(cur)
    BY <1>3, Bodies
  <2>3. Keeps(x, parseStmt(cur), y)
    BY <1>1, <2>1, StmtKeeps
  <2>4. QED
    BY <2>2, <2>3
<1>4. CASE f = "syntax"
  <2>1. Called(x, y, 1, 4) /\ y.mode = "any"
    BY <1>1, <1>4, Contracts DEF ItemEnds
  <2>2. Body(f, u, at) = parseSyntaxStmt
    BY <1>4, Bodies
  <2>3. Keeps(x, parseSyntaxStmt, y)
    BY <1>1, <2>1, SyntaxKeeps
  <2>4. QED
    BY <2>2, <2>3
<1>5. CASE f = "info"
  <2>1. Called(x, y, 1, 4) /\ y.mode = "any"
    BY <1>1, <1>5, Contracts DEF ItemEnds
  <2>2. Body(f, u, at) = parseInfoStmt
    BY <1>5, Bodies
  <2>3. Keeps(x, parseInfoStmt, y)
    BY <1>1, <2>1, InfoKeeps
  <2>4. QED
    BY <2>2, <2>3
<1>6. CASE f = "pairs"
  <2>1. Called(x, y, 2, 0) /\ y.mode = "any"
    BY <1>1, <1>6, Contracts DEF ItemEnds
  <2>2. Body(f, u, at) = parsePairs(cur, peek, u)
    BY <1>6, Bodies
  <2>3. Keeps(x, parsePairs(cur, peek, u), y)
    BY <1>1, <2>1, PairsKeep
  <2>4. QED
    BY <2>2, <2>3
<1>7. CASE f = "pair"
  <2>1. Called(x, y, 1, 2) /\ y.mode = "any"
    BY <1>1, <1>7, Contracts DEF ItemEnds
  <2>2. Body(f, u, at) = parseKVExpression(u)
    BY <1>7, Bodies
  <2>3. Keeps(x, parseKVExpression(u), y)
    BY <1>1, <2>1, PairKeeps
  <2>4. QED
    BY <2>2, <2>3
<1>8. CASE f = "import"
  <2>1. Called(x, y, 2, 4) /\ y.mode = "any"
    BY <1>1, <1>8, Contracts DEF ItemEnds
  <2>2. Body(f, u, at) = parseImportStmt(peek)
    BY <1>8, Bodies
  <2>3. Keeps(x, parseImportStmt(peek), y)
    BY <1>1, <2>1, ImportKeeps
  <2>4. QED
    BY <2>2, <2>3
<1>9. CASE f = "importLiteral"
  <2>1. Called(x, y, 1, 4) /\ y.mode = "any"
    BY <1>1, <1>9, Contracts DEF ItemEnds
  <2>2. Body(f, u, at) = parseImportLiteralStmt
    BY <1>9, Bodies
  <2>3. Keeps(x, parseImportLiteralStmt, y)
    BY <1>1, <2>1, ImportLiteralKeeps
  <2>4. QED
    BY <2>2, <2>3
<1>10. CASE f = "importGroup"
  <2>1. Called(x, y, 1, 4) /\ y.mode = "any"
    BY <1>1, <1>10, Contracts DEF ItemEnds
  <2>2. Body(f, u, at) = parseImportGroupStmt
    BY <1>10, Bodies
  <2>3. Keeps(x, parseImportGroupStmt, y)
    BY <1>1, <2>1, ImportGroupKeeps
  <2>4. QED
    BY <2>2, <2>3
<1>11. CASE f = "imports"
  <2>1. Called(x, y, 1, 0) /\ y.mode = "any"
    BY <1>1, <1>11, Contracts DEF ItemEnds
  <2>2. Body(f, u, at) = parseImports(cur, peek)
    BY <1>11, Bodies
  <2>3. Keeps(x, parseImports(cur, peek), y)
    BY <1>1, <2>1, ImportsKeep
  <2>4. QED
    BY <2>2, <2>3
<1>12. CASE f = "service"
  <2>1. Called(x, y, 2, 4) /\ y.mode = "any"
    BY <1>1, <1>12, Contracts DEF ItemEnds
  <2>2. Body(f, u, at) = parseService(cur)
    BY <1>12, Bodies
  <2>3. Keeps(x, parseService(cur), y)
    BY <1>1, <1>12, <2>1, ServiceKeeps
  <2>4. QED
    BY <2>2, <2>3
<1>13. CASE f = "serviceName"
  <2>1. Called(x, y, 1, 0) /\ y.mode = "any"
    BY <1>1, <1>13, Contracts DEF ItemEnds
  <2>2. Body(f, u, at) = parseServiceNameExpr(peek)
    BY <1>13, Bodies
  <2>3. Keeps(x, parseServiceNameExpr(peek), y)
    BY <1>1, <2>1, ServiceNameKeeps
  <2>4. QED
    BY <2>2, <2>3
<1>14. CASE f = "server"
  <2>1. Called(x, y, 1, 0) /\ y.mode = "any"
    BY <1>1, <1>14, Contracts DEF ItemEnds
  <2>2. Body(f, u, at) = parseAtServerStmt
    BY <1>14, Bodies
  <2>3. Keeps(x, parseAtServerStmt, y)
    BY <1>1, <2>1, ServerKeeps
  <2>4. QED
    BY <2>2, <2>3
<1>15. CASE f = "serverPairs"
  <2>1. Called(x, y, 2, 0) /\ y.mode = "any"
    BY <1>1, <1>15, Contracts DEF ItemEnds
  <2>2. Body(f, u, at) = parseServerPairs(cur, peek)
    BY <1>15, Bodies
  <2>3. Keeps(x, parseServerPairs(cur, peek), y)
    BY <1>1, <2>1, ServerPairsKeep
  <2>4. QED
    BY <2>2, <2>3
<1>16. CASE f = "serverPair"
  <2>1. Called(x, y, 1, 2) /\ y.mode = "any"
    BY <1>1, <1>16, Contracts DEF ItemEnds
  <2>2. Body(f, u, at) = parseAtServerKVExpression
    BY <1>16, Bodies
  <2>3. Keeps(x, parseAtServerKVExpression, y)
    BY <1>1, <1>16, <2>1, ServerPairKeeps
  <2>4. QED
    BY <2>2, <2>3
<1>17. CASE f = "serverValue"
  <2>1. Called(x, y, 4, 2) /\ y.mode = "any"
    BY <1>1, <1>17, Contracts DEF ItemEnds
  <2>2. Body(f, u, at) = parseServerValue(peek)
    BY <1>17, Bodies
  <2>3. Keeps(x, parseServerValue(peek), y)
    BY <1>1, <2>1, ServerValueKeeps
  <2>4. QED
    BY <2>2, <2>3
<1>18. CASE f = "valueRest"
  <2>1. Called(x, y, 4, 2) /\ y.mode = "any"
    BY <1>1, <1>18, Contracts DEF ItemEnds
  <2>2. Body(f, u, at) = parseValueRest(peek)
    BY <1>18, Bodies
  <2>3. Keeps(x, parseValueRest(peek), y)
    BY <1>1, <2>1, ValueRestKeeps
  <2>4. QED
    BY <2>2, <2>3
<1>19. CASE f = "commas"
  <2>1. Called(x, y, 3, 2) /\ y.mode = "any"
    BY <1>1, <1>19, Contracts DEF ItemEnds
  <2>2. Body(f, u, at) = parseCommas(peek)
    BY <1>19, Bodies
  <2>3. Keeps(x, parseCommas(peek), y)
    BY <1>1, <2>1, CommasKeep
  <2>4. QED
    BY <2>2, <2>3
<1>20. CASE f = "dashes"
  <2>1. Called(x, y, 3, 2) /\ y.mode = "any"
    BY <1>1, <1>20, Contracts DEF ItemEnds
  <2>2. Body(f, u, at) = parseDashes(peek)
    BY <1>20, Bodies
  <2>3. Keeps(x, parseDashes(peek), y)
    BY <1>1, <2>1, DashesKeep
  <2>4. QED
    BY <2>2, <2>3
<1>21. CASE f = "valuePath"
  <2>1. Called(x, y, 3, 2) /\ y.mode = "any"
    BY <1>1, <1>21, Contracts DEF ItemEnds
  <2>2. Body(f, u, at) = parseValuePath(peek)
    BY <1>21, Bodies
  <2>3. Keeps(x, parseValuePath(peek), y)
    BY <1>1, <2>1, ValuePathKeeps
  <2>4. QED
    BY <2>2, <2>3
<1>22. CASE f = "valueDash"
  <2>1. Called(x, y, 4, 3) /\ y.mode = "any"
    BY <1>1, <1>22, Contracts DEF ItemEnds
  <2>2. Body(f, u, at) = parseValueDash(peek)
    BY <1>22, Bodies
  <2>3. Keeps(x, parseValueDash(peek), y)
    BY <1>1, <2>1, ValueDashKeeps
  <2>4. QED
    BY <2>2, <2>3
<1>23. CASE f = "items"
  <2>1. Called(x, y, 2, 0) /\ y.mode = "any"
    BY <1>1, <1>23, Contracts DEF ItemEnds
  <2>2. Body(f, u, at) = parseServiceItemsStmt(cur, peek)
    BY <1>23, Bodies
  <2>3. Keeps(x, parseServiceItemsStmt(cur, peek), y)
    BY <1>1, <2>1, ItemsKeep
  <2>4. QED
    BY <2>2, <2>3
<1>24. CASE f = "itemsRest"
  <2>1. Called(x, y, 3, 0) /\ y.mode = "any"
    BY <1>1, <1>24, Contracts DEF ItemEnds
  <2>2. Body(f, u, at) = parseItemsRest(peek)
    BY <1>24, Bodies
  <2>3. Keeps(x, parseItemsRest(peek), y)
    BY <1>1, <2>1, ItemsRestKeeps
  <2>4. QED
    BY <2>2, <2>3
<1>25. CASE f = "item"
  <2>1. Called(x, y, 1, 3) /\ y.mode = "rest"
    BY <1>1, <1>25, Contracts DEF ItemEnds
  <2>2. Body(f, u, at) = parseServiceItemStmt(peek)
    BY <1>25, Bodies
  <2>3. Keeps(x, parseServiceItemStmt(peek), y)
    BY <1>1, <2>1, ItemKeeps
  <2>4. QED
    BY <2>2, <2>3
<1>26. CASE f = "itemRest"
  <2>1. Called(x, y, 4, 3) /\ y.mode = "rest"
    BY <1>1, <1>26, Contracts DEF ItemEnds
  <2>2. Body(f, u, at) = parseItemRest(peek)
    BY <1>26, Bodies
  <2>3. Keeps(x, parseItemRest(peek), y)
    BY <1>1, <1>26, <2>1, ItemRestKeeps
  <2>4. QED
    BY <2>2, <2>3
<1>27. CASE f = "doc"
  <2>1. Called(x, y, 2, 0) /\ y.mode = "any"
    BY <1>1, <1>27, Contracts DEF ItemEnds
  <2>2. Body(f, u, at) = parseAtDocStmt(peek)
    BY <1>27, Bodies
  <2>3. Keeps(x, parseAtDocStmt(peek), y)
    BY <1>1, <2>1, DocKeeps
  <2>4. QED
    BY <2>2, <2>3
<1>28. CASE f = "docGroup"
  <2>1. Called(x, y, 1, 0) /\ y.mode = "any"
    BY <1>1, <1>28, Contracts DEF ItemEnds
  <2>2. Body(f, u, at) = parseAtDocGroupStmt
    BY <1>28, Bodies
  <2>3. Keeps(x, parseAtDocGroupStmt, y)
    BY <1>1, <2>1, DocGroupKeeps
  <2>4. QED
    BY <2>2, <2>3
<1>29. CASE f = "docLiteral"
  <2>1. Called(x, y, 1, 0) /\ y.mode = "any"
    BY <1>1, <1>29, Contracts DEF ItemEnds
  <2>2. Body(f, u, at) = parseAtDocLiteralStmt
    BY <1>29, Bodies
  <2>3. Keeps(x, parseAtDocLiteralStmt, y)
    BY <1>1, <2>1, DocLiteralKeeps
  <2>4. QED
    BY <2>2, <2>3
<1>30. CASE f = "route"
  <2>1. Called(x, y, 1, 3) /\ y.mode = "rest"
    BY <1>1, <1>30, Contracts DEF ItemEnds
  <2>2. Body(f, u, at) = parseRouteStmt
    BY <1>30, Bodies
  <2>3. Keeps(x, parseRouteStmt, y)
    BY <1>1, <2>1, RouteKeeps
  <2>4. QED
    BY <2>2, <2>3
<1>31. CASE f = "request"
  <2>1. Called(x, y, 6, 3) /\ y.mode = "rest"
    BY <1>1, <1>31, Contracts DEF ItemEnds
  <2>2. Body(f, u, at) = parseRequest(peek)
    BY <1>31, Bodies
  <2>3. Keeps(x, parseRequest(peek), y)
    BY <1>1, <2>1, RequestKeeps
  <2>4. QED
    BY <2>2, <2>3
<1>32. CASE f = "response"
  <2>1. Called(x, y, 5, 3) /\ y.mode = "rest"
    BY <1>1, <1>32, Contracts DEF ItemEnds
  <2>2. Body(f, u, at) = parseResponse(peek)
    BY <1>32, Bodies
  <2>3. Keeps(x, parseResponse(peek), y)
    BY <1>1, <2>1, ResponseKeeps
  <2>4. QED
    BY <2>2, <2>3
<1>33. CASE f = "routeEnd"
  <2>1. Called(x, y, 4, 3) /\ y.mode = "rest"
    BY <1>1, <1>33, Contracts DEF ItemEnds
  <2>2. Body(f, u, at) = parseRouteEnd(peek)
    BY <1>33, Bodies
  <2>3. Keeps(x, parseRouteEnd(peek), y)
    BY <1>1, <2>1, RouteEndKeeps
  <2>4. QED
    BY <2>2, <2>3
<1>34. CASE f = "body"
  <2>1. Called(x, y, 1, 5) /\ y.mode = "any"
    BY <1>1, <1>34, Contracts DEF ItemEnds
  <2>2. Body(f, u, at) = parseBodyStmt(u)
    BY <1>34, Bodies
  <2>3. Keeps(x, parseBodyStmt(u), y)
    BY <1>1, <2>1, BodyStmtKeeps
  <2>4. QED
    BY <2>2, <2>3
<1>35. CASE f = "bodyRest"
  <2>1. Called(x, y, 2, 0) /\ y.mode = "any"
    BY <1>1, <1>35, Contracts DEF ItemEnds
  <2>2. Body(f, u, at) = parseBodyExpr(peek, u)
    BY <1>35, Bodies
  <2>3. Keeps(x, parseBodyExpr(peek, u), y)
    BY <1>1, <2>1, BodyExprKeeps
  <2>4. QED
    BY <2>2, <2>3
<1>36. CASE f = "bodyElem"
  <2>1. Called(x, y, 1, 0) /\ y.mode = "any"
    BY <1>1, <1>36, Contracts DEF ItemEnds
  <2>2. Body(f, u, at) = parseBodyElem(peek, u)
    BY <1>36, Bodies
  <2>3. Keeps(x, parseBodyElem(peek, u), y)
    BY <1>1, <2>1, BodyElemKeeps
  <2>4. QED
    BY <2>2, <2>3
<1>37. CASE f = "path"
  <2>1. Called(x, y, 2, 6) /\ y.mode = "any"
    BY <1>1, <1>37, Contracts DEF ItemEnds
  <2>2. Body(f, u, at) = parsePathExpr(cur, peek)
    BY <1>37, Bodies
  <2>3. Keeps(x, parsePathExpr(cur, peek), y)
    BY <1>1, <2>1, PathExprKeeps
  <2>4. QED
    BY <2>2, <2>3
<1>38. CASE f = "segment"
  <2>1. Called(x, y, 1, 6) /\ y.mode = "any"
    BY <1>1, <1>38, Contracts DEF ItemEnds
  <2>2. Body(f, u, at) = parseSegment
    BY <1>38, Bodies
  <2>3. Keeps(x, parseSegment, y)
    BY <1>1, <2>1, SegmentKeeps
  <2>4. QED
    BY <2>2, <2>3
<1>39. CASE f = "segmentRest"
  <2>1. Called(x, y, 7, 6) /\ y.mode = "any"
    BY <1>1, <1>39, Contracts DEF ItemEnds
  <2>2. Body(f, u, at) = parseSegmentRest(cur, peek)
    BY <1>39, Bodies
  <2>3. Keeps(x, parseSegmentRest(cur, peek), y)
    BY <1>1, <2>1, SegmentRestKeeps
  <2>4. QED
    BY <2>2, <2>3
<1>40. CASE f = "segments"
  <2>1. Called(x, y, 7, 6) /\ y.mode = "any"
    BY <1>1, <1>40, Contracts DEF ItemEnds
  <2>2. Body(f, u, at) = parseSegments(cur, peek)
    BY <1>40, Bodies
  <2>3. Keeps(x, parseSegments(cur, peek), y)
    BY <1>1, <2>1, SegmentsKeep
  <2>4. QED
    BY <2>2, <2>3
<1>41. CASE f = "pathItem"
  <2>1. Called(x, y, 8, 7) /\ y.mode = "any"
    BY <1>1, <1>41, Contracts DEF ItemEnds
  <2>2. Body(f, u, at) = parsePathItem(cur, peek)
    BY <1>41, Bodies
  <2>3. Keeps(x, parsePathItem(cur, peek), y)
    BY <1>1, <2>1, PathItemKeeps
  <2>4. QED
    BY <2>2, <2>3
<1>42. CASE f = "types"
  <2>1. Called(x, y, 2, 4) /\ y.mode = "any"
    BY <1>1, <1>42, Contracts DEF ItemEnds
  <2>2. Body(f, u, at) = parseTypeStmt(peek)
    BY <1>42, Bodies
  <2>3. Keeps(x, parseTypeStmt(peek), y)
    BY <1>1, <1>42, <2>1, TypesKeep
  <2>4. QED
    BY <2>2, <2>3
<1>43. CASE f = "typeGroup"
  <2>1. Called(x, y, 1, 4) /\ y.mode = "any"
    BY <1>1, <1>43, Contracts DEF ItemEnds
  <2>2. Body(f, u, at) = parseTypeGroupStmt
    BY <1>43, Bodies
  <2>3. Keeps(x, parseTypeGroupStmt, y)
    BY <1>1, <2>1, TypeGroupKeeps
  <2>4. QED
    BY <2>2, <2>3
<1>44. CASE f = "typeExprs"
  <2>1. Called(x, y, 2, 0) /\ y.mode = "any"
    BY <1>1, <1>44, Contracts DEF ItemEnds
  <2>2. Body(f, u, at) = parseTypeExprList(cur, peek)
    BY <1>44, Bodies
  <2>3. Keeps(x, parseTypeExprList(cur, peek), y)
    BY <1>1, <2>1, TypeExprListKeeps
  <2>4. QED
    BY <2>2, <2>3
<1>45. CASE f = "typeExpr"
  <2>1. Called(x, y, 1, 4) /\ y.mode = "any"
    BY <1>1, <1>45, Contracts DEF ItemEnds
  <2>2. Body(f, u, at) = parseTypeExpr(u)
    BY <1>45, Bodies
  <2>3. Keeps(x, parseTypeExpr(u), y)
    BY <1>1, <2>1, TypeExprKeeps
  <2>4. QED
    BY <2>2, <2>3
<1>46. CASE f = "assign"
  <2>1. Called(x, y, 3, 2) /\ y.mode = "any"
    BY <1>1, <1>46, Contracts DEF ItemEnds
  <2>2. Body(f, u, at) = parseAssign(peek, u)
    BY <1>46, Bodies
  <2>3. Keeps(x, parseAssign(peek, u), y)
    BY <1>1, <2>1, AssignKeeps
  <2>4. QED
    BY <2>2, <2>3
<1>47. CASE f = "keyword"
  <2>1. Called(x, y, 5, 4) /\ y.mode = "any"
    BY <1>1, <1>47, Contracts DEF ItemEnds
  <2>2. Body(f, u, at) = curTokenIsKeyword(cur)
    BY <1>47, Bodies
  <2>3. Keeps(x, curTokenIsKeyword(cur), y)
    BY <1>1, <2>1, KeywordKeeps
  <2>4. QED
    BY <2>2, <2>3
<1>48. CASE f = "dataType"
  <2>1. Called(x, y, 2, 4) /\ y.mode = "any"
    BY <1>1, <1>48, Contracts DEF ItemEnds
  <2>2. Body(f, u, at) = parseDataType(peek, u, at)
    BY <1>48, Bodies
  <2>3. Keeps(x, parseDataType(peek, u, at), y)
    BY <1>1, <2>1, DataTypeKeeps
  <2>4. QED
    BY <2>2, <2>3
<1>49. CASE f = "map"
  <2>1. Called(x, y, 1, 4) /\ y.mode = "any"
    BY <1>1, <1>49, Contracts DEF ItemEnds
  <2>2. Body(f, u, at) = parseMapDataType(u, at)
    BY <1>49, Bodies
  <2>3. Keeps(x, parseMapDataType(u, at), y)
    BY <1>1, <2>1, MapKeeps
  <2>4. QED
    BY <2>2, <2>3
<1>50. CASE f = "pointer"
  <2>1. Called(x, y, 1, 4) /\ y.mode = "any"
    BY <1>1, <1>50, Contracts DEF ItemEnds
  <2>2. Body(f, u, at) = parsePointerDataType(u, at)
    BY <1>50, Bodies
  <2>3. Keeps(x, parsePointerDataType(u, at), y)
    BY <1>1, <2>1, PointerKeeps
  <2>4. QED
    BY <2>2, <2>3
<1>51. CASE f = "list"
  <2>1. CalledInList(x, y, 1, 4) /\ y.mode = "any"
    BY <1>1, <1>51, Contracts DEF ItemEnds
  <2>2. Body(f, u, at) = parseListDataType(peek, u, at)
    BY <1>51, Bodies
  <2>3. Keeps(x, parseListDataType(peek, u, at), y)
    BY <1>1, <2>1, ListKeeps
  <2>4. QED
    BY <2>2, <2>3
<1>52. CASE f = "struct"
  <2>1. Called(x, y, 1, 4) /\ y.mode = "any"
    BY <1>1, <1>52, Contracts DEF ItemEnds
  <2>2. Body(f, u, at) = parseStructDataType(u, at)
    BY <1>52, Bodies
  <2>3. Keeps(x, parseStructDataType(u, at), y)
    BY <1>1, <2>1, StructKeeps
  <2>4. QED
    BY <2>2, <2>3
<1>53. CASE f = "elems"
  <2>1. Called(x, y, 1, 0) /\ y.mode = "any"
    BY <1>1, <1>53, Contracts DEF ItemEnds
  <2>2. Body(f, u, at) = parseElemExprList(cur, peek, u)
    BY <1>53, Bodies
  <2>3. Keeps(x, parseElemExprList(cur, peek, u), y)
    BY <1>1, <2>1, ElemListKeeps
  <2>4. QED
    BY <2>2, <2>3
<1>54. CASE f = "elem"
  <2>1. Called(x, y, 4, 2) /\ y.mode = "any"
    BY <1>1, <1>54, Contracts DEF ItemEnds
  <2>2. Body(f, u, at) = parseElemExpr(cur, peek, u)
    BY <1>54, Bodies
  <2>3. Keeps(x, parseElemExpr(cur, peek, u), y)
    BY <1>1, <1>54, <2>1, ElemKeeps
  <2>4. QED
    BY <2>2, <2>3
<1>55. CASE f = "fields"
  <2>1. Called(x, y, 3, 2) /\ y.mode = "any"
    BY <1>1, <1>55, Contracts DEF ItemEnds
  <2>2. Body(f, u, at) = parseFields(peek, u)
    BY <1>55, Bodies
  <2>3. Keeps(x, parseFields(peek, u), y)
    BY <1>1, <2>1, FieldsKeep
  <2>4. QED
    BY <2>2, <2>3
<1>56. CASE f = "tag"
  <2>1. Called(x, y, 2, 1) /\ y.mode = "any"
    BY <1>1, <1>56, Contracts DEF ItemEnds
  <2>2. Body(f, u, at) = parseTag(peek, u)
    BY <1>56, Bodies
  <2>3. Keeps(x, parseTag(peek, u), y)
    BY <1>1, <2>1, TagKeeps
  <2>4. QED
    BY <2>2, <2>3
<1>57. f \in {"parse", "stmt", "syntax", "info", "pairs", "pair", "import", "importLiteral", "importGroup",
      "imports", "service", "serviceName", "server", "serverPairs", "serverPair", "serverValue", "valueRest",
      "commas", "dashes", "valuePath", "valueDash", "items", "itemsRest", "item", "itemRest", "doc", "docGroup",
      "docLiteral", "route", "request", "response", "routeEnd", "body", "bodyRest", "bodyElem", "path", "segment",
      "segmentRest", "segments", "pathItem", "types", "typeGroup", "typeExprs", "typeExpr", "assign", "keyword",
      "dataType", "map", "pointer", "list", "struct", "elems", "elem", "fields", "tag"}
  BY <1>1 DEF Functions, ItemEnds
<1>58. QED
  BY <1>2, <1>3, <1>4, <1>5, <1>6, <1>7, <1>8, <1>9, <1>10, <1>11, <1>12, <1>13, <1>14, <1>15, <1>16, <1>17, <1>18,
     <1>19, <1>20, <1>21, <1>22, <1>23, <1>24, <1>25, <1>26, <1>27, <1>28, <1>29, <1>30, <1>31, <1>32, <1>33,
     <1>34, <1>35, <1>36, <1>37, <1>38, <1>39, <1>40, <1>41, <1>42, <1>43, <1>44, <1>45, <1>46, <1>47, <1>48,
     <1>49, <1>50, <1>51, <1>52, <1>53, <1>54, <1>55, <1>56, <1>57

(***************************************************************************)
(* What a step does to the tree                                            *)
(***************************************************************************)
\* A token is put behind the others: what they were stays true.
LEMMA TreeGrows ==
  ASSUME NEW t, IsSeq(t), NEW n
  PROVE  /\ IsSeq(Append(t, n)) /\ OpenAfter(Append(t, n)) = Brackets(OpenAfter(t), n)
         /\ BraceForHandler(t) => BraceForHandler(Append(t, n))
         /\ n.unit = "handler" /\ n.k = "}" => BraceForHandler(Append(t, n))
<1> DEFINE s == Append(t, n)
<1>1. /\ IsSeq(s) /\ Len(t) \in Nat /\ DOMAIN t = 1..Len(t) /\ DOMAIN s = 1..(Len(t) + 1)
      /\ \A i \in 1..Len(t) : s[i] = t[i]
      /\ s[Len(t) + 1] = n
  BY Longer
<1>2. OpenAfter(s) = Brackets(OpenAfter(t), n)
  BY OpenSteps
<1> HIDE DEF s
<1>3. ASSUME BraceForHandler(t) PROVE BraceForHandler(s)
  <2>1. PICK i \in 1..Len(t) : t[i].unit = "handler" /\ t[i].k = "}"
    BY <1>1, <1>3 DEF BraceForHandler
  <2>2. i \in DOMAIN s /\ s[i] = t[i]
    BY <1>1
  <2>3. QED
    BY <2>1, <2>2 DEF BraceForHandler
<1>4. ASSUME n.unit = "handler", n.k = "}" PROVE BraceForHandler(s)
  <2>1. Len(t) + 1 \in DOMAIN s
    BY <1>1
  <2>2. QED
    BY <1>1, <1>4, <2>1 DEF BraceForHandler
<1>5. QED
  BY <1>1, <1>2, <1>3, <1>4 DEF s

\* A token that is no bracket leaves open what is open.
LEMMA NoSign ==
  ASSUME NEW t, IsSeq(t), NEW o \in Seq(Opens), OpenIn(t, o), NEW n, n.k \notin Signs
  PROVE  OpenIn(Append(t, n), o)
<1>1. Brackets(o, n) = o
  BY TokenOpens
<1>2. OpenAfter(Append(t, n)) = Brackets(OpenAfter(t), n) /\ (BraceForHandler(t) => BraceForHandler(Append(t, n)))
  BY TreeGrows
<1>3. QED
  BY <1>1, <1>2 DEF OpenIn

\* The comments at the end of the file are no brackets.
LEMMA CommentsClose ==
  ASSUME NEW t, IsSeq(t)
  PROVE  /\ IsSeq(t \o Comments)
         /\ BraceForHandler(t) => BraceForHandler(t \o Comments)
         /\ \A o \in Seq(Opens) : OpenIn(t, o) => OpenIn(t \o Comments, o)
<1> DEFINE T == {t[i] : i \in DOMAIN t}
           n == Node(Op("", {}, "comment", "", <<>>), peek)
           S == T \cup {n}
<1>1. t \in Seq(T)
  BY DEF IsSeq
<1>2. CASE peek.k = "EOF" /\ peek.head
  <2>1. n.k = peek.k
    BY DEF Node
  <2>2. Comments = <<n>>
    BY <1>2 DEF Comments
  <2>3. T \subseteq S /\ n \in S
    OBVIOUS
  <2> HIDE DEF n, T, S
  <2>4. t \in Seq(S)
    BY <1>1, <2>3
  <2>5. t \o Comments = Append(t, n)
    BY <2>2, <2>3, <2>4, AppendIsConcat
  <2>6. n.k \notin Signs
    BY <1>2, <2>1 DEF Signs, Opens, Closes
  <2>7. QED
    BY <2>5, <2>6, TreeGrows, NoSign
<1>3. CASE ~(peek.k = "EOF" /\ peek.head)
  <2>1. Comments = <<>>
    BY <1>3 DEF Comments
  <2> HIDE DEF T
  <2>2. t \o Comments = t
    BY <1>1, <2>1, ConcatEmptySeq
  <2>3. QED
    BY <2>2
<1>4. QED
  BY <1>2, <1>3

(***************************************************************************)
(* What a step does to the state                                           *)
(***************************************************************************)
\* A token is read and t is the tree then, but for the comments at the end.
Advanced(t) ==
    /\ stack' = Tail(stack) /\ result' = "none"
    /\ tree' \in {t, t \o Comments}
    /\ cur'.k = peek.k
    /\ calls' = 0 \/ (peek.k = "EOF" /\ calls' = calls)
    /\ errors' \in BOOLEAN
    /\ errors' => errors \/ (Top.op = "advance" /\ peek'.k = "error")

\* The scanner has failed, and the parse with it.
GivesUp ==
    /\ result' = "nil" /\ stack' = <<>> /\ tree' = <<>>
    /\ errors' \in BOOLEAN /\ errors' /\ calls' = 0

\* The two ways to read a token.
LEMMA MoveOn ==
  ASSUME Running, errors \in BOOLEAN, Move(Unlabelled)
  PROVE  GivesUp \/ Advanced(tree)
<1>1. CASE AtEof /\ tree' = Unlabelled(peek) \o Comments /\ stack' = Tail(stack) /\ UNCHANGED result
  BY <1>1 DEF AtEof, Unlabelled, Advanced, Running
<1>2. CASE \E tok \in Scanned :
             /\ Scan(tok)
             /\ IF tok.k = "error" /\ Top.op # "advance" THEN ReturnNil
                ELSE tree' = Unlabelled(Taken(tok)) /\ stack' = Tail(stack) /\ UNCHANGED result
  <2>1. PICK tok \in Scanned :
             /\ Scan(tok)
             /\ IF tok.k = "error" /\ Top.op # "advance" THEN ReturnNil
                ELSE tree' = Unlabelled(Taken(tok)) /\ stack' = Tail(stack) /\ UNCHANGED result
    BY <1>2
  <2>2. /\ cur'.k = peek.k /\ peek'.k = tok.k /\ calls' = 0
        /\ errors' \in BOOLEAN /\ (errors' <=> errors \/ tok.k = "error")
    BY <2>1 DEF Scan, Taken
  <2>3. CASE tok.k = "error" /\ Top.op # "advance"
    BY <2>1, <2>2, <2>3 DEF ReturnNil, GivesUp
  <2>4. CASE ~(tok.k = "error" /\ Top.op # "advance")
    BY <2>1, <2>2, <2>4 DEF Advanced, Unlabelled, Running
  <2>5. QED
    BY <2>3, <2>4
<1>3. QED
  BY <1>1, <1>2 DEF Move

\* The token ahead becomes a node of the tree.
LEMMA MoveLabels ==
  ASSUME Running, errors \in BOOLEAN, Move(Labelled)
  PROVE  GivesUp \/ \E n : n.unit = Top.unit /\ n.k = peek.k /\ Advanced(Append(tree, n))
<1>1. CASE AtEof /\ tree' = Labelled(peek) \o Comments /\ stack' = Tail(stack) /\ UNCHANGED result
  <2>1. Node(Top, peek).unit = Top.unit /\ Node(Top, peek).k = peek.k
    BY DEF Node
  <2>2. Advanced(Append(tree, Node(Top, peek)))
    BY <1>1 DEF AtEof, Labelled, Advanced, Running
  <2>3. QED
    BY <2>1, <2>2
<1>2. CASE \E tok \in Scanned :
             /\ Scan(tok)
             /\ IF tok.k = "error" /\ Top.op # "advance" THEN ReturnNil
                ELSE tree' = Labelled(Taken(tok)) /\ stack' = Tail(stack) /\ UNCHANGED result
  <2>1. PICK tok \in Scanned :
             /\ Scan(tok)
             /\ IF tok.k = "error" /\ Top.op # "advance" THEN ReturnNil
                ELSE tree' = Labelled(Taken(tok)) /\ stack' = Tail(stack) /\ UNCHANGED result
    BY <1>2
  <2>2. /\ cur'.k = peek.k /\ peek'.k = tok.k /\ calls' = 0
        /\ errors' \in BOOLEAN /\ (errors' <=> errors \/ tok.k = "error")
    BY <2>1 DEF Scan, Taken
  <2>3. CASE tok.k = "error" /\ Top.op # "advance"
    BY <2>1, <2>2, <2>3 DEF ReturnNil, GivesUp
  <2>4. CASE ~(tok.k = "error" /\ Top.op # "advance")
    <3>1. Node(Top, Taken(tok)).unit = Top.unit /\ Node(Top, Taken(tok)).k = peek.k
      BY DEF Node, Taken
    <3>2. Advanced(Append(tree, Node(Top, Taken(tok))))
      BY <2>1, <2>2, <2>4 DEF Advanced, Labelled, Running
    <3>3. QED
      BY <3>1, <3>2
  <2>5. QED
    BY <2>3, <2>4
<1>3. QED
  BY <1>1, <1>2 DEF Move

\* A parse that has given up is accounted for.
LEMMA GivenUp ==
  ASSUME result' = "nil", tree' = <<>>, errors' \in BOOLEAN, errors', calls' \in 0..MaxCalls
  PROVE  ParserInv'
BY Short DEF ParserInv

\* Where the parser stands once a token is read.
LEMMA ReadOn ==
  ASSUME ParserInv, NEW y \in Place, Path(y, Tail(stack), End), NEW t, IsSeq(t), OpenIn(t, y.open), Advanced(t),
         calls' + y.cost <= MaxCalls, y.mode # "now",
         y.mode = "quiet" => peek.k \notin Signs \/ BraceForHandler(t),
         errors' => Overlooked'
  PROVE  ParserInv'
<1>1. y.open \in Seq(Opens) /\ y.cost \in 0..MaxCalls
  BY PlaceType
<1>2. IsSeq(tree') /\ OpenIn(tree', y.open) /\ (BraceForHandler(t) => BraceForHandler(tree'))
  BY <1>1, CommentsClose DEF Advanced
<1>3. Holds(y.mode, stack)'
  BY <1>2 DEF Holds, Quiet, Advanced
<1>4. Stands(y)'
  BY <1>2, <1>3 DEF Stands, Advanced
<1>5. calls' \in 0..MaxCalls
  BY DEF Advanced, ParserInv, MaxCalls
<1>6. QED
  BY <1>2, <1>4, <1>5 DEF ParserInv, Advanced

\* Where the parser stands, and the place behind the next step.
LEMMA Going ==
  ASSUME ParserInv, Running
  PROVE  \E x \in Place, y \in Place :
            /\ Stands(x) /\ Leads(x, Top, y) /\ Path(y, Tail(stack), End)
            /\ x.cost \in Nat /\ y.cost \in Nat /\ x.cost <= MaxCalls /\ y.cost <= MaxCalls
            /\ calls \in Nat /\ calls + x.cost <= MaxCalls
            /\ x.open \in Seq(Opens) /\ y.open \in Seq(Opens) /\ x.mode \in Modes /\ y.mode \in Modes
<1>1. PICK x \in Place : Stands(x)
  BY DEF ParserInv, Running
<1>2. PICK y \in Place : Leads(x, stack[1], y) /\ Path(y, Tail(stack), End)
  BY <1>1, PathPop DEF Stands, Running
<1>3. x.cost \in Nat /\ y.cost \in Nat /\ calls \in Nat /\ x.cost <= MaxCalls /\ y.cost <= MaxCalls
  BY PlaceType DEF ParserInv, MaxCalls
<1>4. QED
  BY <1>1, <1>2, <1>3, PlaceType DEF Top, Stands

\* No error is overlooked where the next step neither expects nor calls.
LEMMA NoError ==
  ASSUME ParserInv, Running, Top.op \notin {"expect", "call"}
  PROVE  ~errors
<1>1. errors => Overlooked
  BY DEF ParserInv, Running
<1>2. Call("itemsRest").op = "call" /\ Expect(RouteNext).op = "expect"
  BY DEF Call, Expect, Op
<1>3. QED
  BY <1>1, <1>2 DEF Overlooked, Top

\* Two sequences put together begin where the first one does.
LEMMA FirstOfJoin ==
  ASSUME NEW s, NEW t, IsSeq(s), IsSeq(t), s # <<>>
  PROVE  s \o t # <<>> /\ (s \o t)[1] = s[1]
<1>1. Len(s) \in Nat \ {0}
  BY FirstStep
<1>2. Len(t) \in Nat /\ Len(s \o t) = Len(s) + Len(t) /\ (s \o t)[1] = s[1]
  BY <1>1, Joined
<1>3. QED
  BY <1>1, <1>2, Short

(***************************************************************************)
(* The steps, one lemma each                                               *)
(***************************************************************************)
\* Between two statements a token is read, and nothing is put in the tree.
LEMMA NextTokenKeeps ==
  ASSUME ParserInv, NextToken
  PROVE  ParserInv'
<1>1. Running /\ Top.op = "next" /\ Move(Unlabelled)
  BY DEF NextToken
<1>2. ~errors /\ IsSeq(tree) /\ errors \in BOOLEAN /\ calls \in 0..MaxCalls
  BY <1>1, NoError DEF ParserInv
<1>3. CASE GivesUp
  <2>1. calls' \in 0..MaxCalls
    BY <1>3 DEF GivesUp, MaxCalls
  <2>2. QED
    BY <1>3, <2>1, GivenUp DEF GivesUp
<1>4. CASE Advanced(tree)
  <2>1. PICK x \in Place, y \in Place :
            /\ Stands(x) /\ Leads(x, Top, y) /\ Path(y, Tail(stack), End)
            /\ x.cost \in Nat /\ y.cost \in Nat /\ x.cost <= MaxCalls /\ y.cost <= MaxCalls
            /\ calls \in Nat /\ calls + x.cost <= MaxCalls
    BY <1>1, Going
  <2>2. y.mode \in {"any", "rest"} /\ y.open = x.open /\ y.cost <= x.cost
    BY <1>1, <2>1 DEF Leads
  <2>3. OpenIn(tree, y.open)
    BY <2>1, <2>2 DEF Stands
  <2>4. calls' + y.cost <= MaxCalls
    BY <1>4, <2>1, <2>2 DEF Advanced, MaxCalls
  <2>5. ~errors'
    BY <1>1, <1>2, <1>4 DEF Advanced
  <2>6. QED
    BY <1>2, <1>4, <2>1, <2>2, <2>3, <2>4, <2>5, ReadOn
<1>5. QED
  BY <1>1, <1>2, <1>3, <1>4, MoveOn

\* The semicolon is no bracket; where its successor cannot be scanned, the loop
\* over the items is next.
LEMMA AdvanceKeeps ==
  ASSUME ParserInv, AdvanceUnchecked
  PROVE  ParserInv'
<1>1. Running /\ Top.op = "advance" /\ Move(Labelled)
  BY DEF AdvanceUnchecked
<1>2. ~errors /\ IsSeq(tree) /\ errors \in BOOLEAN /\ calls \in 0..MaxCalls
  BY <1>1, NoError DEF ParserInv
<1>3. CASE GivesUp
  <2>1. calls' \in 0..MaxCalls
    BY <1>3 DEF GivesUp, MaxCalls
  <2>2. QED
    BY <1>3, <2>1, GivenUp DEF GivesUp
<1>4. CASE \E n : n.unit = Top.unit /\ n.k = peek.k /\ Advanced(Append(tree, n))
  <2>1. PICK n : n.unit = Top.unit /\ n.k = peek.k /\ Advanced(Append(tree, n))
    BY <1>4
  <2>2. PICK x \in Place, y \in Place :
            /\ Stands(x) /\ Leads(x, Top, y) /\ Path(y, Tail(stack), End)
            /\ x.cost \in Nat /\ y.cost \in Nat /\ x.cost <= MaxCalls /\ y.cost <= MaxCalls
            /\ calls \in Nat /\ calls + x.cost <= MaxCalls
            /\ x.open \in Seq(Opens) /\ y.open \in Seq(Opens)
    BY <1>1, Going
  <2>3. x.mode = "now" /\ y.mode = "rest" /\ y.open = x.open
    BY <1>1, <2>2 DEF Leads
  <2>4. peek.k = ";"
    BY <1>1, <2>2, <2>3 DEF Stands, Holds, Ready, Top
  <2>5. n.k \notin Signs
    BY <2>1, <2>4 DEF Signs, Opens, Closes
  <2> DEFINE t == Append(tree, n)
  <2>6. IsSeq(t)
    BY <1>2, TreeGrows
  <2>7. OpenIn(t, y.open)
    BY <1>2, <2>2, <2>3, <2>5, NoSign DEF Stands
  <2>8. Advanced(t)
    BY <2>1
  <2> HIDE DEF t
  <2>9. calls' + y.cost <= MaxCalls
    <3>1. calls' = 0
      BY <2>4, <2>8 DEF Advanced
    <3>2. QED
      BY <2>2, <3>1
  <2>10. errors' => Overlooked'
    <3>1. SUFFICES ASSUME errors' PROVE Overlooked'
      OBVIOUS
    <3>2. peek'.k = "error" /\ stack' = Tail(stack)
      BY <1>2, <2>8, <3>1 DEF Advanced
    <3>3. Tail(stack) # <<>>
      <4>1. ASSUME Tail(stack) = <<>> PROVE y = End
        BY <2>2, <4>1, PathEnds
      <4>2. End.mode = "any"
        BY DEF End, At
      <4>3. QED
        BY <2>3, <4>1, <4>2
    <3>4. PICK z \in Place : Leads(y, Tail(stack)[1], z)
      BY <2>2, <3>3, PathPop
    <3>5. Tail(stack)[1] = Call("itemsRest")
      BY <2>3, <3>4 DEF Leads
    <3>6. QED
      BY <3>2, <3>3, <3>5 DEF Overlooked
  <2>11. QED
    BY <2>2, <2>3, <2>6, <2>7, <2>8, <2>9, <2>10, ReadOn
<1>5. QED
  BY <1>1, <1>2, <1>3, <1>4, MoveLabels

\* A token that is eaten does to the brackets what the path says.
LEMMA Eaten ==
  ASSUME ParserInv, Running, Top.op = "eat", peek.k \in Top.set, NEW x \in Place, NEW y \in Place,
         Stands(x), Leads(x, Top, y), NEW n, n.unit = Top.unit, n.k = peek.k
  PROVE  /\ OpenIn(Append(tree, n), y.open) /\ peek.k # "EOF" /\ y.mode # "now"
         /\ y.mode = "quiet" => peek.k \notin Signs \/ BraceForHandler(Append(tree, n))
<1>1. Eats(x, Top, y) /\ IsSeq(tree) /\ OpenIn(tree, x.open) /\ x.open \in Seq(Opens) /\ y.open \in Seq(Opens)
  BY PlaceType DEF Leads, ParserInv, Stands
<1>2. "EOF" \notin Opens \cup Closes \cup {"@handler", "}"} /\ "@handler" \notin Signs
  BY DEF Opens, Closes, Signs
<1> DEFINE t == Append(tree, n)
<1>3. OpenAfter(t) = Brackets(OpenAfter(tree), n) /\ (BraceForHandler(tree) => BraceForHandler(t))
      /\ (n.unit = "handler" /\ n.k = "}" => BraceForHandler(t))
  BY <1>1, TreeGrows
<1>4. ASSUME peek.k \notin Signs, y.open = x.open PROVE OpenIn(t, y.open)
  BY <1>1, <1>4, NoSign
<1> HIDE DEF t
<1>5. CASE y.mode \in {"any", "quiet", "rest"} /\ Plain(Top.set) /\ y.open = x.open
  <2>1. peek.k \notin Signs /\ peek.k # "EOF"
    BY <1>5 DEF Plain
  <2>2. QED
    BY <1>4, <1>5, <2>1 DEF t
<1>6. CASE y.mode \in {"any", "rest"} /\ \E b \in Opens : Top.set = {b} /\ y.open = Append(x.open, b)
  <2>1. n.k \in Opens /\ y.open = Append(x.open, n.k)
    BY <1>6
  <2>2. Brackets(x.open, n) = y.open
    BY <1>1, <2>1, TokenOpens
  <2>3. OpenIn(t, y.open)
    BY <1>1, <1>3, <2>2 DEF OpenIn
  <2>4. QED
    BY <1>2, <1>6, <2>1, <2>3 DEF t
<1>7. CASE /\ y.mode \in {"any", "rest"} /\ Top.unit # "item"
           /\ \E b \in Closes : Top.set = {b} /\ x.open = Append(y.open, Opening[b])
  <2>1. n.k \in Closes /\ x.open = Append(y.open, Opening[n.k]) /\ n.unit # "item"
    BY <1>7
  <2>2. Brackets(x.open, n) = y.open
    BY <1>1, <2>1, TokenOpens
  <2>3. OpenIn(t, y.open)
    BY <1>1, <1>3, <2>2 DEF OpenIn
  <2>4. QED
    BY <1>2, <1>7, <2>1, <2>3 DEF t
<1>8. CASE /\ y.mode \in {"any", "quiet", "rest"} /\ Top.unit = "handler" /\ Top.set = {"@handler", "}"}
           /\ y.open = x.open
  <2>1. peek.k = "@handler" => OpenIn(t, y.open) /\ peek.k \notin Signs
    BY <1>2, <1>4, <1>8
  <2>2. peek.k = "}" => BraceForHandler(t)
    BY <1>3, <1>8
  <2>3. peek.k \in {"@handler", "}"}
    BY <1>8
  <2>4. QED
    BY <1>2, <1>8, <2>1, <2>2, <2>3 DEF OpenIn, t
<1>9. CASE y.mode \in {"any", "rest"} /\ x.mode = "now" /\ Plain(Top.set \ {")"}) /\ y.open = x.open
  <2>1. peek.k # ")"
    BY <1>9 DEF Stands, Holds, Ready, Top
  <2>2. peek.k \notin Signs /\ peek.k # "EOF"
    BY <1>9, <2>1 DEF Plain
  <2>3. QED
    BY <1>4, <1>9, <2>2 DEF t
<1>10. QED
  BY <1>1, <1>5, <1>6, <1>7, <1>8, <1>9 DEF Eats

\* A token is eaten, or read before it is known what it is.
LEMMA AdvanceIfKeeps ==
  ASSUME ParserInv, advanceIfPeekTokenIs
  PROVE  ParserInv'
<1>1. Running /\ Top.op \in {"eat", "skip"} /\ peek.k \in Top.set
      /\ IF Top.op = "eat" THEN Move(Labelled) ELSE Move(Unlabelled)
  BY DEF advanceIfPeekTokenIs
<1>2. ~errors /\ IsSeq(tree) /\ errors \in BOOLEAN /\ calls \in 0..MaxCalls
  BY <1>1, NoError DEF ParserInv
<1>3. PICK x \in Place, y \in Place :
          /\ Stands(x) /\ Leads(x, Top, y) /\ Path(y, Tail(stack), End)
          /\ x.cost \in Nat /\ y.cost \in Nat /\ x.cost <= MaxCalls /\ y.cost <= MaxCalls
          /\ calls \in Nat /\ calls + x.cost <= MaxCalls
          /\ x.open \in Seq(Opens) /\ y.open \in Seq(Opens)
  BY <1>1, Going
<1>4. CASE GivesUp
  <2>1. calls' \in 0..MaxCalls
    BY <1>4 DEF GivesUp, MaxCalls
  <2>2. QED
    BY <1>4, <2>1, GivenUp DEF GivesUp
<1>5. CASE Top.op = "eat" /\ \E n : n.unit = Top.unit /\ n.k = peek.k /\ Advanced(Append(tree, n))
  <2>1. PICK n : n.unit = Top.unit /\ n.k = peek.k /\ Advanced(Append(tree, n))
    BY <1>5
  <2>2. /\ OpenIn(Append(tree, n), y.open) /\ peek.k # "EOF" /\ y.mode # "now"
        /\ y.mode = "quiet" => peek.k \notin Signs \/ BraceForHandler(Append(tree, n))
    BY <1>1, <1>3, <1>5, <2>1, Eaten
  <2>3. IsSeq(Append(tree, n))
    BY <1>2, TreeGrows
  <2>4. calls' + y.cost <= MaxCalls
    BY <1>3, <2>1, <2>2 DEF Advanced, MaxCalls
  <2>5. ~errors'
    BY <1>2, <1>5, <2>1 DEF Advanced
  <2>6. QED
    BY <1>3, <2>1, <2>2, <2>3, <2>4, <2>5, ReadOn
<1>6. CASE Top.op = "skip" /\ Advanced(tree)
  <2>1. y.mode \in {"any", "quiet", "rest"} /\ Plain(Top.set) /\ y.open = x.open
    BY <1>3, <1>6 DEF Leads
  <2>2. peek.k \notin Signs /\ peek.k # "EOF"
    BY <1>1, <2>1 DEF Plain
  <2>3. OpenIn(tree, y.open)
    BY <1>3, <2>1 DEF Stands
  <2>4. calls' + y.cost <= MaxCalls
    BY <1>3, <1>6, <2>2 DEF Advanced, MaxCalls
  <2>5. ~errors'
    BY <1>2, <1>6 DEF Advanced
  <2>6. QED
    BY <1>2, <1>3, <1>6, <2>1, <2>2, <2>3, <2>4, <2>5, ReadOn
<1>7. QED
  BY <1>1, <1>2, <1>4, <1>5, <1>6, MoveLabels, MoveOn

\* The current token, kept in the tree, is no bracket.
LEMMA CurTokenKeeps ==
  ASSUME ParserInv, curTokenNode
  PROVE  ParserInv'
<1>1. /\ Running /\ Top.op \in {"mark", "bare"} /\ stack' = Tail(stack) /\ result' = "none"
      /\ calls' = calls /\ errors' = errors
  BY DEF curTokenNode, Running
<1>2. ~errors /\ IsSeq(tree) /\ errors \in BOOLEAN /\ calls \in 0..MaxCalls
  BY <1>1, NoError DEF ParserInv
<1>3. PICK x \in Place, y \in Place :
          /\ Stands(x) /\ Leads(x, Top, y) /\ Path(y, Tail(stack), End)
          /\ x.cost \in Nat /\ y.cost \in Nat /\ x.cost <= MaxCalls /\ y.cost <= MaxCalls
          /\ calls \in Nat /\ calls + x.cost <= MaxCalls
          /\ x.open \in Seq(Opens) /\ y.open \in Seq(Opens)
  BY <1>1, Going
<1>4. x.mode \in {"now", "quiet"} /\ y.mode \in {"any", "rest"} /\ y.open = x.open /\ y.cost <= x.cost
  BY <1>1, <1>3 DEF Leads
<1>5. Quiet
  <2>1. x.mode = "now" => Ready(Top)
    BY <1>3 DEF Stands, Holds, Top
  <2>2. Ready(Top) => Quiet
    BY <1>1 DEF Ready
  <2>3. QED
    BY <1>3, <1>4, <2>1, <2>2 DEF Stands, Holds
<1> DEFINE n == Node(Top, cur)
           t == Append(tree, n)
<1>6. tree' = t
  BY DEF curTokenNode
<1>7. n.k = cur.k
  BY DEF Node
<1> HIDE DEF n
<1>8. IsSeq(t) /\ (BraceForHandler(tree) => BraceForHandler(t))
  BY <1>2, TreeGrows
<1>9. OpenIn(tree, y.open)
  BY <1>3, <1>4 DEF Stands
<1>10. OpenIn(t, y.open)
  <2>1. CASE cur.k \notin Signs
    BY <1>2, <1>3, <1>7, <1>9, <2>1, NoSign
  <2>2. CASE BraceForHandler(tree)
    BY <1>8, <2>2 DEF OpenIn
  <2>3. QED
    BY <1>5, <2>1, <2>2 DEF Quiet
<1> HIDE DEF t
<1>11. Stands(y)'
  <2>1. Holds(y.mode, stack)'
    BY <1>4 DEF Holds
  <2>2. calls' + y.cost <= MaxCalls
    BY <1>1, <1>3, <1>4 DEF MaxCalls
  <2>3. QED
    BY <1>1, <1>3, <1>6, <1>10, <2>1, <2>2 DEF Stands
<1>12. QED
  BY <1>1, <1>2, <1>6, <1>8, <1>11 DEF ParserInv

\* An expectation that is met.
LEMMA ExpectKeeps ==
  ASSUME ParserInv, expectPeekToken
  PROVE  ParserInv'
<1>1. /\ Running /\ Top.op = "expect" /\ peek.k \in Top.set /\ stack' = Tail(stack) /\ result' = "none"
      /\ calls' = calls /\ errors' = errors /\ tree' = tree
  BY DEF expectPeekToken, Running
<1>2. IsSeq(tree) /\ errors \in BOOLEAN /\ calls \in 0..MaxCalls /\ (errors => Overlooked)
  BY <1>1 DEF ParserInv, Running
<1>3. ~errors
  <2>1. Call("itemsRest").op = "call" /\ Expect(RouteNext).set = RouteNext /\ "error" \notin RouteNext
    BY DEF Call, Expect, Op, RouteNext
  <2>2. Overlooked => Top = Expect(RouteNext) /\ peek.k = "error"
    BY <1>1, <2>1 DEF Overlooked, Top
  <2>3. QED
    BY <1>1, <1>2, <2>1, <2>2
<1>4. PICK x \in Place, y \in Place :
          /\ Stands(x) /\ Leads(x, Top, y) /\ Path(y, Tail(stack), End)
          /\ x.cost \in Nat /\ y.cost \in Nat /\ x.cost <= MaxCalls /\ y.cost <= MaxCalls
          /\ calls \in Nat /\ calls + x.cost <= MaxCalls
  BY <1>1, Going
<1>5. y.mode \in {"any", "rest"} /\ y.open = x.open /\ y.cost <= x.cost
  BY <1>1, <1>4 DEF Leads
<1>6. Stands(y)'
  <2>1. Holds(y.mode, stack)'
    BY <1>5 DEF Holds
  <2>2. calls' + y.cost <= MaxCalls
    BY <1>1, <1>4, <1>5 DEF MaxCalls
  <2>3. OpenIn(tree', y.open)
    BY <1>1, <1>4, <1>5 DEF Stands
  <2>4. QED
    BY <1>1, <1>4, <2>1, <2>2, <2>3 DEF Stands
<1>7. QED
  BY <1>1, <1>2, <1>3, <1>6 DEF ParserInv

\* A step that records an error and gives up.
LEMMA SyntaxErrorKeeps ==
  ASSUME ParserInv, SyntaxError
  PROVE  ParserInv'
<1>1. result' = "nil" /\ tree' = <<>> /\ errors' = TRUE /\ calls' = calls /\ calls \in 0..MaxCalls
  BY DEF SyntaxError, ReturnNil, ParserInv
<1>2. QED
  BY <1>1, GivenUp

\* Where a token fits nowhere it is none of those that were promised.
LEMMA UnexpectedKeeps ==
  ASSUME ParserInv, UnexpectedToken
  PROVE  ParserInv'
<1>1. /\ Running /\ Top.op = "unexpected" /\ result' = "nil" /\ tree' = <<>>
      /\ errors' = (errors \/ peek.k \notin Top.set) /\ calls' = calls /\ calls \in 0..MaxCalls
  BY DEF UnexpectedToken, ReturnNil, ParserInv
<1>2. PICK x \in Place, y \in Place : Stands(x) /\ Leads(x, Top, y)
  BY <1>1, Going
<1>3. x.mode = "now"
  BY <1>1, <1>2 DEF Leads
<1>4. peek.k \notin Top.set
  BY <1>1, <1>2, <1>3 DEF Stands, Holds, Ready, Top
<1>5. errors' \in BOOLEAN /\ errors'
  BY <1>1, <1>4
<1>6. QED
  BY <1>1, <1>5, GivenUp

\* Nothing is promised of a parse that panics.
LEMMA PanicKeeps ==
  ASSUME ParserInv, IndexOutOfRange
  PROVE  ParserInv'
BY DEF ParserInv, IndexOutOfRange

\* The body of a function takes the place of its call; the loop over the items
\* looks at the token that could not be scanned.
LEMMA CallKeeps ==
  ASSUME ParserInv, CallFunction
  PROVE  ParserInv'
<1>0. PICK body : body = Body(Top.part, Top.unit, Top.at)
  OBVIOUS
<1>1. /\ Running /\ Top.op = "call" /\ stack' = body \o Tail(stack) /\ calls' = calls + 1 /\ result' = "none"
      /\ errors' = errors /\ tree' = tree /\ peek' = peek /\ cur' = cur
  BY <1>0 DEF CallFunction, Running
<1>2. IsSeq(tree) /\ errors \in BOOLEAN /\ calls \in 0..MaxCalls /\ (errors => Overlooked)
  BY <1>1 DEF ParserInv, Running
<1>3. PICK x \in Place, y \in Place :
          /\ Stands(x) /\ Leads(x, Top, y) /\ Path(y, Tail(stack), End)
          /\ x.cost \in Nat /\ calls \in Nat /\ calls + x.cost <= MaxCalls
  BY <1>1, Going
<1>4. Holds(x.mode, <<Top>>)
  BY <1>3 DEF Stands, Holds, Top
<1>5. Keeps(x, body, y)
  BY <1>0, <1>1, <1>3, <1>4, BodyKeeps
<1>6. PICK z \in Place : z.open = x.open /\ z.cost < x.cost /\ Holds(z.mode, body) /\ Path(z, body, y)
  BY <1>5 DEF Keeps
<1>7. Path(z, stack', End)
  BY <1>1, <1>3, <1>6, PathJoin
<1>8. z.cost \in Nat
  BY <1>6, PlaceType DEF MaxCalls
<1>9. Stands(z)'
  <2>1. Holds(z.mode, stack)'
    <3>1. z.mode = "quiet" => Quiet'
      BY <1>1, <1>6 DEF Holds, Quiet
    <3>2. ASSUME z.mode = "now" PROVE (stack # <<>> /\ Ready(stack[1]))'
      <4>1. body # <<>> /\ Ready(body[1])
        BY <1>6, <3>2 DEF Holds
      <4>2. stack' # <<>> /\ stack'[1] = body[1]
        BY <1>1, <1>3, <1>6, <4>1, FirstOfJoin DEF Path
      <4>3. Ready(body[1])'
        BY <1>1, <4>1 DEF Ready, Quiet
      <4>4. QED
        BY <4>2, <4>3
    <3>3. QED
      BY <3>1, <3>2 DEF Holds
  <2>2. OpenIn(tree', z.open)
    BY <1>1, <1>3, <1>6 DEF Stands
  <2>3. calls' + z.cost <= MaxCalls
    BY <1>1, <1>3, <1>6, <1>8 DEF MaxCalls
  <2>4. QED
    BY <1>7, <2>1, <2>2, <2>3 DEF Stands
<1>10. calls' \in 0..MaxCalls
  BY <1>1, <1>3, <1>6, <1>8 DEF MaxCalls
<1>11. errors' => Overlooked'
  <2> SUFFICES ASSUME errors PROVE Overlooked'
    BY <1>1
  <2>1. peek.k = "error" /\ Top = Call("itemsRest")
    <3>1. Expect(RouteNext).op = "expect"
      BY DEF Expect, Op
    <3>2. QED
      BY <1>1, <1>2, <3>1 DEF Overlooked, Top
  <2>2. body = parseItemsRest(peek)
    <3>1. Top.part = "itemsRest"
      BY <2>1 DEF Call, Op
    <3>2. QED
      BY <1>0, <3>1, Bodies
  <2>3. body # <<>> /\ body[1] = Expect(RouteNext)
    BY <2>1, <2>2 DEF parseItemsRest, If
  <2>4. stack' # <<>> /\ stack'[1] = body[1]
    BY <1>1, <1>3, <1>6, <2>3, FirstOfJoin DEF Path
  <2>5. QED
    BY <1>1, <2>1, <2>3, <2>4 DEF Overlooked
<1>12. QED
  BY <1>1, <1>2, <1>9, <1>10, <1>11 DEF ParserInv

\* Where nothing is left to do nothing is open.
LEMMA AstKeeps ==
  ASSUME ParserInv, ReturnAst
  PROVE  ParserInv'
<1>1. result = "none" /\ stack = <<>> /\ result' = "ast" /\ UNCHANGED <<tree, errors, calls>>
  BY DEF ReturnAst
<1>2. IsSeq(tree) /\ errors \in BOOLEAN /\ calls \in 0..MaxCalls /\ (errors => Overlooked)
  BY <1>1 DEF ParserInv
<1>3. PICK x \in Place : Stands(x)
  BY <1>1 DEF ParserInv
<1>4. x = End
  BY <1>1, <1>3, PathEnds DEF Stands
<1>5. x.open = <<>>
  BY <1>4 DEF End, At
<1>6. OpenIn(tree, <<>>)
  BY <1>3, <1>5 DEF Stands
<1>7. ~errors
  BY <1>1, <1>2 DEF Overlooked
<1>8. QED
  BY <1>1, <1>2, <1>6, <1>7 DEF ParserInv

\* The first two tokens are read, and the rest is Parse.
LEMMA Beginning ==
  \E x \in Place : x.open = <<>> /\ x.cost = 4 /\ x.mode = "any" /\ Path(x, InitSteps, End)
<1> DEFINE x == At(<<>>, 4, "any")
<1>1. <<>> \in Seq(Opens) /\ 4 \in 0..MaxCalls /\ 0 \in 0..MaxCalls /\ "any" \in Modes
  BY EmptySeq DEF MaxCalls, Modes
<1>2. /\ x \in Place /\ x.open = <<>> /\ x.cost = 4 /\ x.mode = "any"
      /\ End \in Place /\ End.open = <<>> /\ End.cost = 0 /\ End.mode = "any"
  <2>1. At(<<>>, 4, "any") \in Place /\ At(<<>>, 0, "any") \in Place
    BY <1>1, PlaceFacts
  <2>2. QED
    BY <2>1 DEF End, At
<1> HIDE DEF x
<1>3. Leads(x, Op("next", {}, "", "", <<>>), x)
  BY <1>2 DEF Leads, Op
<1>4. Leads(x, Call("parse"), End)
  <2>1. "parse" \in Ordinary /\ Cost("parse") = 4 /\ After("parse") = 0
    BY Contracts
  <2>2. Cost("parse") <= x.cost /\ End.cost <= After("parse") /\ x.mode # "rest" /\ x.open = End.open
    BY <1>2, <2>1
  <2>3. QED
    BY <1>2, <2>1, <2>2, CallLeads DEF Call
<1>5. Path(x, InitSteps, End)
  BY <1>2, <1>3, <1>4, PathThree DEF InitSteps
<1>6. QED
  BY <1>2, <1>5

\* Where a file begins.
LEMMA Begun ==
  ASSUME stack = InitSteps, tree = <<>>, errors = FALSE, result = "none", calls = 0
  PROVE  ParserInv
<1>1. PICK x \in Place : x.open = <<>> /\ x.cost = 4 /\ x.mode = "any" /\ Path(x, InitSteps, End)
  BY Beginning
<1>2. OpenIn(tree, <<>>)
  BY OpenSteps DEF OpenIn
<1>3. Holds(x.mode, stack)
  BY <1>1 DEF Holds
<1>4. Stands(x)
  BY <1>1, <1>2, <1>3 DEF Stands, MaxCalls
<1>5. IsSeq(tree) /\ calls \in 0..MaxCalls /\ errors \in BOOLEAN /\ ~errors
  <2>1. IsSeq(<<>>)
    BY Short
  <2>2. calls \in 0..MaxCalls
    BY DEF MaxCalls
  <2>3. errors \in BOOLEAN /\ ~errors
    OBVIOUS
  <2>4. QED
    BY <2>1, <2>2, <2>3
<1>6. QED
  BY <1>1, <1>4, <1>5 DEF ParserInv

\* The formatted file is read from its beginning.
LEMMA FormatKeeps ==
  ASSUME ParserInv, Format
  PROVE  ParserInv'
<1>1. result = "ast" /\ ~errors /\ errors' = errors /\ errors \in BOOLEAN
  BY DEF Format, ParserInv
<1>2. CASE Unprintable(tree)
  <2>1. result' = "unprintable" /\ UNCHANGED <<stack, tree, calls>>
    BY <1>2 DEF Format
  <2>2. QED
    BY <1>1, <2>1 DEF ParserInv
<1>3. CASE ~Unprintable(tree)
  <2>1. stack' = InitSteps /\ tree' = <<>> /\ result' = "none" /\ calls' = 0
    BY <1>3 DEF Format
  <2>2. errors' = FALSE
    BY <1>1
  <2>3. PICK x \in Place : x.open = <<>> /\ x.cost = 4 /\ x.mode = "any" /\ Path(x, InitSteps, End)
    BY Beginning
  <2>4. OpenIn(tree', <<>>)
    BY <2>1, OpenSteps DEF OpenIn
  <2>5. Holds(x.mode, stack)'
    BY <2>3 DEF Holds
  <2>6. Stands(x)'
    BY <2>1, <2>3, <2>4, <2>5 DEF Stands, MaxCalls
  <2>7. IsSeq(tree') /\ calls' \in 0..MaxCalls /\ errors' \in BOOLEAN /\ ~errors'
    <3>1. IsSeq(<<>>)
      BY Short
    <3>2. calls' \in 0..MaxCalls
      BY <2>1 DEF MaxCalls
    <3>3. errors' \in BOOLEAN /\ ~errors'
      BY <2>2
    <3>4. QED
      BY <2>1, <3>1, <3>2, <3>3
  <2>8. QED
    BY <2>1, <2>3, <2>6, <2>7 DEF ParserInv
<1>4. QED
  BY <1>2, <1>3

(***************************************************************************)
(* The theorems                                                            *)
(***************************************************************************)
\* The invariant: between two steps the parser stands on a path that ends with no
\* bracket open and needs no more calls than are left, what the next step relies on
\* is true of the tokens, and an error nobody has looked at is about to be found.
THEOREM ParserInvariant == Spec => []ParserInv
<1>1. Init => ParserInv
  BY Begun DEF Init
<1>2. ParserInv /\ [Next]_vars => ParserInv'
  <2> SUFFICES ASSUME ParserInv, [Next]_vars PROVE ParserInv'
    OBVIOUS
  <2>1. CASE NextToken
    BY <2>1, NextTokenKeeps
  <2>2. CASE AdvanceUnchecked
    BY <2>2, AdvanceKeeps
  <2>3. CASE advanceIfPeekTokenIs
    BY <2>3, AdvanceIfKeeps
  <2>4. CASE curTokenNode
    BY <2>4, CurTokenKeeps
  <2>5. CASE expectPeekToken
    BY <2>5, ExpectKeeps
  <2>6. CASE SyntaxError
    BY <2>6, SyntaxErrorKeeps
  <2>7. CASE UnexpectedToken
    BY <2>7, UnexpectedKeeps
  <2>8. CASE IndexOutOfRange
    BY <2>8, PanicKeeps
  <2>9. CASE CallFunction
    BY <2>9, CallKeeps
  <2>10. CASE ReturnAst
    BY <2>10, AstKeeps
  <2>11. CASE Format
    BY <2>11, FormatKeeps
  <2>12. CASE UNCHANGED vars
    <3>1. /\ stack' = stack /\ tree' = tree /\ calls' = calls /\ errors' = errors /\ result' = result
          /\ cur' = cur /\ peek' = peek
      BY <2>12 DEF vars
    <3>2. \A x \in Place : Stands(x) => Stands(x)'
      BY <3>1 DEF Stands, Holds, Ready, Quiet
    <3>3. QED
      BY <3>1, <3>2 DEF ParserInv, Overlooked
  <2>13. QED
    BY <2>1, <2>2, <2>3, <2>4, <2>5, <2>6, <2>7, <2>8, <2>9, <2>10, <2>11, <2>12 DEF Next
<1>3. QED
  BY <1>1, <1>2, PTL DEF Spec

\* For every file, whatever stands in it: a parse that gives up has recorded an
\* error, and one that gives a tree has recorded none, which is all CheckErrors tells
\* the callers of Parse.
THEOREM NilAlwaysHasError == Spec => []NilHasError
<1>1. ParserInv => NilHasError
  BY DEF ParserInv, NilHasError
<1>2. QED
  BY <1>1, ParserInvariant, PTL

\* For every file: the brackets of a file that is accepted match, unless a closing
\* brace stood for the @handler after a @doc.
THEOREM AcceptedBracketsMatch == Spec => []BracketsMatch
<1>1. ParserInv => BracketsMatch
  BY DEF ParserInv, BracketsMatch, OpenIn
<1>2. QED
  BY <1>1, ParserInvariant, PTL

\* For every file: between two tokens, and behind the last one, no more than
\* MaxCalls functions are called.
THEOREM EveryLoopEats == Spec => []LoopsEat
<1>1. ParserInv => LoopsEat
  BY DEF ParserInv, LoopsEat, MaxCalls
<1>2. QED
  BY <1>1, ParserInvariant, PTL
=============================================================================
