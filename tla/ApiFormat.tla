------------------------------ MODULE ApiFormat -----------------------------
(***************************************************************************)
(* The printer of the syntax tree, pkg/parser/api/ast, that stands behind  *)
(* goctl api format.  A tree is the sequence of its tokens in the order of *)
(* the file, each with its place (ApiGrammar), and with the line comments  *)
(* that hang on it: head, on the line above, and tail, after it on its     *)
(* line.  Formatted gives the tokens of the formatted file.  Indentation,  *)
(* alignment and blank lines are left out; lines matter, because a line    *)
(* comment swallows what follows it on its line, and because a field and   *)
(* an embedded type are told apart by the end of the line.                 *)
(***************************************************************************)
EXTENDS Integers, Sequences, SequencesExt

Both == {"head", "tail"}

(***************************************************************************)
(* What Format keeps of the comments of each token, by node.               *)
(***************************************************************************)
SyntaxStmt == [open |-> {"head"}, assign |-> {"head"}, value |-> Both]

ImportStmt == [open |-> {"head"}, lparen |-> Both, value |-> Both, rparen |-> Both]

InfoStmt == [open |-> {"head"}, lparen |-> Both, key |-> {"head"}, colon |-> {}, value |-> Both, rparen |-> Both]

AtServerStmt == [InfoStmt EXCEPT !.value = {"tail"}]

AtDocStmt == [open |-> {"head"}, lparen |-> Both, key |-> {"head"}, colon |-> {}, value |-> Both, rparen |-> Both,
              literal |-> {"tail"}]

AtHandlerStmt == [open |-> {"head"}, name |-> {"tail"}]

ServiceStmt == [open |-> Both, name |-> {"tail"}, lbrace |-> Both, rbrace |-> Both]

RouteStmt == [open |-> {"head"}, path |-> {"tail"}, semicolon |-> {}]

BodyStmt == [open |-> Both, lparen |-> Both, bracket |-> {}, value |-> Both, rparen |-> {"tail"}]

TypeStmt == [open |-> Both, lparen |-> Both, type |-> Both, assign |-> Both, rparen |-> Both]

ElemExpr == [field |-> {"head"}, more |-> {"tail"}, comma |-> {}, tag |-> Both, embedded |-> Both, star |-> {"head"}]

\* What a type passes on to the types in it: the comments of their first token
\* they shall ignore, and whether they are the key of a map.
Inner(m, step) ==
    CASE step = "mapKey" -> [ignore |-> Both, child |-> TRUE]
      [] step \in {"mapValue", "array"} -> [ignore |-> IF m.child THEN Both ELSE {"head"}, child |-> FALSE]
      [] step \in {"slice", "pointer"} -> [ignore |-> {"head"}, child |-> FALSE]

Ignored(at) == FoldLeft(Inner, [ignore |-> {}, child |-> FALSE], at).ignore

DataType == [base |-> Both, prefix |-> {"head"}, inner |-> {}]

StructDataType(part, empty) ==
    IF part = "lbrace" THEN IF empty THEN {"head"} ELSE Both
    ELSE IF empty THEN {"tail"} ELSE Both

(***************************************************************************)
(* Neighbours in the tree                                                  *)
(***************************************************************************)
NextPart(t, i) == IF i < Len(t) /\ t[i + 1].unit = t[i].unit THEN t[i + 1].part ELSE ""

PrevPart(t, i) == IF i > 1 /\ t[i - 1].unit = t[i].unit THEN t[i - 1].part ELSE ""

\* The braces of a struct or a service with nothing in between.
Empty(t, i) == IF t[i].part = "lbrace" THEN NextPart(t, i) = "rbrace" ELSE PrevPart(t, i) = "lbrace"

\* A node of several tokens has the comment after the last of them.
IsLast(t, i) ==
    CASE t[i].part = "more" -> NextPart(t, i) # "comma"
      [] t[i].unit \in {"server", "service", "route"} /\ t[i].part \in {"value", "name", "path"} ->
            NextPart(t, i) # t[i].part
      [] OTHER -> TRUE

\* The comment after the path is printed only when the route has no body.
HasBody(t, i) == i < Len(t) /\ t[i + 1].unit \in {"request", "response"}

Table(n) ==
    CASE n.unit = "syntax" -> SyntaxStmt
      [] n.unit = "import" -> ImportStmt
      [] n.unit = "info" -> InfoStmt
      [] n.unit = "server" -> AtServerStmt
      [] n.unit = "doc" -> AtDocStmt
      [] n.unit = "handler" -> AtHandlerStmt
      [] n.unit = "service" -> ServiceStmt
      [] n.unit = "route" -> RouteStmt
      [] n.unit \in {"request", "response"} -> BodyStmt
      [] n.part \in DOMAIN ElemExpr -> ElemExpr
      [] n.part \in DOMAIN DataType -> DataType
      [] OTHER -> TypeStmt

Kept(t, i) ==
    LET n == t[i] IN
    CASE n.unit \in {"type", "group"} /\ n.part \in {"lbrace", "rbrace"} ->
            StructDataType(n.part, Empty(t, i)) \ (IF n.part = "lbrace" THEN Ignored(n.at) ELSE {})
      [] n.unit \in {"type", "group"} /\ n.part \in DOMAIN DataType -> DataType[n.part] \ Ignored(n.at)
      [] n.unit = "request" /\ n.part = "rparen" /\ HasBody(t, i) -> Both
      [] n.unit = "route" /\ n.part = "path" /\ (HasBody(t, i) \/ ~IsLast(t, i)) -> {}
      [] OTHER -> IF IsLast(t, i) THEN Table(n)[n.part] ELSE {}

HeadKept(t, i) == t[i].head /\ "head" \in Kept(t, i)

TailKept(t, i) == t[i].tail /\ "tail" \in Kept(t, i)

(***************************************************************************)
(* Statements that say nothing are not printed: their Format is the empty  *)
(* text.                                                                   *)
(***************************************************************************)
Droppable == {"import", "info", "server", "doc", "group", "request", "response"}

Says(n) == n.part \in {"value", "literal", "type"} /\ n.k # "nostr"

SameStmt(t, i, j) ==
    LET a == IF i < j THEN i ELSE j
        b == IF i < j THEN j ELSE i
    IN \A m \in a..b : t[m].unit = t[i].unit /\ (m > a => t[m].part # "open")

IsZero(t, i) == t[i].unit \in Droppable /\ ~\E j \in DOMAIN t : SameStmt(t, i, j) /\ Says(t[j])

Printed(t) ==
    SelectSeq([i \in DOMAIN t |-> i],
              LAMBDA i : ~IsZero(t, i) /\ t[i].part # "semicolon" /\ t[i].unit \notin {"comment", "item"})

(***************************************************************************)
(* Lines                                                                   *)
(***************************************************************************)
\* Written right behind what precedes it.
Glued(t, i) ==
    \/ t[i].part = "inner"
    \/ t[i].at # <<>>
    \/ t[i].part = "rbrace" /\ Empty(t, i)

\* Mutation: the elements of a struct are written on one line.
StartsLineNoElems(t, i) ==
    \/ t[i].part = "open" /\ t[i].unit # "response"
    \/ t[i].part \in {"key", "rparen", "rbrace"}

\* Written after NewLine.
StartsLine(t, i) ==
    LET n == t[i] IN
    \/ n.part = "open" /\ n.unit # "response"
    \/ n.part \in {"key", "field", "embedded", "star"}
    \/ n.part = "rparen" /\ n.unit \notin {"request", "response"}
    \/ n.part = "rbrace" /\ ~Empty(t, i)
    \/ n.unit = "group" /\ n.part = "type"
    \/ n.unit = "import" /\ n.part = "value" /\ PrevPart(t, i) # "open"

\* A comment that its own node does not print makes the next one start a line all the
\* same: above the type of a body, behind the path of a route with a body, and at a
\* request that says nothing.
BreaksLine(t, i) ==
    \/ t[i].part = "bracket" /\ t[i].head /\ PrevPart(t, i) = "lparen"
    \/ /\ <<t[i].unit, t[i].part>> \in {<<"request", "lparen">>, <<"response", "open">>}
       /\ \E j \in 1..i - 1 :
            /\ \A m \in j + 1..i - 1 : IsZero(t, m)
            /\ \/ t[j].part = "path" /\ t[j].tail
               \/ IsZero(t, j) /\ t[j].part = "lparen" /\ t[j].head
               \/ IsZero(t, j) /\ t[j].part = "rparen" /\ t[j].tail

\* Mutation: a comment above a token does not make it start a line.
WriteInLine(t, s, i) ==
    LET own == StartsLine(t, i) \/ (~Glued(t, i) /\ (s.after \/ BreaksLine(t, i)))
        nl == own \/ HeadKept(t, i)
        tok == [k |-> t[i].k, nl |-> nl, head |-> HeadKept(t, i) /\ own,
                tail |-> s.after \/ (HeadKept(t, i) /\ ~own)]
    IN IF s.after /\ ~nl THEN s ELSE [text |-> Append(s.text, tok), after |-> TailKept(t, i)]

\* One token more: [text, after], after tells that the line ends with a comment.
Write(t, s, i) ==
    LET own == StartsLine(t, i) \/ (~Glued(t, i) /\ (HeadKept(t, i) \/ s.after \/ BreaksLine(t, i)))
        nl == own \/ HeadKept(t, i)
        tok == [k |-> t[i].k, nl |-> nl, head |-> HeadKept(t, i) /\ own,
                tail |-> s.after \/ (HeadKept(t, i) /\ ~own)]
    IN IF s.after /\ ~nl THEN s ELSE [text |-> Append(s.text, tok), after |-> TailKept(t, i)]

Formatted(t) ==
    LET s == FoldLeft(LAMBDA a, i : Write(t, a, i), [text |-> <<>>, after |-> FALSE], Printed(t))
    IN Append(s.text, [k |-> "EOF", nl |-> TRUE, tail |-> s.after, head |-> \E i \in DOMAIN t : t[i].unit = "comment"])

\* An item without handler cannot be printed: its Format dereferences the handler.
Unprintable(t) == \E i \in DOMAIN t : t[i].unit = "item"

\* The tree without the comments that are not printed.
WithoutLost(t) ==
    LET printed(i) == i \in ToSet(Printed(t))
    IN [i \in DOMAIN t |->
           [t[i] EXCEPT !.head = printed(i) /\ HeadKept(t, i), !.tail = printed(i) /\ TailKept(t, i)]]

\* What the tree says, without comments and without what says nothing.
Meaning(t) == [i \in DOMAIN Printed(t) |-> LET n == t[Printed(t)[i]] IN <<n.unit, n.part, n.at, n.k>>]
=============================================================================
