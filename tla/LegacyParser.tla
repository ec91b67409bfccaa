---------------------------- MODULE LegacyParser ----------------------------
(***************************************************************************)
(* What api/parser/g4 makes of the text of one api file (Parser.invoke):   *)
(* the tokens, the parse tree of the ANTLR parser, and the tree that the   *)
(* visitor builds of it, with its checks.  The first thing that is wrong   *)
(* ends the parse: errors of the parser and panics of the visitor are      *)
(* recovered into one error.                                               *)
(***************************************************************************)
EXTENDS LegacyGrammar, SequencesExt

(***************************************************************************)
(* The lexer.  Besides tokens a text has line ends ("nl") and comments     *)
(* ("//"), which go to channels of their own, and characters no token      *)
(* begins with ("."), which are dropped: nobody listens to its errors.     *)
(***************************************************************************)
LineOf(text, i) == Cardinality({j \in 1..i - 1 : text[j] = "nl"})

\* The tokens of the line of text[i] that isNormal counts.
Mates(text, i) ==
    [k \in 1..Len(text) |-> IF LineOf(text, k) = LineOf(text, i) THEN text[k] ELSE "nl"]

\* Mutation: comments count as tokens of the line.
CountedWithComments(t) == t \notin {"nl", "."}

Counted(t) == t \notin {"nl", "//", "."}

Lex(text) ==
    LET all == [i \in DOMAIN text |->
                   [t |-> text[i], at |-> i, line |-> LineOf(text, i), mates |-> SelectSeq(Mates(text, i), Counted)]]
    IN SelectSeq(all, LAMBDA token : token.t \notin {"nl", "//", "."})

\* A field stands on a line of its own, with something after its name.
isNormal(token) == Len(token.mates) > 1 /\ Head(token.mates) # "*"

\* isNormal looks at the name of an embedded type, too.
LoneKeyword(token) ==
    \/ Len(token.mates) = 1 /\ Head(token.mates) \in GoKeywords
    \/ Len(token.mates) > 1 /\ Head(token.mates) = "*" /\ token.mates[2] \in GoKeywords

(***************************************************************************)
(* The ANTLR runtime: where the next token does not tell the alternatives  *)
(* apart, a prediction takes the first with which the tokens, as far as    *)
(* they are needed, can be read; where there is none the parse fails.      *)
(***************************************************************************)
Alternatives(e) == IF e.op = "star" THEN <<Append(e.alts, e), <<>>>> ELSE e.alts

\* Whether the elements can begin with the token.
RECURSIVE Starts(_, _)
Starts(es, t) ==
    /\ es # <<>>
    /\ LET e == Head(es)
       IN CASE e.op = "tok" -> t \in e.set
            [] e.op = "must" -> Starts(Tail(es), t)
            [] e.op = "rule" -> Starts(Grammar[e.name], t)
            [] OTHER -> \E a \in DOMAIN Alternatives(e) : Starts(Alternatives(e)[a] \o Tail(es), t)

RECURSIVE Viable(_, _)
Viable(es, tokens) ==
    IF es = <<>> THEN tokens = <<>> \/ Head(tokens).t \notin SpecFirst
    ELSE LET e == Head(es)
             After == Tail(es)
         IN CASE e.op = "tok" -> tokens # <<>> /\ Head(tokens).t \in e.set /\ Viable(After, Tail(tokens))
              [] e.op = "must" -> Viable(After, tokens)
              [] e.op = "rule" -> Viable(Grammar[e.name] \o After, tokens)
              [] OTHER -> \E a \in DOMAIN Alternatives(e) : Viable(Alternatives(e)[a] \o After, tokens)

Least(alternatives) == IF alternatives = {} THEN 0 ELSE Min(alternatives)

\* The tests of LA(1); an alternative without tokens comes last.
Choose1(e, tokens) ==
    LET alts == Alternatives(e)
    IN Least({a \in DOMAIN alts : alts[a] = <<>> \/ (tokens # <<>> /\ Starts(alts[a], Head(tokens).t))})

Predict(e, after, tokens) ==
    LET token == Head(tokens)
        starts == {a \in DOMAIN e.alts : tokens # <<>> /\ Starts(e.alts[a], token.t)}
        can == {a \in starts : Viable(e.alts[a] \o after, tokens)}
    IN CASE e.name = "" -> IF Cardinality(starts) > 1 THEN Least(can) ELSE Least(starts)
         [] 1 \notin starts -> Least(starts)
         [] 1 \notin can -> Least(can)
         [] LoneKeyword(token) -> 0
         [] OTHER -> Least(IF isNormal(token) THEN can ELSE can \ {1})

\* A node of the parse tree: a rule with its parts, or a token.
Node(rule, kids) == [rule |-> rule, text |-> "", line |-> 0, at |-> 0, kids |-> kids]
Leaf(token) == [rule |-> "", text |-> token.t, line |-> token.line, at |-> token.at, kids |-> <<>>]

Failed == [ok |-> FALSE, kids |-> <<>>, rest |-> <<>>]

\* The functions of the parser: the elements es are read, the rules called from
\* further up will read what is in after.
RECURSIVE Derive(_, _, _)
Derive(es, after, tokens) ==
    LET Then(kid, rest) ==
            LET r == Derive(Tail(es), after, rest) IN IF r.ok THEN [r EXCEPT !.kids = <<kid>> \o @] ELSE Failed
    IN  IF es = <<>> THEN [ok |-> TRUE, kids |-> <<>>, rest |-> tokens]
        ELSE LET e == Head(es)
             IN CASE e.op = "tok" -> IF tokens # <<>> /\ Head(tokens).t \in e.set
                                     THEN Then(Leaf(Head(tokens)), Tail(tokens)) ELSE Failed
                  [] e.op = "must" -> IF tokens # <<>> /\ Head(tokens).t \in e.set
                                      THEN Derive(Tail(es), after, tokens) ELSE Failed
                  [] e.op = "rule" -> LET sub == Derive(Grammar[e.name], Tail(es) \o after, tokens)
                                      IN IF sub.ok THEN Then(Node(e.name, sub.kids), sub.rest) ELSE Failed
                  [] OTHER -> LET a == IF e.op = "predict" THEN Predict(e, Tail(es) \o after, tokens) ELSE Choose1(e, tokens)
                              IN IF a = 0 THEN Failed ELSE Derive(Alternatives(e)[a] \o Tail(es), after, tokens)

(***************************************************************************)
(* Reading the parse tree                                                  *)
(***************************************************************************)
Kids(n, rule) == SelectSeq(n.kids, LAMBDA kid : kid.rule = rule)
Has(n, rule) == Kids(n, rule) # <<>>
Kid(n, rule) == Kids(n, rule)[1]

\* Tokens of a node, and those of them that are in a set.
Texts(n, set) == SelectSeq([i \in DOMAIN n.kids |-> n.kids[i].text], LAMBDA t : t \in set)

RECURSIVE All(_)
All(n) == {n} \cup UNION {All(n.kids[i]) : i \in DOMAIN n.kids}

\* ctx.GetText: the texts of all tokens below.
RECURSIVE Text(_)
Text(n) == IF n.rule = "" THEN <<n.text>> ELSE FlattenSeq([i \in DOMAIN n.kids |-> Text(n.kids[i])])

Map(Op(_), s) == [i \in DOMAIN s |-> Op(s[i])]

(***************************************************************************)
(* The visitor: types                                                      *)
(***************************************************************************)
Type(kind, name, of) == [kind |-> kind, name |-> name, of |-> of]

RECURSIVE VisitDataType(_)
VisitDataType(n) ==
    LET kid == n.kids[1] IN
    CASE kid.rule = "mapType" -> Type("map", Texts(kid, Basic)[1], <<VisitDataType(Kid(kid, "dataType"))>>)
      [] kid.rule = "arrayType" -> Type("array", "", <<VisitDataType(Kid(kid, "dataType"))>>)
      [] kid.rule = "pointerType" -> Type("pointer", Texts(kid, Idents)[1], <<>>)
      [] kid.text = "interface{}" -> Type("interface", "", <<>>)
      [] kid.text \in Idents -> Type("literal", kid.text, <<>>)
      [] OTHER -> Type("none", "", <<>>)

\* time.Time is not supported; a struct is no DataType, which the caller asserts.
VisitDataTypePanics(n) == n.kids[1].text = "time.Time" \/ n.kids[1].rule = "typeStruct"

VisitNormalField(n) ==
    [embedded |-> FALSE, name |-> n.kids[1].text, type |-> VisitDataType(Kid(n, "dataType")), at |-> n.kids[1].at]

VisitNormalFieldPanics(n) == Texts(n, {"~raw"}) # <<>>

VisitAnonymousFiled(n) ==
    [embedded |-> TRUE, name |-> "",
     type |-> Type(IF Texts(n, {"*"}) # <<>> THEN "pointer" ELSE "literal", Texts(n, Idents)[1], <<>>), at |-> n.kids[1].at]

VisitField(n) == IF Has(n, "anonymousFiled") THEN VisitAnonymousFiled(n.kids[1]) ELSE VisitNormalField(n.kids[1])

VisitTypeStruct(n) == [name |-> n.kids[1].text, fields |-> Map(VisitField, Kids(n, "field"))]

VisitTypeStructPanics(n) == n.kids[2].text \in Idents \ {"struct"}

\* An alias is built and then refused.
VisitTypeAliasPanics(n) == TRUE

VisitTypeBlock(n) == Map(LAMBDA each : VisitTypeStruct(each.kids[1]), Kids(n, "typeBlockBody"))

VisitTypeSpec(n) ==
    IF Has(n, "typeLit") THEN <<VisitTypeStruct(Kid(n.kids[1], "typeLitBody").kids[1])>> ELSE VisitTypeBlock(n.kids[1])

(***************************************************************************)
(* The visitor: the rest                                                   *)
(***************************************************************************)
\* A comment may stand in the value of a key.
VisitKvLit(n) ==
    LET v == checkKeyValue(n.kids[2].text) IN [key |-> n.kids[1].text, value |-> IF v = "k//" THEN "k" ELSE v]

VisitImportValue(n) == n.kids[1].text

VisitImportBlock(n) == Map(LAMBDA each : VisitImportValue(each.kids[1]), Kids(n, "importBlockValue"))

VisitImportSpec(n) ==
    IF Has(n, "importLit") THEN <<VisitImportValue(Kid(n.kids[1], "importValue"))>> ELSE VisitImportBlock(n.kids[1])

VisitInfoSpec(n) == Map(VisitKvLit, Kids(n, "kvLit"))

VisitSyntaxLit(n) == Texts(n, Strings)[1]

VisitAtServer(n) == Map(VisitKvLit, Kids(n, "kvLit"))

VisitAtDoc(n) == Map(VisitKvLit, Kids(n, "kvLit"))

VisitAtDocPanics(n) == (Texts(n, {"("}) # <<>>) # (Texts(n, {")"}) # <<>>)

VisitBody(n) == Map(LAMBDA t : Type("literal", t, <<>>), Texts(n, Idents))

VisitBodyPanics(n) == Texts(n, GoKeywords) # <<>>

VisitReplybody(n) == Map(VisitDataType, Kids(n, "dataType"))

VisitReplybodyPanics(n) ==
    \E i \in DOMAIN VisitReplybody(n) :
        LET dt == VisitReplybody(n)[i]
        IN ~(dt.kind = "literal" \/ (dt.kind = "array" /\ dt.of[1].kind \in {"literal", "pointer"}))

\* The slashes and names of a path.
VisitPath(n) == Text(n)

VisitRoute(n) ==
    [method |-> n.kids[1].text, path |-> VisitPath(Kid(n, "path")),
     request |-> IF Has(n, "body") THEN VisitBody(Kid(n, "body")) ELSE <<>>,
     response |-> IF Has(n, "replybody") THEN VisitReplybody(Kid(n, "replybody")) ELSE <<>>]

\* At most one element: the text of a key, or nil.
Get(kvs, key) ==
    LET same == SelectSeq(kvs, LAMBDA kv : kv.key = key) IN IF same = <<>> THEN <<>> ELSE <<same[1].value>>

VisitAtHandler(n) == Texts(n, Idents)[1]

VisitServiceRoute(n) ==
    [doc |-> IF Has(n, "atDoc") THEN VisitAtDoc(Kid(n, "atDoc")) ELSE <<>>,
     server |-> IF Has(n, "atServer") THEN VisitAtServer(Kid(n, "atServer")) ELSE <<>>,
     handler |-> IF Has(n, "atHandler") THEN <<VisitAtHandler(Kid(n, "atHandler"))>> ELSE <<>>,
     route |-> VisitRoute(Kid(n, "route"))]

\* ServiceRoute.GetHandler
GetHandler(r) == IF r.handler # <<>> THEN r.handler ELSE Get(r.server, "handler")

VisitServiceApi(n) ==
    [name |-> Text(Kid(n, "serviceName")), routes |-> Map(VisitServiceRoute, Kids(n, "serviceRoute"))]

VisitServiceSpec(n) ==
    [server |-> IF Has(n, "atServer") THEN VisitAtServer(Kid(n, "atServer")) ELSE <<>>,
     api |-> VisitServiceApi(Kid(n, "serviceApi"))]

Panics(n) ==
    CASE n.rule = "dataType" -> VisitDataTypePanics(n)
      [] n.rule = "normalField" -> VisitNormalFieldPanics(n)
      [] n.rule \in {"typeStruct", "typeBlockStruct"} -> VisitTypeStructPanics(n)
      [] n.rule \in {"typeAlias", "typeBlockAlias"} -> VisitTypeAliasPanics(n)
      [] n.rule = "atDoc" -> VisitAtDocPanics(n)
      [] n.rule = "body" -> VisitBodyPanics(n)
      [] n.rule = "replybody" -> VisitReplybodyPanics(n)
      [] OTHER -> FALSE

(***************************************************************************)
(* VisitApi: the declarations of a file are accepted one after the other.  *)
(***************************************************************************)
VisitSpec(n, rule, Visit(_)) == IF Has(n, rule) THEN Visit(n.kids[1]) ELSE <<>>

Declared(tree, rule, Visit(_)) ==
    FlattenSeq(Map(LAMBDA each : VisitSpec(each, rule, Visit), Kids(tree, "spec")))

VisitApi(tree) ==
    [syntax |-> Declared(tree, "syntaxLit", LAMBDA n : <<VisitSyntaxLit(n)>>),
     import |-> Declared(tree, "importSpec", VisitImportSpec),
     info |-> Declared(tree, "infoSpec", LAMBDA n : <<VisitInfoSpec(n)>>),
     type |-> Declared(tree, "typeSpec", VisitTypeSpec),
     service |-> Declared(tree, "serviceSpec", LAMBDA n : <<VisitServiceSpec(n)>>)]

Value(kvs, key) == IF Get(kvs, key) = <<>> THEN "" ELSE Get(kvs, key)[1]

\* path.Join: the prefix and the path, and no slash at the end.
Join(prefix, p) ==
    CASE prefix = "" -> p
      [] prefix = "/p" -> <<"/", "p">> \o IF p = <<"/">> THEN <<>> ELSE p
      [] OTHER -> <<prefix>> \o IF p = <<"/">> THEN <<>> ELSE p

RouteKey(service, r) == <<r.route.method, Join(Value(service.server, "prefix"), r.route.path)>>

\* The group of a service counts, where it has one.
HandlerKey(service, r) == <<Value(service.server, "group"), GetHandler(r)>>

RoutesOf(service) == service.api.routes

\* acceptSyntax and acceptInfo
acceptSyntax(ast) == Len(ast.syntax) <= 1
acceptInfo(ast) == Len(ast.info) <= 1 /\ \A i \in DOMAIN ast.info : IsInjective(Map(LAMBDA kv : kv.key, ast.info[i]))

acceptImport(ast) == IsInjective(ast.import)

acceptType(ast) == IsInjective(Map(LAMBDA type : type.name, ast.type))

duplicateServerItemCheck(kvs) == IsInjective(Map(LAMBDA kv : kv.key, kvs))

\* Mutation: a route may have no handler.
HasHandlerUnchecked(r) == duplicateServerItemCheck(r.server)

HasHandler(r) ==
    /\ duplicateServerItemCheck(r.server)
    /\ GetHandler(r) \notin {<<>>, <<"">>}

\* The names of services are compared with a set that stays empty.
acceptService(ast) ==
    LET Of(s, Key(_, _)) == Map(LAMBDA r : Key(s, r), RoutesOf(s))
        AllOf(Key(_, _)) == FlattenSeq(Map(LAMBDA s : Of(s, Key), ast.service))
    IN  /\ \A i \in DOMAIN ast.service :
            /\ duplicateServerItemCheck(ast.service[i].server)
            /\ \A j \in DOMAIN RoutesOf(ast.service[i]) : HasHandler(RoutesOf(ast.service[i])[j])
        /\ IsInjective(AllOf(RouteKey))
        /\ IsInjective(AllOf(HandlerKey))

NoAst == [syntax |-> <<>>, import |-> <<>>, info |-> <<>>, type |-> <<>>, service |-> <<>>]

NotParsed == [ok |-> FALSE, ast |-> NoAst]

Accepted(ast) ==
    IF acceptSyntax(ast) /\ acceptImport(ast) /\ acceptInfo(ast) /\ acceptType(ast) /\ acceptService(ast)
    THEN [ok |-> TRUE, ast |-> ast] ELSE NotParsed

Visited(parsed) ==
    IF parsed.ok /\ \A n \in All(parsed.kids[1]) : ~Panics(n) THEN Accepted(VisitApi(parsed.kids[1])) ELSE NotParsed

\* Parser.invoke
Invoke(text) == Visited(Derive(<<Rule("api")>>, <<>>, Lex(text)))
=============================================================================
