----------------------------- MODULE ApiGrammar -----------------------------
(***************************************************************************)
(* The functions of the parser of api files, pkg/parser/api/parser.  Each  *)
(* is an operator that says, from the current token c and the one ahead    *)
(* p, which steps the function takes: tokens it eats, expectations it      *)
(* states, functions it calls.  ApiParser executes the steps.              *)
(*                                                                         *)
(* A token is known by its kind: "name" is an identifier with no special   *)
(* text, "get" stands for the HTTP methods, "func" for the Go keywords     *)
(* that mean nothing to the parser, "nostr" is the empty string literal    *)
(* and "any{}" the token interface{}.                                      *)
(***************************************************************************)
EXTENDS Naturals, Sequences

Keywords == {"import", "type", "map", "func"}

Idents == {"name", "syntax", "info", "service", "returns", "get", "any", "api"} \cup Keywords

Str == {"str", "nostr"}

Types == {"[", "any{}", "*"} \cup Idents

\* Where the path of a route may end.
PathEnd == {"(", "returns", "@doc", "@handler", ";", "}"}

RouteNext == {"@doc", "@handler", "}"}

(***************************************************************************)
(* The steps.  A token that is eaten gets a place in the syntax tree: the  *)
(* unit and the part of it, and, inside a data type, the path from the     *)
(* outermost type.                                                         *)
(***************************************************************************)
Op(op, set, unit, part, at) == [op |-> op, set |-> set, unit |-> unit, part |-> part, at |-> at]

\* advanceIfPeekTokenIs, and the token kept in the tree.
Eat(set, unit, part) == Op("eat", set, unit, part, <<>>)
EatIn(set, unit, part, at) == Op("eat", set, unit, part, at)

\* advanceIfPeekTokenIs, before it is known what the token is.
Skip(set) == Op("skip", set, "", "", <<>>)

\* The current token, kept in the tree.
Mark(unit, part) == Op("mark", {}, unit, part, <<>>)
MarkIn(unit, part, at) == Op("mark", {}, unit, part, at)

\* notExpectPeekToken and expectPeekToken: an error unless the token ahead is in the set.
Expect(set) == Op("expect", set, "", "", <<>>)

\* nextToken whose result nobody looks at.
Advance(unit, part) == Op("advance", {}, unit, part, <<>>)

\* An error, recorded; the function and all its callers return nil.
Reject == Op("reject", {}, "", "", <<>>)

\* expectPeekToken for its error, and nil whatever it says.
Unexpected(set) == <<Op("unexpected", set, "", "", <<>>)>>

\* An index out of range.
Panic == Op("panic", {}, "", "", <<>>)

Call(f) == Op("call", {}, "", f, <<>>)
CallIn(f, unit) == Op("call", {}, unit, f, <<>>)
CallAt(f, unit, at) == Op("call", {}, unit, f, at)

If(b, steps) == IF b THEN steps ELSE <<>>

(***************************************************************************)
(* Statements                                                              *)
(***************************************************************************)
Parse(c) == If(c.k # "EOF", <<Call("stmt"), Op("next", {}, "", "", <<>>), Call("parse")>>)

parseStmt(c) ==
    CASE c.k = "syntax" -> <<Mark("syntax", "open"), Call("syntax")>>
      [] c.k = "info" -> <<Mark("info", "open"), Call("info")>>
      [] c.k \in {"service", "@server"} -> <<Call("service")>>
      [] c.k = "type" -> <<Call("types")>>
      [] c.k = "import" -> <<Mark("import", "open"), Call("import")>>
      [] OTHER -> <<Reject>>

parseSyntaxStmt == <<Eat({"="}, "syntax", "assign"), Eat(Str, "syntax", "value")>>

parseInfoStmt == <<Eat({"("}, "info", "lparen"), CallIn("pairs", "info"), Eat({")"}, "info", "rparen")>>

\* The loop over key-value pairs of info and of a @doc group.
parsePairs(c, p, unit) ==
    If(c.k # "EOF" /\ p.k # ")",
       <<CallIn("pair", unit), Expect({")"} \cup Idents), CallIn("pairs", unit)>>)

parseKVExpression(unit) ==
    <<Eat(Idents, unit, "key"), Eat({":"}, unit, "colon"), Eat(Str \cup {"raw"} \cup Idents, unit, "value")>>

parseImportStmt(p) == <<Expect({"("} \cup Str), Call(IF p.k = "(" THEN "importGroup" ELSE "importLiteral")>>

parseImportLiteralStmt == <<Eat(Str, "import", "value")>>

parseImportGroupStmt == <<Eat({"("}, "import", "lparen"), Call("imports"), Eat({")"}, "import", "rparen")>>

parseImports(c, p) ==
    If(c.k # "EOF" /\ p.k # ")", <<Eat(Str, "import", "value"), Expect({")"} \cup Str), Call("imports")>>)

(***************************************************************************)
(* Services                                                                *)
(***************************************************************************)
parseService(c) ==
    If(c.k = "@server", <<Mark("server", "open"), Call("server"), Skip({"service"})>>) \o
    <<Mark("service", "open"), Eat(Idents, "service", "name"), Call("serviceName"),
      Eat({"{"}, "service", "lbrace"), Call("items"), Eat({"}"}, "service", "rbrace")>>

parseServiceNameExpr(p) == If(p.k = "-", <<Eat({"-"}, "service", "name"), Eat({"api"}, "service", "name")>>)

parseAtServerStmt == <<Eat({"("}, "server", "lparen"), Call("serverPairs"), Eat({")"}, "server", "rparen")>>

parseServerPairs(c, p) ==
    If(c.k # "EOF" /\ p.k # ")", <<Call("serverPair"), Expect({")"} \cup Idents), Call("serverPairs")>>)

parseAtServerKVExpression ==
    <<Eat(Idents \cup {")"}, "server", "key"), Eat({":"}, "server", "colon"),
      Expect({"/", "duration", "int"} \cup Idents \cup Str), Call("serverValue")>>

ValueWord == Eat(Idents, "server", "value")

\* What a value of @server is, told by its first token: a path, a literal, or words.
parseServerValue(p) ==
    IF p.k = "/" THEN <<Call("valuePath")>>
    ELSE IF p.k \in {"duration", "int"} \cup Str THEN <<Eat({p.k}, "server", "value")>>
    ELSE <<ValueWord, Call("valueRest")>>

parseValueRest(p) == <<Call(IF p.k = "," THEN "commas" ELSE IF p.k = "-" THEN "dashes" ELSE "valuePath")>>

\* Mutation: the comma is seen and not read.
parseCommasUnread(p) == If(p.k = ",", <<Call("commas")>>)

parseCommas(p) == If(p.k = ",", <<Eat({","}, "server", "value"), ValueWord, Call("commas")>>)

parseDashes(p) == If(p.k = "-", <<Eat({"-"}, "server", "value"), ValueWord, Call("dashes")>>)

parseValuePath(p) ==
    If(p.k = "/", <<Eat({"/"}, "server", "value"), ValueWord, Call("valueDash"), Call("valuePath")>>)

parseValueDash(p) == If(p.k = "-", <<Eat({"-"}, "server", "value"), ValueWord>>)

parseServiceItemsStmt(c, p) ==
    If(c.k # "EOF" /\ p.k # "}", <<Call("item"), Call("itemsRest")>>)

parseItemsRest(p) == If(p.k # "}", <<Expect(RouteNext), Call("items")>>)

\* After a @doc a closing brace is accepted for the @handler.
parseServiceItemStmt(p) ==
    If(p.k = "@doc", <<Eat({"@doc"}, "doc", "open"), Call("doc")>>) \o
    <<Eat({"@handler", "}"}, "handler", "open"), Call("itemRest")>>

\* An item that ends here has neither handler nor route.
parseItemRest(p) ==
    IF p.k = "}" THEN <<Op("bare", {}, "item", "bare", <<>>)>>
    ELSE <<Eat(Idents, "handler", "name"), Call("route")>>

parseAtDocStmt(p) == <<Expect({"("} \cup Str), Call(IF p.k = "(" THEN "docGroup" ELSE "docLiteral")>>

parseAtDocGroupStmt == <<Eat({"("}, "doc", "lparen"), CallIn("pairs", "doc"), Eat({")"}, "doc", "rparen")>>

parseAtDocLiteralStmt == <<Eat(Str, "doc", "literal")>>

(***************************************************************************)
(* Routes                                                                  *)
(***************************************************************************)
parseRouteStmt == <<Eat({"get"}, "route", "open"), Call("path"), Call("request")>>

parseRequest(p) ==
    IF p.k \in RouteNext THEN <<>>
    ELSE IF p.k = ";" THEN <<Advance("route", "semicolon")>>
    ELSE <<Expect({"returns", "("})>> \o If(p.k = "(", <<CallIn("body", "request")>>) \o
         <<Expect({"returns", ";"} \cup RouteNext), Call("response")>>

parseResponse(p) ==
    If(p.k = "returns", <<Eat({"returns"}, "response", "open"), CallIn("body", "response")>>) \o <<Call("routeEnd")>>

parseRouteEnd(p) == If(p.k = ";", <<Advance("route", "semicolon")>>)

\* Mutation: the closing parenthesis is not asked for.
parseBodyStmtOpen(unit) == <<Eat({"("}, unit, "lparen"), CallIn("bodyRest", unit)>>

parseBodyStmt(unit) == <<Eat({"("}, unit, "lparen"), CallIn("bodyRest", unit), Eat({")"}, unit, "rparen")>>

parseBodyExpr(p, unit) ==
    CASE p.k = ")" -> <<>>
      [] p.k = "[" -> <<Eat({"["}, unit, "bracket"), Eat({"]"}, unit, "bracket"), CallIn("bodyElem", unit)>>
      [] OTHER -> <<CallIn("bodyElem", unit)>>

parseBodyElem(p, unit) ==
    CASE p.k = "*" -> <<Eat({"*"}, unit, "bracket"), Eat(Idents, unit, "value")>>
      [] p.k \in Idents -> <<Eat(Idents, unit, "value")>>
      [] OTHER -> Unexpected({"*"} \cup Idents)

\* The first token of the path is taken from the tokens the loop has read:
\* there are none when the path ends where it begins.
parsePathExpr(c, p) == IF c.k = "EOF" \/ p.k \in PathEnd THEN <<Panic>> ELSE <<Call("segment")>>

parseSegment == <<Eat({"/"}, "route", "path"), Call("segmentRest")>>

parseSegmentRest(c, p) ==
    IF p.k \in PathEnd THEN <<>>
    ELSE IF c.tail THEN <<Reject>>
    ELSE <<Expect({":", "int"} \cup Idents)>> \o If(p.k = ":", <<Eat({":"}, "route", "path")>>) \o
         <<Eat({"int"} \cup Idents, "route", "path"), Call("pathItem"), Expect({"/"} \cup PathEnd), Call("segments")>>

parseSegments(c, p) == If(c.k # "EOF" /\ p.k \notin PathEnd, <<Call("segment")>>)

parsePathItem(c, p) ==
    If(c.k # "EOF" /\ p.k \notin {"/", "EOF"} \cup PathEnd,
       If(p.k \in {"-", "."}, <<Eat({p.k}, "route", "path")>>) \o <<Eat(Idents, "route", "path"), Call("pathItem")>>)

(***************************************************************************)
(* Types                                                                   *)
(***************************************************************************)
\* Mutation: no branch for the group, which the error still promises.
parseTypeStmtNoGroup(p) ==
    IF p.k \in Idents THEN <<Mark("type", "open"), CallIn("typeExpr", "type")>> ELSE Unexpected({"("} \cup Idents)

parseTypeStmt(p) ==
    CASE p.k = "(" -> <<Mark("group", "open"), Call("typeGroup")>>
      [] p.k \in Idents -> <<Mark("type", "open"), CallIn("typeExpr", "type")>>
      [] OTHER -> Unexpected({"("} \cup Idents)

parseTypeGroupStmt ==
    <<Eat({"("}, "group", "lparen"), Expect({")"} \cup Idents), Call("typeExprs"), Eat({")"}, "group", "rparen")>>

parseTypeExprList(c, p) ==
    If(c.k # "EOF" /\ p.k \notin {")", "EOF"},
       <<CallIn("typeExpr", "group"), Expect({")"} \cup Idents), Call("typeExprs")>>)

parseTypeExpr(unit) ==
    <<Eat(Idents, unit, "type"), Call("keyword"), CallIn("assign", unit), CallAt("dataType", unit, <<>>)>>

parseAssign(p, unit) == If(p.k = "=", <<Eat({"="}, unit, "assign")>>)

curTokenIsKeyword(c) == If(c.k \in Keywords, <<Reject>>)

parseDataType(p, unit, at) ==
    CASE p.k = "any" -> <<EatIn({"any"}, unit, "base", at)>>
      [] p.k = "{" -> <<CallAt("struct", unit, at)>>
      [] p.k = "map" -> <<CallAt("map", unit, at)>>
      [] p.k \in Idents \ {"any", "map"} -> <<EatIn(Idents, unit, "base", at), Call("keyword")>>
      [] p.k = "[" -> <<EatIn({"["}, unit, "prefix", at), CallAt("list", unit, at)>>
      [] p.k = "any{}" -> <<EatIn({"any{}"}, unit, "base", at)>>
      [] p.k = "*" -> <<CallAt("pointer", unit, at)>>
      [] OTHER -> Unexpected({"{"} \cup Types)

parseMapDataType(unit, at) ==
    <<EatIn({"map"}, unit, "prefix", at), EatIn({"["}, unit, "inner", at), CallAt("dataType", unit, at \o <<"mapKey">>),
      EatIn({"]"}, unit, "inner", at), CallAt("dataType", unit, at \o <<"mapValue">>)>>

parsePointerDataType(unit, at) ==
    <<EatIn({"*"}, unit, "prefix", at), Expect(Types), CallAt("dataType", unit, at \o <<"pointer">>)>>

\* A slice or an array.
parseListDataType(p, unit, at) ==
    CASE p.k = "]" -> <<EatIn({"]"}, unit, "inner", at), CallAt("dataType", unit, at \o <<"slice">>)>>
      [] p.k \in {"int", "..."} -> <<EatIn({"int", "..."}, unit, "inner", at), EatIn({"]"}, unit, "inner", at),
                                     CallAt("dataType", unit, at \o <<"array">>)>>
      [] OTHER -> Unexpected({"]", "int", "..."})

parseStructDataType(unit, at) ==
    <<EatIn({"{"}, unit, "lbrace", at), Expect({"*", "}"} \cup Idents), CallIn("elems", unit),
      EatIn({"}"}, unit, "rbrace", at)>>

parseElemExprList(c, p, unit) ==
    If(c.k # "EOF" /\ p.k \notin {"}", "EOF"},
       <<Expect({"*", "}"} \cup Idents), Skip({"*"} \cup Idents), CallIn("elem", unit), CallIn("tag", unit),
         Expect({"*", "}"} \cup Idents), CallIn("elems", unit)>>)

\* A name alone on its line, or before a tag, is an embedded type.
parseElemExpr(c, p, unit) ==
    CASE c.k \in Keywords -> <<Reject>>
      [] c.k = "*" -> <<MarkIn(unit, "star", <<>>), EatIn(Idents, unit, "base", <<"pointer">>)>>
      [] c.k \notin Keywords \cup {"*"} /\ (p.nl \/ p.k = "raw") -> <<MarkIn(unit, "embedded", <<>>)>>
      [] OTHER -> <<Mark(unit, "field"), Expect({",", "{"} \cup Types), CallIn("fields", unit),
                    CallAt("dataType", unit, <<>>)>>

parseFields(p, unit) ==
    If(p.k = ",", <<Eat({","}, unit, "comma"), Eat(Idents, unit, "more"), Call("keyword"), CallIn("fields", unit)>>)

parseTag(p, unit) ==
    <<Expect({"raw", "*", "}"} \cup Idents)>> \o If(p.k = "raw", <<Eat({"raw"}, unit, "tag")>>)
=============================================================================
