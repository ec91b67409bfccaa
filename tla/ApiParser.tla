------------------------------ MODULE ApiParser -----------------------------
(***************************************************************************)
(* The parser of one api file and its formatter: parser.Parse reads the    *)
(* tokens one ahead, and format.Source prints the tree, which is then read *)
(* again.  The first file is any sequence of tokens, chosen one by one as  *)
(* the parser asks for them; the second is what the formatter printed.     *)
(***************************************************************************)
EXTENDS ApiGrammar, ApiFormat, FiniteSets

CONSTANTS
    Families,   \* the parts of the language that are explored
    Lead,       \* for each, the tokens its files begin with,
    Alphabet,   \* the tokens that may follow,
    MaxTokens,  \* how many of them,
    MaxComments \* and how many line comments among them

ASSUME FamiliesAssumption ==
    /\ Families # {} /\ IsFiniteSet(Families)
    /\ \A f \in Families : MaxTokens[f] \in Nat /\ MaxComments[f] \in Nat

VARIABLES
    family,     \* which part of the language this file belongs to
    pass,       \* 1 for the file, 2 for the formatted file
    text,       \* tokens of the file that are given
    room,       \* how many tokens may still be chosen
    comments,   \* how many comments may still be chosen
    cur,        \* curTok
    peek,       \* peekTok
    stack,      \* what is left of the functions on the call stack
    tree,       \* the tokens the tree consists of
    errors,     \* whether an error is recorded
    result,     \* "none", "ast", "nil", "panic" or "unprintable"
    calls,      \* functions called since the last token
    first       \* the tree of the file, and what was printed of it

vars == <<family, pass, text, room, comments, cur, peek, stack, tree, errors, result, calls, first>>

NoToken == [k |-> "none", nl |-> FALSE, head |-> FALSE, tail |-> FALSE]

EofToken == [k |-> "EOF", nl |-> FALSE, head |-> FALSE, tail |-> FALSE]

InitSteps == <<Op("next", {}, "", "", <<>>), Op("next", {}, "", "", <<>>), Call("parse")>>

Init ==
    /\ family \in Families
    /\ pass = 1
    /\ text = [i \in DOMAIN Lead[family] |-> [NoToken EXCEPT !.k = Lead[family][i]]]
    /\ room = MaxTokens[family]
    /\ comments = MaxComments[family]
    /\ cur = NoToken /\ peek = NoToken
    /\ stack = InitSteps
    /\ tree = <<>>
    /\ errors = FALSE
    /\ result = "none"
    /\ calls = 0
    /\ first = [tree |-> <<>>, text |-> <<>>]

(***************************************************************************)
(* What the scanner may give next.  tail is a comment behind the token     *)
(* that becomes the current one, head a comment on a line of its own.      *)
(* Whether the next token is on the same line matters only after the first *)
(* identifier of a field.                                                  *)
(***************************************************************************)
Marks ==
    LET lines == IF stack[1].op = "skip" /\ "*" \in stack[1].set THEN BOOLEAN ELSE {FALSE} IN
    {[nl |-> b, head |-> FALSE, tail |-> FALSE] : b \in lines} \cup
    IF comments = 0 THEN {}
    ELSE {[nl |-> TRUE, head |-> h, tail |-> ~h] : h \in IF peek.k = "none" THEN {TRUE} ELSE BOOLEAN}

Scanned ==
    IF text # <<>> THEN {text[1]}
    ELSE IF pass = 2 THEN {EofToken}
    ELSE {[k |-> k, nl |-> m.nl, head |-> m.head, tail |-> m.tail] :
             k \in {"EOF"} \cup IF room = 0 THEN {} ELSE Alphabet[family], m \in Marks}

Node(s, tok) == [unit |-> s.unit, part |-> s.part, at |-> s.at, k |-> tok.k, head |-> tok.head, tail |-> tok.tail]

\* nextToken.  The comments before the end of the file become statements.
AtEof ==
    /\ peek.k = "EOF"
    /\ cur' = peek
    /\ peek' = [EofToken EXCEPT !.nl = peek.nl]
    /\ calls' = IF cur.k = "EOF" THEN calls ELSE 0
    /\ UNCHANGED <<text, room, comments, errors>>

\* The token ahead becomes the current one.
Taken(tok) == [k |-> peek.k, nl |-> peek.nl, head |-> peek.head, tail |-> tok.tail]

Scan(tok) ==
    /\ peek.k # "EOF"
    /\ cur' = Taken(tok)
    /\ peek' = [k |-> tok.k, nl |-> tok.nl, head |-> tok.head, tail |-> FALSE]
    /\ text' = IF text = <<>> THEN text ELSE Tail(text)
    /\ room' = IF text = <<>> /\ room > 0 THEN room - 1 ELSE room
    /\ comments' = IF text = <<>> /\ (tok.head \/ tok.tail) THEN comments - 1 ELSE comments
    /\ errors' = (errors \/ tok.k = "error")
    /\ calls' = 0

Comments == IF peek.k = "EOF" /\ peek.head THEN <<Node(Op("", {}, "comment", "", <<>>), peek)>> ELSE <<>>

(***************************************************************************)
(* One step of the function on top of the stack                            *)
(***************************************************************************)
Top == stack[1]

Running == result = "none" /\ stack # <<>>

ReturnNil ==
    /\ result' = "nil"
    /\ stack' = <<>> /\ tree' = <<>>

\* nextToken, and what the caller does with its result: give up, or go on.
Move(kept(_)) ==
    \/ AtEof /\ tree' = kept(peek) \o Comments /\ stack' = Tail(stack) /\ UNCHANGED result
    \/ \E tok \in Scanned :
          /\ Scan(tok)
          /\ IF tok.k = "error" /\ Top.op # "advance" THEN ReturnNil
             ELSE tree' = kept(Taken(tok)) /\ stack' = Tail(stack) /\ UNCHANGED result

Unlabelled(tok) == tree

Labelled(tok) == Append(tree, Node(Top, tok))

NextToken ==
    /\ Running /\ Top.op = "next"
    /\ Move(Unlabelled)
    /\ UNCHANGED <<family, pass, first>>

AdvanceUnchecked ==
    /\ Running /\ Top.op = "advance"
    /\ Move(Labelled)
    /\ UNCHANGED <<family, pass, first>>

advanceIfPeekTokenIs ==
    /\ Running /\ Top.op \in {"eat", "skip"}
    /\ peek.k \in Top.set
    /\ IF Top.op = "eat" THEN Move(Labelled) ELSE Move(Unlabelled)
    /\ UNCHANGED <<family, pass, first>>

curTokenNode ==
    /\ Running /\ Top.op \in {"mark", "bare"}
    /\ tree' = Append(tree, Node(Top, cur))
    /\ stack' = Tail(stack)
    /\ UNCHANGED <<family, pass, text, room, comments, cur, peek, errors, result, calls, first>>

expectPeekToken ==
    /\ Running /\ Top.op = "expect"
    /\ peek.k \in Top.set
    /\ stack' = Tail(stack)
    /\ UNCHANGED <<family, pass, text, room, comments, cur, peek, tree, errors, result, calls, first>>

\* The ways a function records an error and returns nil.
SyntaxError ==
    /\ Running
    /\ \/ Top.op \in {"eat", "skip", "expect"} /\ peek.k \notin Top.set
       \/ Top.op = "reject"
    /\ errors' = TRUE
    /\ ReturnNil
    /\ UNCHANGED <<family, pass, text, room, comments, cur, peek, calls, first>>

UnexpectedToken ==
    /\ Running /\ Top.op = "unexpected"
    /\ errors' = (errors \/ peek.k \notin Top.set)
    /\ ReturnNil
    /\ UNCHANGED <<family, pass, text, room, comments, cur, peek, calls, first>>

IndexOutOfRange ==
    /\ Running /\ Top.op = "panic"
    /\ result' = "panic" /\ stack' = <<>>
    /\ UNCHANGED <<family, pass, text, room, comments, cur, peek, tree, errors, calls, first>>

Body(f, u, at) ==
    CASE f = "parse" -> Parse(cur) [] f = "stmt" -> parseStmt(cur)
      [] f = "syntax" -> parseSyntaxStmt [] f = "info" -> parseInfoStmt
      [] f = "pairs" -> parsePairs(cur, peek, u) [] f = "pair" -> parseKVExpression(u)
      [] f = "import" -> parseImportStmt(peek) [] f = "importLiteral" -> parseImportLiteralStmt
      [] f = "importGroup" -> parseImportGroupStmt [] f = "imports" -> parseImports(cur, peek)
      [] f = "service" -> parseService(cur) [] f = "serviceName" -> parseServiceNameExpr(peek)
      [] f = "server" -> parseAtServerStmt [] f = "serverPairs" -> parseServerPairs(cur, peek)
      [] f = "serverPair" -> parseAtServerKVExpression [] f = "serverValue" -> parseServerValue(peek)
      [] f = "valueRest" -> parseValueRest(peek) [] f = "commas" -> parseCommas(peek)
      [] f = "dashes" -> parseDashes(peek) [] f = "valuePath" -> parseValuePath(peek)
      [] f = "valueDash" -> parseValueDash(peek) [] f = "items" -> parseServiceItemsStmt(cur, peek)
      [] f = "itemsRest" -> parseItemsRest(peek) [] f = "item" -> parseServiceItemStmt(peek)
      [] f = "itemRest" -> parseItemRest(peek) [] f = "doc" -> parseAtDocStmt(peek)
      [] f = "docGroup" -> parseAtDocGroupStmt [] f = "docLiteral" -> parseAtDocLiteralStmt
      [] f = "route" -> parseRouteStmt [] f = "request" -> parseRequest(peek)
      [] f = "response" -> parseResponse(peek) [] f = "routeEnd" -> parseRouteEnd(peek)
      [] f = "body" -> parseBodyStmt(u) [] f = "bodyRest" -> parseBodyExpr(peek, u)
      [] f = "bodyElem" -> parseBodyElem(peek, u) [] f = "path" -> parsePathExpr(cur, peek)
      [] f = "segment" -> parseSegment [] f = "segmentRest" -> parseSegmentRest(cur, peek)
      [] f = "segments" -> parseSegments(cur, peek) [] f = "pathItem" -> parsePathItem(cur, peek)
      [] f = "types" -> parseTypeStmt(peek) [] f = "typeGroup" -> parseTypeGroupStmt
      [] f = "typeExprs" -> parseTypeExprList(cur, peek) [] f = "typeExpr" -> parseTypeExpr(u)
      [] f = "assign" -> parseAssign(peek, u) [] f = "keyword" -> curTokenIsKeyword(cur)
      [] f = "dataType" -> parseDataType(peek, u, at) [] f = "map" -> parseMapDataType(u, at)
      [] f = "pointer" -> parsePointerDataType(u, at) [] f = "list" -> parseListDataType(peek, u, at)
      [] f = "struct" -> parseStructDataType(u, at) [] f = "elems" -> parseElemExprList(cur, peek, u)
      [] f = "elem" -> parseElemExpr(cur, peek, u) [] f = "fields" -> parseFields(peek, u)
      [] f = "tag" -> parseTag(peek, u)

CallFunction ==
    /\ Running /\ Top.op = "call"
    /\ stack' = Body(Top.part, Top.unit, Top.at) \o Tail(stack)
    /\ calls' = calls + 1
    /\ UNCHANGED <<family, pass, text, room, comments, cur, peek, tree, errors, result, first>>

ReturnAst ==
    /\ result = "none" /\ stack = <<>>
    /\ result' = "ast"
    /\ UNCHANGED <<family, pass, text, room, comments, cur, peek, stack, tree, errors, calls, first>>

(***************************************************************************)
(* format.Source: the tree is printed when no error is recorded.           *)
(***************************************************************************)
Format ==
    /\ result = "ast" /\ pass = 1 /\ ~errors
    /\ IF Unprintable(tree)
       THEN result' = "unprintable" /\ UNCHANGED <<pass, text, room, cur, peek, stack, tree, calls, first>>
       ELSE /\ first' = [tree |-> tree, text |-> Formatted(tree)]
            /\ pass' = 2
            /\ text' = Formatted(tree)
            /\ room' = 0
            /\ cur' = NoToken /\ peek' = NoToken
            /\ stack' = InitSteps
            /\ tree' = <<>>
            /\ result' = "none"
            /\ calls' = 0
    /\ UNCHANGED <<family, comments, errors>>

Next ==
    \/ NextToken \/ AdvanceUnchecked \/ advanceIfPeekTokenIs \/ curTokenNode \/ expectPeekToken
    \/ SyntaxError \/ UnexpectedToken \/ IndexOutOfRange \/ CallFunction \/ ReturnAst \/ Format

Spec == Init /\ [][Next]_vars

(***************************************************************************)
(* Properties                                                              *)
(***************************************************************************)
\* Callers of Parse ask CheckErrors alone: a parse that gives up (whichever of the
\* functions returned nil first) has recorded an error, and a parse that gives a tree
\* has recorded none, also when a scan failed and nobody looked at the result.
NilHasError ==
    /\ result = "nil" => errors
    /\ result = "ast" => ~errors

\* The brackets of an accepted file match, unless a closing brace stood for the
\* @handler after a @doc (parseServiceItemStmt).
Opening == [x \in {")", "]", "}"} |-> CASE x = ")" -> "(" [] x = "]" -> "[" [] x = "}" -> "{"]

Brackets(open, n) ==
    IF n.k \in {"(", "[", "{"} THEN Append(open, n.k)
    ELSE IF n.k \notin DOMAIN Opening \/ n.unit = "item" THEN open
    ELSE IF open # <<>> /\ open[Len(open)] = Opening[n.k] THEN SubSeq(open, 1, Len(open) - 1)
    ELSE Append(open, n.k)

BraceForHandler(t) == \E i \in DOMAIN t : t[i].unit = "handler" /\ t[i].k = "}"

\* The brackets that are open after the tokens of a tree.
OpenAfter(t) ==
    LET open[i \in 0..Len(t)] == IF i = 0 THEN <<>> ELSE Brackets(open[i - 1], t[i]) IN open[Len(t)]

BracketsMatch == result = "ast" => OpenAfter(tree) = <<>> \/ BraceForHandler(tree)

\* The two places where Format puts text behind a line comment.
SwallowsCode(t) ==
    \E i \in DOMAIN t :
        /\ t[i].tail
        /\ \/ t[i].unit = "service" /\ t[i].part = "lbrace" /\ Empty(t, i)
           \/ "mapKey" \in ToSet(t[i].at)

\* Formatting changes no meaning: wherever comments stand and lines end, what Format
\* prints is accepted and is read as what was printed.
FormatKeepsMeaning ==
    pass = 2 /\ result # "none" /\ ~SwallowsCode(first.tree) /\ ~BraceForHandler(first.tree) =>
        result = "ast" /\ Meaning(tree) = Meaning(first.tree)

\* An empty reply is not printed; the comment above the parenthesis that closes the
\* request is kept while there is a reply, and lost when the file is formatted again.
DropsReply(t) == \E i \in DOMAIN t : t[i].unit = "response" /\ IsZero(t, i)

\* Formatting a formatted file changes nothing: every comment that was kept hangs on
\* the token it was printed with, and is kept again.  Where a comment broke a line and
\* was not printed, the line break goes after it: then the file is what would have been
\* printed at first without the comments that are lost.
FormatSettles ==
    pass = 2 /\ result = "ast" /\ ~SwallowsCode(first.tree) =>
        \/ SwallowsCode(tree) \/ DropsReply(first.tree)
        \/ Formatted(tree) = IF \E i \in DOMAIN first.tree : BreaksLine(first.tree, i)
                            THEN Formatted(WithoutLost(first.tree)) ELSE first.text

\* format.File replaces the file by what Format printed; it can be formatted again.
FormattedParses == pass = 2 => result # "nil"

\* Every loop of the parser eats: between two tokens, and after the last one, only so
\* many functions are called, so that every file is parsed to an end.
MaxCalls == 8

LoopsEat == calls <= MaxCalls
=============================================================================
