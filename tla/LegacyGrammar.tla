--------------------------- MODULE LegacyGrammar ---------------------------
(***************************************************************************)
(* The grammar of api files that the ANTLR parser of api/parser/g4 was     *)
(* generated from, and the actions of baseparser.go that stand between its *)
(* tokens.  A rule is the sequence of its elements; gen/api holds, for     *)
(* each, the function that runs it and the context that keeps its parts.   *)
(*                                                                         *)
(* A token is written as the text of the file, with names of one letter or *)
(* two for the identifiers that mean nothing to the parser, strings in     *)
(* single quotes, ~x for a raw string, :x for a colon with the rest of the *)
(* line.                                                                   *)
(***************************************************************************)
EXTENDS Naturals, Sequences

GoKeywords == {"import", "type", "struct", "map", "func"}

Basic == {"int"}

\* net/http, in lower case.
Methods == {"get", "post"}

Names == {"T", "U", "h", "k", "p", "s", "x", "group", "prefix", "handler"}

Idents == GoKeywords \cup Basic \cup Methods \cup Names \cup {"syntax", "info", "service"}

Versions == {"'v1'", "'v2'"}

ApiFiles == {"'root'", "'a'", "'b'", "'gone'"}

Strings == Versions \cup ApiFiles \cup {"'x'"}

RawStrings == {"~tag", "~raw"}

LineValues == {":", ":h", ":h-", ":k", ":k//", ":x", ":/p"}

Digits == {"1"}

(***************************************************************************)
(* Elements of a rule                                                      *)
(***************************************************************************)
Elem(op, set, name, alts) == [op |-> op, set |-> set, name |-> name, alts |-> alts]

\* p.Match: a token of the set is next.
Tok(set) == Elem("tok", set, "", <<>>)

\* A call of the function of another rule.
Rule(name) == Elem("rule", {}, name, <<>>)

\* One of these, told by the next token.
OneOf(alts) == Elem("alt", {}, "", alts)
Maybe(es) == OneOf(<<es, <<>>>>)

\* AdaptivePredict: one of these, told by as many tokens as it takes.
Predicted(alts) == Elem("predict", {}, "", alts)

\* And with a predicate before the first of them.
If(predicate, alts) == Elem("predict", {}, predicate, alts)

\* A loop.
Star(es) == Elem("star", {}, "", es)
Plus(es) == es \o <<Star(es)>>

\* An action that tells the error listeners unless the token ahead is in the set;
\* no prediction sees it.
Must(set) == Elem("must", set, "", <<>>)

match(text) == <<Must({text})>>
checkVersion == <<Must(Versions)>>
checkImportValue == <<Must(ApiFiles)>>
checkHTTPMethod == <<Must(Methods)>>
checkKeyword == <<Must(Idents \ GoKeywords)>>
checkKey == <<Must(Basic)>>
isInterface == checkKeyword

\* checkKeyValue takes the colon from the token.
checkKeyValue(token) ==
    CASE token = ":" -> "" [] token = ":h" -> "h" [] token = ":h-" -> "h-" [] token = ":k" -> "k"
      [] token = ":k//" -> "k//" [] token = ":x" -> "x" [] token = ":/p" -> "/p"

ID == <<Tok(Idents)>>
Lit(text) == <<Tok({text})>>

(***************************************************************************)
(* Declarations                                                            *)
(***************************************************************************)
\* Nothing asks for the end of the file.
api == <<Star(<<Rule("spec")>>)>>

spec ==
    <<Predicted(<<<<Rule("syntaxLit")>>, <<Rule("importSpec")>>, <<Rule("infoSpec")>>, <<Rule("typeSpec")>>,
                  <<Rule("serviceSpec")>>>>)>>

\* The tokens at which the loop over the declarations goes on.
SpecFirst == Idents \cup {"@server"}

syntaxLit == match("syntax") \o ID \o Lit("=") \o checkVersion \o <<Tok(Strings)>>

importSpec == <<Predicted(<<<<Rule("importLit")>>, <<Rule("importBlock")>>>>)>>

importLit == match("import") \o ID \o <<Rule("importValue")>>

importBlock == match("import") \o ID \o Lit("(") \o Plus(<<Rule("importBlockValue")>>) \o Lit(")")

importBlockValue == <<Rule("importValue")>>

importValue == checkImportValue \o <<Tok(Strings)>>

infoSpec == match("info") \o ID \o Lit("(") \o Plus(<<Rule("kvLit")>>) \o Lit(")")

kvLit == ID \o <<Tok(LineValues)>>

(***************************************************************************)
(* Types                                                                   *)
(***************************************************************************)
typeSpec == <<Predicted(<<<<Rule("typeLit")>>, <<Rule("typeBlock")>>>>)>>

typeLit == match("type") \o ID \o <<Rule("typeLitBody")>>

typeBlock == match("type") \o ID \o Lit("(") \o <<Star(<<Rule("typeBlockBody")>>)>> \o Lit(")")

typeLitBody == <<Predicted(<<<<Rule("typeStruct")>>, <<Rule("typeAlias")>>>>)>>

typeBlockBody == <<Predicted(<<<<Rule("typeBlockStruct")>>, <<Rule("typeBlockAlias")>>>>)>>

typeStruct == checkKeyword \o ID \o <<Maybe(ID)>> \o Lit("{") \o <<Star(<<Rule("field")>>)>> \o Lit("}")

typeAlias == checkKeyword \o ID \o <<Maybe(Lit("="))>> \o <<Rule("dataType")>>

typeBlockStruct == checkKeyword \o ID \o <<Maybe(ID)>> \o Lit("{") \o <<Star(<<Rule("field")>>)>> \o Lit("}")

typeBlockAlias == checkKeyword \o ID \o <<Maybe(Lit("="))>> \o <<Rule("dataType")>>

field == <<If("isNormal", <<<<Rule("normalField")>>, <<Rule("anonymousFiled")>>>>)>>

normalField == checkKeyword \o ID \o <<Rule("dataType")>> \o <<Maybe(<<Tok(RawStrings)>>)>>

anonymousFiled == <<Maybe(Lit("*"))>> \o ID

dataType ==
    <<Predicted(<<isInterface \o ID, <<Rule("mapType")>>, <<Rule("arrayType")>>, Lit("interface{}"), Lit("time.Time"),
                  <<Rule("pointerType")>>, <<Rule("typeStruct")>>>>)>>

pointerType == Lit("*") \o checkKeyword \o ID

mapType == match("map") \o ID \o Lit("[") \o checkKey \o ID \o Lit("]") \o <<Rule("dataType")>>

arrayType == Lit("[") \o Lit("]") \o <<Rule("dataType")>>

(***************************************************************************)
(* Services                                                                *)
(***************************************************************************)
serviceSpec == <<Maybe(<<Rule("atServer")>>), Rule("serviceApi")>>

atServer == Lit("@server") \o Lit("(") \o Plus(<<Rule("kvLit")>>) \o Lit(")")

serviceApi ==
    match("service") \o ID \o <<Rule("serviceName")>> \o Lit("{") \o <<Star(<<Rule("serviceRoute")>>)>> \o Lit("}")

serviceRoute == <<Maybe(<<Rule("atDoc")>>), OneOf(<<<<Rule("atServer")>>, <<Rule("atHandler")>>>>), Rule("route")>>

atDoc == Lit("@doc") \o <<Maybe(Lit("(")), OneOf(<<Plus(<<Rule("kvLit")>>), <<Tok(Strings)>>>>), Maybe(Lit(")"))>>

atHandler == Lit("@handler") \o ID

route == checkHTTPMethod \o ID \o <<Rule("path"), Maybe(<<Rule("body")>>), Maybe(<<Rule("replybody")>>)>>

body == Lit("(") \o <<Maybe(ID)>> \o Lit(")")

replybody == Lit("returns") \o Lit("(") \o <<Maybe(<<Rule("dataType")>>)>> \o Lit(")")

serviceName == Plus(ID \o <<Maybe(Lit("-"))>>)

path ==
    <<Predicted(<<Plus(<<OneOf(<<Lit("/") \o <<Rule("pathItem"), Star(Lit("-") \o <<Rule("pathItem")>>)>>,
                                 Lit("/:") \o <<Rule("pathItem"), Maybe(Lit("-") \o <<Rule("pathItem")>>)>>>>)>>),
                  Lit("/")>>)>>

pathItem == Plus(<<Tok(Idents \cup Digits)>>)

(***************************************************************************)
(* The functions of the parser by their names.                             *)
(***************************************************************************)
Grammar ==
    [api |-> api, spec |-> spec, syntaxLit |-> syntaxLit, importSpec |-> importSpec, importLit |-> importLit,
     importBlock |-> importBlock, importBlockValue |-> importBlockValue, importValue |-> importValue,
     infoSpec |-> infoSpec, kvLit |-> kvLit, typeSpec |-> typeSpec, typeLit |-> typeLit, typeBlock |-> typeBlock,
     typeLitBody |-> typeLitBody, typeBlockBody |-> typeBlockBody, typeStruct |-> typeStruct, typeAlias |-> typeAlias,
     typeBlockStruct |-> typeBlockStruct, typeBlockAlias |-> typeBlockAlias, field |-> field,
     normalField |-> normalField, anonymousFiled |-> anonymousFiled, dataType |-> dataType,
     pointerType |-> pointerType, mapType |-> mapType, arrayType |-> arrayType, serviceSpec |-> serviceSpec,
     atServer |-> atServer, serviceApi |-> serviceApi, serviceRoute |-> serviceRoute, atDoc |-> atDoc,
     atHandler |-> atHandler, route |-> route, body |-> body, replybody |-> replybody, serviceName |-> serviceName,
     path |-> path, pathItem |-> pathItem]
=============================================================================
