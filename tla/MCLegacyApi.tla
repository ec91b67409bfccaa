---- MODULE MCLegacyApi ----
(***************************************************************************)
(* Files typed token by token, a part of the language each, and small      *)
(* worlds of three files that import one another.                          *)
(***************************************************************************)
EXTENDS LegacyApi

Struct == <<"type", "T", "struct", "{">>
Handler == <<"service", "s", "{", "@handler", "h">>
Reply == Handler \o <<"get", "/", "returns", "(">>

MCLead ==
    [blocks |-> <<>>, types |-> <<"type">>, group |-> <<"type", "(">>, fields |-> Struct, line |-> Struct \o <<"nl">>,
     kinds |-> Struct \o <<"T">>, maps |-> Struct \o <<"T", "map", "[">>, service |-> <<"service">>, routes |-> <<"service", "s", "{">>,
     server |-> <<"service", "s", "{", "@server", "(", "handler">>, path |-> Handler \o <<"get">>, reply |-> Reply]

MCAlphabet ==
    [blocks |-> {"syntax", "=", "'v1'", "import", "(", ")", "info", "k", ":x", "'a'", "@server"},
     types |-> {"T", "U", "=", "{", "}", "struct", "int"},
     group |-> {"T", "U", "struct", "{", "}", "=", ")"},
     fields |-> {"T", "}", "nl", "~tag", "*", "int"},
     line |-> {"T", "}", "nl", "//", "*", "func"},
     maps |-> {"int", "T", "[", "]", "*", "}"},
     kinds |-> {"[", "]", "*", "func", "int", "T", "interface{}", "time.Time", "~raw", "}"},
     service |-> {"s", "-", "{", "}", "@handler", "h", "get", "/"},
     routes |-> {"@doc", "'x'", "(", ")", "k", ":k//", "@handler", "h", "get", "/", "}"},
     server |-> {"k", ":h", ":h-", ")", "get", "/", "}"},
     path |-> {"/", "/:", "x", "1", "-", ".", "(", ")", "int", "}"},
     reply |-> {"[", "]", "*", "int", "T", ")", "}"}]

MCMaxTokens ==
    [blocks |-> 4, types |-> 5, group |-> 5, fields |-> 5, line |-> 5, kinds |-> 4, maps |-> 4, service |-> 5, routes |-> 4, server |-> 5,
     path |-> 4, reply |-> 5]

MCFamilies == DOMAIN MCLead

\* The parts of the files of a world: what a file imports, and what it declares.
ImportParts ==
    [none |-> <<>>, a |-> <<"import", "'a'">>, b |-> <<"import", "'b'">>, root |-> <<"import", "'root'">>,
     ab |-> <<"import", "(", "'a'", "'b'", ")">>, gone |-> <<"import", "'gone'">>]

Get1 == <<"get", "/", "x", "}">>

BodyParts ==
    [empty |-> <<>>, v1 |-> <<"syntax", "=", "'v1'">>, v2 |-> <<"syntax", "=", "'v2'">>,
     T |-> <<"type", "T", "{", "nl", "x", "int", "nl", "}">>,
     usesT |-> <<"type", "U", "{", "nl", "x", "T", "nl", "}">>,
     plain |-> <<"service", "s", "{", "@handler", "h">> \o Get1,
     again |-> <<"service", "s", "{", "@handler", "h", "get", "/", "p", "}">>,
     other |-> <<"service", "x", "{", "@handler", "k", "post", "/", "x", "(", "T", ")", "}">>,
     grouped |-> <<"@server", "(", "group", ":k", "prefix", ":/p", ")", "service", "s", "{", "@handler", "h">> \o Get1,
     regrouped |-> <<"@server", "(", "group", ":k", ")", "service", "s", "{", "@handler", "h">> \o Get1,
     prefixed |-> <<"service", "s", "{", "@server", "(", "handler", ":k", ")", "get", "/", "p", "/", "x", "}">>,
     bare |-> <<"service", "s", "{", "@server", "(", "k", ":k", ")">> \o Get1]

Name(i, b) == i \o "." \o b

Pieces == {<<i, b>> : i \in DOMAIN ImportParts, b \in DOMAIN BodyParts}

MCCatalog ==
    [name \in {Name(p[1], p[2]) : p \in Pieces} |->
        LET p == CHOOSE q \in Pieces : Name(q[1], q[2]) = name
        IN ImportParts[p[1]] \o BodyParts[p[2]]]

MCWorlds ==
    {[file \in {"'root'", "'a'", "'b'"} |->
        CASE file = "'root'" -> Name(w[1], w[2]) [] file = "'a'" -> Name(w[3], w[4]) [] OTHER -> Name(w[5], w[6])] :
     w \in {"none", "ab", "a"} \X {"empty", "v1", "T", "usesT", "plain", "grouped", "bare"}
           \X {"none", "b", "root"} \X (DOMAIN BodyParts)
           \X {"none", "a", "root", "gone"} \X (DOMAIN BodyParts \ {"v1", "other"})}
====
