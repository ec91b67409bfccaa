---- MODULE MCApiParser ----
(***************************************************************************)
(* The files that are explored: each family begins with given tokens and   *)
(* goes on with any of its alphabet, so that every function of the parser  *)
(* meets every token it distinguishes.                                     *)
(***************************************************************************)
EXTENDS ApiParser

Service == <<"service", "name", "{">>
Route == Service \o <<"@handler", "name", "get">>

MCLead ==
    [path |-> Route, body |-> Route \o <<"/">>, bodyNotes |-> Route \o <<"/", "(">>, pathNotes |-> Route \o <<"/">>,
     items |-> Service, service |-> <<"service">>, server |-> <<"@server", "(">>, serverNotes |-> <<"@server", "(", "name", ":">>,
     types |-> <<"type", "name">>, fields |-> <<"type", "name", "{">>, group |-> <<"type", "(">>,
     blocks |-> <<>>, keys |-> <<"type", "name", "map", "[">>]

MCAlphabet ==
    [path |-> {"/", "name", ":", "int", "-", ".", "(", ";", "}", "@doc", "error"},
     body |-> {"(", ")", "[", "]", "*", "name", "returns", ";", "}"},
     bodyNotes |-> {"(", ")", "[", "]", "name", "returns", "}"},
     pathNotes |-> {"(", ")", "*", "name", "returns", "}"},
     items |-> {"@doc", "str", "nostr", "(", ")", "@handler", "name", "get", "/", "}", "{", "service"},
     service |-> {"name", "-", "api", "{", "}", "@handler", "get", "/"},
     server |-> {"name", ":", "/", ",", "-", "duration", "nostr", ")", "service", "{", "}"},
     serverNotes |-> {"name", "/", ",", "-", ")", "service", "{", "}"},
     types |-> {"name", "{", "}", "[", "]", "int", "*", "map", "any", "any{}", "=", "func"},
     fields |-> {"name", "}", "{", "*", "[", "]", ",", "raw", "func"},
     group |-> {"name", ")", "{", "}", "=", "type", "*"},
     blocks |-> {"syntax", "=", "str", "nostr", "info", "(", ")", ":", "import", "raw", "name", "ILLEGAL", "error"},
     keys |-> {"name", "[", "]", "*", "{", "}"}]

MCMaxTokens ==
    [path |-> 5, body |-> 8, bodyNotes |-> 7, pathNotes |-> 7, items |-> 8, service |-> 7, server |-> 8, serverNotes |-> 8,
     types |-> 5, fields |-> 6, group |-> 6, blocks |-> 5, keys |-> 5]

MCMaxComments ==
    [f \in DOMAIN MCLead |-> CASE f \in {"body", "items", "server"} -> 0 [] f = "pathNotes" -> 2 [] OTHER -> 1]

MCFamilies == DOMAIN MCLead
====
