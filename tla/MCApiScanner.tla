---- MODULE MCApiScanner ----
(***************************************************************************)
(* The texts that are explored: an alphabet for each function of the       *)
(* scanner, with the characters it tells apart.                            *)
(***************************************************************************)
EXTENDS ApiScanner

MCLead ==
    [documents |-> <<"/">>, strings |-> <<>>, dots |-> <<>>, durations |-> <<"1">>, ats |-> <<>>,
     idents |-> <<>>, lines |-> <<>>]

MCAlphabet ==
    [documents |-> {"/", "*", "a", "nl"},
     strings |-> {"quote", "raw", "a", "nl", "/", "nul"},
     dots |-> {".", "a", "-", " "},
     durations |-> {"1", "n", "u", "m", "s", "h"},
     ats |-> {"@", "handler", "server", "doc", "a", " ", "nul"},
     idents |-> {"interface", "{", "}", "_", "1", "a"},
     lines |-> {"nl", "raw", "a", "/", " "}]

MCLength == [documents |-> 7, strings |-> 5, dots |-> 6, durations |-> 6, ats |-> 4, idents |-> 5, lines |-> 6]

MCFamilies == DOMAIN MCLead
====
