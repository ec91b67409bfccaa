----------------------------- MODULE ApiScanner -----------------------------
(***************************************************************************)
(* The scanner of api files, pkg/parser/api/scanner: one action for each   *)
(* branch of NextToken.  A text is a sequence of characters.  "a" stands   *)
(* for the letters that no function asks for and "-" for the signs that    *)
(* are a token of their own; the words handler, server, doc and interface  *)
(* stand for their letters, "u" for the sign of micro; "nul" is the rune   *)
(* 0, which the scanner also sees behind the end of the text.              *)
(***************************************************************************)
EXTENDS Integers, Sequences, SequencesExt

CONSTANTS
    Families,   \* the kinds of text that are explored
    Lead,       \* for each, what its texts begin with,
    Alphabet,   \* the characters that follow,
    Length      \* and at most how many of them

Words == {"handler", "server", "doc", "interface"}

isLetter == {"a", "n", "s", "m", "h"} \cup Words

isDigit == {"1"}

isIdentifierLetter == isLetter \cup {"_"}

isWhiteSpace == {" ", "nl"}

Signs == {"-", "*", "(", ")", "[", "]", "{", "}", ",", ":", ";", "="}

Characters == isIdentifierLetter \cup isDigit \cup isWhiteSpace \cup Signs \cup {"/", ".", "@", "quote", "raw", "u", "nul"}

ASSUME TextsAssumption ==
    \A f \in Families : Length[f] \in Nat /\ Lead[f] \in Seq(Characters) /\ Alphabet[f] \subseteq Characters

VARIABLES
    data,       \* the text
    position,   \* of the current character s.ch
    lines,      \* s.lines: where the newlines are that were skipped as white space
    tokens,     \* what NextToken has returned
    state       \* "scanning", "eof", "error", or "stuck" at a last @

vars == <<data, position, lines, tokens, state>>

Ch(i) == IF i \in DOMAIN data THEN data[i] ELSE "nul"

peekRune == Ch(position + 1)

\* The first place from i on, if only behind the end, with a character of a set.
FirstIn(i, set) == Min({j \in i..(Len(data) + 1) : Ch(j) \in set} \cup {Len(data) + 1})

\* The first place from i on that is behind all characters of a set.
Behind(i, set) == Min({j \in i..(Len(data) + 1) : Ch(j) \notin set} \cup {Len(data) + 1})

Init ==
    /\ \E f \in Families : \E n \in 0..Length[f] : \E rest \in [1..n -> Alphabet[f]] : data = Lead[f] \o rest
    /\ data # <<>>
    /\ position = 1
    /\ lines = <<0>>
    /\ tokens = <<>>
    /\ state = "scanning"

(***************************************************************************)
(* A token: its type, its first and last character, and its Position.      *)
(***************************************************************************)
\* Mutation: the column is counted from the last newline, whether it was counted or not.
newPositionInLine(p) ==
    [line |-> Len(lines), column |-> p - Max({0} \cup {i \in 1..p : Ch(i) = "nl"})]

newPosition(p) == [line |-> Len(lines), column |-> p - lines[Len(lines)]]

Token(type, from, to) == [type |-> type, from |-> from, to |-> to, pos |-> newPosition(from)]

Emit(type, from, to) ==
    /\ tokens' = Append(tokens, Token(type, from, to))
    /\ position' = to + 1
    /\ UNCHANGED <<data, lines, state>>

Fail ==
    /\ state' = "error"
    /\ UNCHANGED <<data, position, lines, tokens>>

Scanning == state = "scanning" /\ Ch(position) \notin isWhiteSpace

\* s.lines after the characters of a place up to another are skipped.
LinesAfter(from, to) ==
    LET read[i \in from..(Len(data) + 1)] ==
            IF i = from THEN lines
            ELSE IF Ch(i - 1) = "nl" THEN Append(read[i - 1], i - 1) ELSE read[i - 1]
    IN read[to]

skipWhiteSpace ==
    /\ state = "scanning" /\ Ch(position) \in isWhiteSpace
    /\ LET end == Behind(position, isWhiteSpace)
       IN /\ position' = end
          /\ lines' = LinesAfter(position, end)
    /\ UNCHANGED <<data, tokens, state>>

newToken ==
    /\ Scanning
    /\ \/ Ch(position) \in Signs
       \/ Ch(position) = "/" /\ peekRune \notin {"/", "*"}
    /\ Emit(Ch(position), position, position)

\* The branch of the dot: of two dots the first is read and forgotten.
Dots ==
    /\ Scanning /\ Ch(position) = "."
    /\ IF peekRune # "." THEN Emit(".", position, position)
       ELSE IF Ch(position + 2) # "." THEN Emit(".", position + 1, position + 1)
       ELSE Emit("...", position, position + 2)

(***************************************************************************)
(* Comments                                                                *)
(***************************************************************************)
scanLineComment ==
    /\ Scanning /\ Ch(position) = "/" /\ peekRune = "/"
    /\ Emit("COMMENT", position, FirstIn(position, {"nl", "nul"}) - 1)

\* No character leads back from halfClose to open.
DocumentMode(mode, c) ==
    CASE c = "/" /\ mode = "init" -> "halfOpen"
      [] c = "*" /\ mode = "halfOpen" -> "open"
      [] c = "*" /\ mode = "open" -> "halfClose"
      [] c = "/" /\ mode = "halfClose" -> "close"
      [] OTHER -> mode

ModeAt(from, to) == FoldLeft(DocumentMode, "init", SubSeq(data, from, to))

scanDocument ==
    /\ Scanning /\ Ch(position) = "/" /\ peekRune = "*"
    /\ LET nul == FirstIn(position, {"nul"})
           ends == {j \in position..(nul - 1) : ModeAt(position, j) = "close"}
       IN IF ends = {} THEN Fail ELSE Emit("DOCUMENT", position, Min(ends))

(***************************************************************************)
(* Literals, words and numbers                                             *)
(***************************************************************************)
scanString ==
    /\ Scanning
    /\ \E delim \in {"quote", "raw"} :
          /\ Ch(position) = delim
          /\ LET end == FirstIn(position + 1, {delim, "nul"})
             IN IF Ch(end) = "nul" THEN Fail ELSE Emit(delim, position, end)

scanAt ==
    /\ Scanning /\ Ch(position) = "@"
    /\ LET end == Behind(position + 1, isLetter)
           letters == SubSeq(data, position + 1, end - 1)
       IN IF peekRune \in isLetter
          THEN \/ letters \in {<<"handler">>, <<"server">>, <<"doc">>} /\ Emit(letters[1], position, end - 1)
               \/ letters \notin {<<"handler">>, <<"server">>, <<"doc">>} /\ Fail
          ELSE IF peekRune = "nul"
          THEN /\ tokens' = Append(tokens, Token("ILLEGAL", position, position))
               /\ state' = "stuck"
               /\ UNCHANGED <<data, position, lines>>
          ELSE Fail

\* Mutation: digits end an identifier.
scanIdentLetters ==
    /\ Scanning /\ Ch(position) \in isIdentifierLetter
    /\ Emit("IDENT", position, Behind(position, isIdentifierLetter) - 1)

scanIdent ==
    /\ Scanning /\ Ch(position) \in isIdentifierLetter
    /\ LET end == Behind(position, isIdentifierLetter \cup isDigit)
           ident == SubSeq(data, position, end - 1)
       IN IF ident = <<"interface">> /\ Ch(end) = "{" /\ Ch(end + 1) = "}"
          THEN Emit("ANY", position, end + 1)
          ELSE Emit("IDENT", position, end - 1)

(***************************************************************************)
(* scanIntOrDuration and the functions it hands over to, one state each:   *)
(* from the state and the character to the next state.                     *)
(***************************************************************************)
\* After minutes or seconds an m can only begin ms.
AfterM(q) == IF q \in {"int", "h#"} THEN "m" ELSE IF q \in {"m#", "s#"} THEN "mOnly" ELSE "illegal"

\* A unit that is complete, and the number behind it.
Counted == [h |-> "h#", m |-> "m#", s |-> "s#", ms |-> "ms#", us |-> "us#"]

DurationStep(q, c) ==
    CASE c \in isDigit ->
            IF q \in {"int", "h#", "m#", "s#", "ms#", "us#"} THEN q
            ELSE IF q \in DOMAIN Counted THEN Counted[q] ELSE "illegal"
      [] c = "n" -> IF q \in {"int", "h#", "m#", "s#", "ms#", "us#"} THEN "n" ELSE "illegal"
      [] c = "u" -> IF q \in {"int", "h#", "m#", "s#", "ms#"} THEN "u" ELSE "illegal"
      [] c = "m" -> AfterM(q)
      [] c = "s" -> CASE q \in {"int", "h#", "m#"} -> "s" [] q \in {"m", "mOnly"} -> "ms"
                      [] q = "n" -> "ns" [] q = "u" -> "us" [] OTHER -> "illegal"
      [] c = "h" -> IF q = "int" THEN "h" ELSE "illegal"
      [] OTHER -> "illegal"

Duration(from, to) ==
    LET read[j \in (from - 1)..(Len(data) + 1)] ==
            IF j < from THEN "int" ELSE DurationStep(read[j - 1], Ch(j))
    IN read[to]

Complete == {"ns", "us", "ms", "s", "m", "h"}

\* A duration ends where a complete unit is followed by neither digit nor, after a lone
\* m, by s; after nanoseconds nobody looks.
scanIntOrDuration ==
    /\ Scanning /\ Ch(position) \in isDigit
    /\ LET end == Behind(position, isDigit)
           Ends(j) ==
               /\ Duration(position, j) \in Complete
               /\ Ch(j + 1) \notin isDigit \/ Duration(position, j) = "ns"
               /\ ~(Duration(position, j) = "m" /\ Ch(j + 1) = "s")
           ends == {j \in end..Len(data) : Ends(j)}
           breaks == {j \in end..(Len(data) + 1) : Ch(j) = "nul" \/ Duration(position, j) = "illegal"}
       IN IF Ch(end) \notin {"n", "u", "m", "s", "h"} THEN Emit("INT", position, end - 1)
          ELSE IF ends # {} /\ (breaks = {} \/ Min(ends) < Min(breaks)) THEN Emit("DURATION", position, Min(ends))
          ELSE Emit("ILLEGAL", Min(breaks), Min(breaks))

(***************************************************************************)
(* The end, and characters no token begins with                            *)
(***************************************************************************)
Eof ==
    /\ Scanning /\ Ch(position) = "nul"
    /\ state' = "eof"
    /\ UNCHANGED <<data, position, lines, tokens>>

Illegal ==
    /\ Scanning /\ Ch(position) = "u"
    /\ Emit("ILLEGAL", position, position)

Next ==
    \/ skipWhiteSpace \/ newToken \/ Dots \/ scanLineComment \/ scanDocument \/ scanString
    \/ scanAt \/ scanIdent \/ scanIntOrDuration \/ Eof \/ Illegal

Spec == Init /\ [][Next]_vars

(***************************************************************************)
(* Properties                                                              *)
(***************************************************************************)
\* The parser cannot accept a text with an illegal token.
Legal == state = "eof" /\ \A k \in DOMAIN tokens : tokens[k].type # "ILLEGAL"

Of(type) == {k \in DOMAIN tokens : tokens[k].type = type}

Covered(i) == {k \in DOMAIN tokens : i \in tokens[k].from..tokens[k].to}

\* Each character up to the end of a text that can be accepted is white space or
\* belongs to one token, and a word is one token.  The exceptions: the first of two
\* dots, and what follows a rune 0.
NothingLost ==
    Legal =>
        /\ \A i \in 1..(position - 1) :
              \/ data[i] \in isWhiteSpace
              \/ \E k \in DOMAIN tokens : Covered(i) = {k}
              \/ data[i] = "." /\ Ch(i + 1) = "." /\ Covered(i) = {} /\ Ch(i + 2) # "."
        /\ \A k \in 1..(Len(tokens) - 1) :
              tokens[k].type = "IDENT" /\ tokens[k + 1].type \in {"IDENT", "INT"} =>
                  tokens[k].to + 1 < tokens[k + 1].from
        /\ position = Len(data) + 1 \/ data[position] = "nul"

\* Where the units of a duration end, and the unit that ends at a place.
UnitEnds(t) == {i \in t.from..t.to : data[i] \notin isDigit /\ (i = t.to \/ data[i + 1] \in isDigit)}

Unit(i) == IF data[i - 1] \in isDigit THEN <<data[i]>> ELSE <<data[i - 1], data[i]>>

UnitOrder == <<<<"h">>, <<"m">>, <<"s">>, <<"m", "s">>, <<"u", "s">>, <<"n", "s">>>>

Larger(u, v) == \E q, r \in DOMAIN UnitOrder : q < r /\ UnitOrder[q] = u /\ UnitOrder[r] = v

\* A timeout names each unit once, the larger before the smaller.
DurationsDescend ==
    \A k \in Of("DURATION") : \A i \in UnitEnds(tokens[k]) :
        /\ \E r \in DOMAIN UnitOrder : UnitOrder[r] = Unit(i)
        /\ \A j \in UnitEnds(tokens[k]) : i < j => Larger(Unit(i), Unit(j))

\* What was written is what is parsed: NextToken drops no character and splits no
\* word, and what it takes for a timeout is one.
ReadAsWritten == NothingLost /\ DurationsDescend

\* The parser keys the nodes of the tree by token: no two tokens of a text are at one
\* position, wherever the newlines stand that nobody counted.
TokensApart == \A k, l \in DOMAIN tokens : k # l => tokens[k].pos # tokens[l].pos
=============================================================================
