-------------------------- MODULE ApiScannerProofs --------------------------
(***************************************************************************)
(* The scanner drops no character, splits no word, takes only descending   *)
(* units for a timeout and gives each token a position of its own,         *)
(* whatever the text.                                                      *)
(***************************************************************************)
EXTENDS ApiScanner, SequenceTheorems, FiniteSetTheorems, TLAPS

Kinds ==
    Signs \cup {"/", ".", "...", "COMMENT", "DOCUMENT", "quote", "raw", "handler", "server", "doc",
                "ANY", "IDENT", "INT", "DURATION", "ILLEGAL"}

WordLetters == isIdentifierLetter \cup isDigit

TokenType == [type : Kinds, from : Nat, to : Nat, pos : [line : Nat, column : Int]]

TypeOK ==
    /\ data \in Seq(Characters)
    /\ position \in Nat \ {0}
    /\ lines \in Seq(Nat) /\ lines # <<>>
    /\ tokens \in Seq(TokenType)
    /\ state \in {"scanning", "eof", "error", "stuck"}

(***************************************************************************)
(* The invariant                                                           *)
(***************************************************************************)
\* A position counts from the beginning of a line, and lines stay where they are.
Placed ==
    \A k \in DOMAIN tokens :
        /\ tokens[k].pos.line \in DOMAIN lines
        /\ tokens[k].pos.column = tokens[k].from - lines[tokens[k].pos.line]

\* Tokens follow each other and lie before the current character.
Ordered ==
    /\ \A k \in DOMAIN tokens : tokens[k].from \in 1..tokens[k].to
    /\ \A k, l \in DOMAIN tokens : k < l => tokens[k].to < tokens[l].from
    /\ state # "stuck" => \A k \in DOMAIN tokens : tokens[k].to < position

\* A place that no token needs: white space, or the first of two dots.
Spare(i) ==
    \/ data[i] \in isWhiteSpace
    \/ /\ data[i] = "." /\ Ch(i + 1) = "." /\ Ch(i + 2) # "."
       /\ \A k \in DOMAIN tokens : i \notin tokens[k].from..tokens[k].to

\* As long as no token is illegal, what lies behind is accounted for.
Accounted ==
    (\A k \in DOMAIN tokens : tokens[k].type # "ILLEGAL") =>
        /\ position <= Len(data) + 1
        /\ \A i \in 1..(position - 1) : Spare(i) \/ \E k \in DOMAIN tokens : i \in tokens[k].from..tokens[k].to

\* Words begin with a letter or digit, and an identifier ends where these end.
WholeWords ==
    \A k \in DOMAIN tokens :
        /\ tokens[k].type \in {"IDENT", "INT"} => Ch(tokens[k].from) \in WordLetters
        /\ tokens[k].type = "IDENT" => Ch(tokens[k].to + 1) \notin WordLetters

AtEnd == state = "eof" => Ch(position) = "nul"

Descends(t) ==
    \A i \in UnitEnds(t) :
        /\ \E r \in DOMAIN UnitOrder : UnitOrder[r] = Unit(i)
        /\ \A j \in UnitEnds(t) : i < j => Larger(Unit(i), Unit(j))

Timeouts == \A k \in DOMAIN tokens : tokens[k].type = "DURATION" => Descends(tokens[k])

ScanInv == TypeOK /\ Placed /\ Ordered /\ Accounted /\ WholeWords /\ AtEnd /\ Timeouts

(***************************************************************************)
(* Numbers and iteration                                                   *)
(***************************************************************************)
\* A set of numbers that is not empty has a least one.
LEMMA LeastOfSome ==
  ASSUME NEW S, S \subseteq Nat, S # {}
  PROVE  \E i \in S : \A j \in S : i <= j
<1> DEFINE Up == {1..i : i \in S}
           Below == StrictSubsetOrdering(Nat)
<1>1. IsWellFoundedOn(Below, FiniteSubsetsOf(Nat))
  BY FS_StrictSubsetOrderingWellFounded
<1>2. Up \subseteq FiniteSubsetsOf(Nat) /\ Up # {}
  <2>1. \A i \in S : 1..i \in SUBSET Nat /\ IsFiniteSet(1..i)
    BY FS_Interval
  <2>2. QED
    BY <2>1 DEF FiniteSubsetsOf
<1>3. PICK u \in Up : \A v \in Up : ~(<<v, u>> \in Below)
  <2> HIDE DEF Up, Below
  <2>1. QED
    BY <1>1, <1>2, WFMin
<1>4. PICK i \in S : u = 1..i
  BY <1>3
<1>5. ASSUME NEW j \in S, j < i PROVE FALSE
  <2>1. 1..j \subseteq 1..i /\ i \in 1..i /\ i \notin 1..j
    BY <1>5
  <2>2. <<1..j, u>> \in Below
    BY <1>4, <2>1 DEF StrictSubsetOrdering
  <2>3. QED
    BY <1>3, <2>2
<1>6. QED
  BY <1>5

\* Induction over the numbers, for a set of them.
LEMMA SetInduction ==
    ASSUME NEW S, 0 \in S, \A n \in Nat : n \in S => n + 1 \in S
    PROVE  Nat \subseteq S
<1> SUFFICES ASSUME Nat \ S # {} PROVE FALSE
  OBVIOUS
<1>1. PICK m \in Nat \ S : \A n \in Nat \ S : m <= n
  BY LeastOfSome
<1>2. m # 0 /\ m - 1 \in Nat /\ (m - 1) + 1 = m
  BY <1>1
<1>3. m - 1 \in S
  BY <1>1, <1>2
<1> QED
  BY <1>1, <1>2, <1>3

\* Min returns the least of some numbers.
LEMMA MinOf ==
  ASSUME NEW S, S \subseteq Nat, S # {}
  PROVE  Min(S) \in S /\ \A j \in S : Min(S) <= j
BY LeastOfSome DEF Min

\* f is the loop over lo..hi that starts with base and takes a step at each place.
Loop(f, lo, hi, base, step) ==
  f = [i \in lo..hi |-> IF i = lo THEN base ELSE step[<<i, f[i - 1]>>]]

\* A loop over an interval computes a function of it.
LEMMA Iterates ==
  ASSUME NEW lo \in Nat, NEW hi \in Nat, lo <= hi, NEW T, NEW base \in T, NEW step \in [Nat \X T -> T]
  PROVE  \E f \in [lo..hi -> T] : Loop(f, lo, hi, base, step)
<1> DEFINE Good == {n \in Nat : \E f \in [lo..(lo + n) -> T] : Loop(f, lo, lo + n, base, step)}
<1>1. 0 \in Good
  <2>1. lo..(lo + 0) = {lo} /\ lo + 0 = lo
    OBVIOUS
  <2>2. Loop([i \in {lo} |-> base], lo, lo + 0, base, step) /\ [i \in {lo} |-> base] \in [{lo} -> T]
    BY <2>1 DEF Loop
  <2>3. QED
    BY <2>1, <2>2
<1>2. ASSUME NEW n \in Nat, n \in Good PROVE n + 1 \in Good
  <2>1. PICK f \in [lo..(lo + n) -> T] : Loop(f, lo, lo + n, base, step)
    BY <1>2
  <2> DEFINE m == lo + n + 1
             last == step[<<m, f[lo + n]>>]
             g == [i \in lo..m |-> IF i = m THEN last ELSE f[i]]
  <2>2. m \in Nat /\ m # lo /\ m = lo + (n + 1) /\ m - 1 = lo + n /\ lo + n \in lo..(lo + n)
    OBVIOUS
  <2>3. last \in T
    BY <2>2
  <2>4. \A i \in lo..m : i = m \/ i \in lo..(lo + n)
    OBVIOUS
  <2> HIDE DEF last
  <2>5. g \in [lo..m -> T]
    BY <2>3, <2>4
  <2>6. ASSUME NEW i \in lo..m
        PROVE  g[i] = IF i = lo THEN base ELSE step[<<i, g[i - 1]>>]
    <3>1. CASE i = m
      <4>1. g[i] = last /\ g[i - 1] = f[lo + n]
        BY <2>2, <3>1
      <4>2. QED
        BY <2>2, <3>1, <4>1 DEF last
    <3>2. CASE i = lo
      BY <2>1, <2>2, <2>4, <3>2 DEF Loop
    <3>3. CASE i # m /\ i # lo
      <4>1. i \in lo..(lo + n) /\ i - 1 \in lo..m /\ i - 1 # m
        BY <3>3
      <4>2. f[i] = step[<<i, f[i - 1]>>]
        BY <2>1, <3>3, <4>1 DEF Loop
      <4>3. g[i] = f[i] /\ g[i - 1] = f[i - 1]
        BY <3>3, <4>1
      <4>4. QED
        BY <3>3, <4>2, <4>3
    <3>4. QED
      BY <3>1, <3>2, <3>3
  <2>7. g = [i \in lo..m |-> IF i = lo THEN base ELSE step[<<i, g[i - 1]>>]]
    <3>1. g = [i \in lo..m |-> g[i]]
      OBVIOUS
    <3> HIDE DEF g
    <3>2. QED
      BY <2>6, <3>1
  <2> HIDE DEF g
  <2>8. g \in [lo..(lo + (n + 1)) -> T] /\ Loop(g, lo, lo + (n + 1), base, step)
    <3> HIDE DEF m
    <3>1. QED
      BY <2>2, <2>5, <2>7 DEF Loop
  <2>9. QED
    BY <2>8
<1>3. hi - lo \in Good
  <2> HIDE DEF Good
  <2>1. QED
    BY <1>1, <1>2, SetInduction
<1>4. QED
  BY <1>3

(***************************************************************************)
(* Looking ahead in the text                                               *)
(***************************************************************************)
\* The text has a length, and behind its end there is only the rune 0.
LEMMA TextFacts ==
  ASSUME TypeOK
  PROVE  /\ Len(data) \in Nat /\ DOMAIN data = 1..Len(data)
         /\ Ch(Len(data) + 1) = "nul"
         /\ \A i : Ch(i) # "nul" => i \in 1..Len(data) /\ Ch(i) = data[i]
         /\ \A i \in 1..Len(data) : Ch(i) = data[i] /\ data[i] \in Characters
<1>1. Len(data) \in Nat /\ DOMAIN data = 1..Len(data) /\ \A i \in 1..Len(data) : data[i] \in Characters
  BY LenProperties, ElementOfSeq DEF TypeOK
<1>2. Len(data) + 1 \notin 1..Len(data)
  BY <1>1
<1>3. QED
  BY <1>1, <1>2 DEF Ch

\* FirstIn stops at the first character of the set, or behind the text.
LEMMA FirstInFacts ==
  ASSUME TypeOK, NEW i \in Nat, i <= Len(data) + 1, NEW set
  PROVE  /\ FirstIn(i, set) \in i..(Len(data) + 1)
         /\ Ch(FirstIn(i, set)) \in set \/ FirstIn(i, set) = Len(data) + 1
         /\ \A j \in i..(FirstIn(i, set) - 1) : Ch(j) \notin set
<1> DEFINE S == {j \in i..(Len(data) + 1) : Ch(j) \in set} \cup {Len(data) + 1}
<1>1. S \subseteq Nat /\ S # {} /\ Len(data) \in Nat
  BY TextFacts
<1>2. FirstIn(i, set) = Min(S)
  BY DEF FirstIn
<1> HIDE DEF S
<1>3. Min(S) \in S /\ \A j \in S : Min(S) <= j
  BY <1>1, MinOf
<1> DEFINE e == FirstIn(i, set)
<1>4. e \in S /\ \A j \in S : e <= j
  BY <1>2, <1>3
<1> HIDE DEF e
<1>5. e \in i..(Len(data) + 1) /\ (Ch(e) \in set \/ e = Len(data) + 1)
  BY <1>1, <1>4 DEF S
<1>6. ASSUME NEW j \in i..(e - 1), Ch(j) \in set PROVE FALSE
  BY <1>1, <1>4, <1>5, <1>6 DEF S
<1>7. QED
  BY <1>5, <1>6 DEF e

\* Behind stops at the first character that is not of the set, or behind the text.
LEMMA BehindFacts ==
  ASSUME TypeOK, NEW i \in Nat, i <= Len(data) + 1, NEW set
  PROVE  /\ Behind(i, set) \in i..(Len(data) + 1)
         /\ Ch(Behind(i, set)) \notin set \/ Behind(i, set) = Len(data) + 1
         /\ \A j \in i..(Behind(i, set) - 1) : Ch(j) \in set
<1> DEFINE S == {j \in i..(Len(data) + 1) : Ch(j) \notin set} \cup {Len(data) + 1}
<1>1. S \subseteq Nat /\ S # {} /\ Len(data) \in Nat
  BY TextFacts
<1>2. Behind(i, set) = Min(S)
  BY DEF Behind
<1> HIDE DEF S
<1>3. Min(S) \in S /\ \A j \in S : Min(S) <= j
  BY <1>1, MinOf
<1> DEFINE e == Behind(i, set)
<1>4. e \in S /\ \A j \in S : e <= j
  BY <1>2, <1>3
<1> HIDE DEF e
<1>5. e \in i..(Len(data) + 1) /\ (Ch(e) \notin set \/ e = Len(data) + 1)
  BY <1>1, <1>4 DEF S
<1>6. ASSUME NEW j \in i..(e - 1), Ch(j) \notin set PROVE FALSE
  BY <1>1, <1>4, <1>5, <1>6 DEF S
<1>7. QED
  BY <1>5, <1>6 DEF e

(***************************************************************************)
(* Returning a token                                                       *)
(***************************************************************************)
\* What the branches of NextToken see to when they return a token.
Fits(type, from, to) ==
  /\ type \in Kinds /\ to \in Nat /\ from \in position..to
  /\ type # "ILLEGAL" =>
        /\ to <= Len(data)
        /\ \/ from = position
           \/ /\ from = position + 1
              /\ data[position] = "." /\ Ch(position + 1) = "." /\ Ch(position + 2) # "."
  /\ type \in {"IDENT", "INT"} => Ch(from) \in WordLetters
  /\ type = "IDENT" => Ch(to + 1) \notin WordLetters
  /\ type = "DURATION" => Descends(Token(type, from, to))

\* The tokens are well typed.
LEMMA TokenTypes ==
  ASSUME TypeOK
  PROVE  DOMAIN tokens = 1..Len(tokens) /\ Len(tokens) \in Nat
         /\ \A k \in DOMAIN tokens : tokens[k].from \in Nat /\ tokens[k].to \in Nat
<1>1. DOMAIN tokens = 1..Len(tokens) /\ Len(tokens) \in Nat /\ \A k \in DOMAIN tokens : tokens[k] \in TokenType
  BY ElementOfSeq, LenProperties DEF TypeOK
<1>2. \A t \in TokenType : t.from \in Nat /\ t.to \in Nat
  BY DEF TokenType
<1>3. QED
  BY <1>1, <1>2

\* What a token is when its branch returns it.
LEMMA TokenFacts ==
  ASSUME ScanInv, NEW type, NEW from, NEW to, Fits(type, from, to)
  PROVE  /\ Token(type, from, to) \in TokenType
         /\ Token(type, from, to).type = type
         /\ Token(type, from, to).from = from /\ Token(type, from, to).to = to
         /\ Token(type, from, to).pos.line \in DOMAIN lines
         /\ Token(type, from, to).pos.column = from - lines[Token(type, from, to).pos.line]
<1>1. Len(lines) \in Nat \ {0} /\ DOMAIN lines = 1..Len(lines) /\ Len(lines) \in DOMAIN lines
      /\ lines[Len(lines)] \in Nat
  BY EmptySeq, LenProperties, ElementOfSeq DEF ScanInv, TypeOK
<1>2. from \in Nat /\ to \in Nat /\ type \in Kinds
  BY DEF Fits, ScanInv, TypeOK
<1>3. from - lines[Len(lines)] \in Int
  BY <1>1, <1>2
<1>4. QED
  BY <1>1, <1>2, <1>3 DEF Token, newPosition, TokenType

\* The tokens after one more is returned.
LEMMA TokensAfter ==
  ASSUME ScanInv, NEW tok, tokens' = Append(tokens, tok)
  PROVE  /\ Len(tokens) \in Nat /\ DOMAIN tokens = 1..Len(tokens)
         /\ DOMAIN tokens' = 1..(Len(tokens) + 1)
         /\ tokens'[Len(tokens) + 1] = tok
         /\ \A k \in DOMAIN tokens : tokens'[k] = tokens[k]
<1> DEFINE R == TokenType \cup {tok}
<1>1. tokens \in Seq(TokenType)
  BY DEF ScanInv, TypeOK
<1>2. tokens \in Seq(R) /\ tok \in R
  BY <1>1, SeqMonotonic
<1> HIDE DEF R
<1>3. QED
  BY <1>2, AppendProperties, LenProperties

\* A branch of NextToken that returns a token keeps the invariant.
LEMMA EmitKeeps ==
  ASSUME ScanInv, state = "scanning", NEW type, NEW from, NEW to, Fits(type, from, to), Emit(type, from, to)
  PROVE  ScanInv'
<1> DEFINE tok == Token(type, from, to)
           n == Len(tokens) + 1
<1>1. /\ tokens' = Append(tokens, tok) /\ position' = to + 1
      /\ data' = data /\ lines' = lines /\ state' = state
  BY DEF Emit
<1>2. /\ tok \in TokenType /\ tok.type = type /\ tok.from = from /\ tok.to = to
      /\ tok.pos.line \in DOMAIN lines /\ tok.pos.column = from - lines[tok.pos.line]
  BY TokenFacts
<1> HIDE DEF tok
<1>3. /\ Len(tokens) \in Nat /\ DOMAIN tokens = 1..Len(tokens) /\ DOMAIN tokens' = 1..n
      /\ tokens'[n] = tok /\ \A k \in DOMAIN tokens : tokens'[k] = tokens[k]
  BY <1>1, TokensAfter
<1>4. /\ position \in Nat \ {0} /\ from \in Nat /\ to \in Nat /\ position <= from /\ from <= to
  BY DEF Fits, ScanInv, TypeOK
<1>5. \A k \in DOMAIN tokens' : k \in DOMAIN tokens \/ k = n
  BY <1>3
<1>6. TypeOK'
  <2>1. tokens' \in Seq(TokenType)
    BY <1>1, <1>2, AppendProperties DEF ScanInv, TypeOK
  <2>2. position' \in Nat \ {0}
    BY <1>1, <1>4
  <2>3. QED
    BY <1>1, <2>1, <2>2 DEF ScanInv, TypeOK
<1>7. Placed'
  <2>1. ASSUME NEW k \in DOMAIN tokens'
        PROVE  /\ tokens'[k].pos.line \in DOMAIN lines
               /\ tokens'[k].pos.column = tokens'[k].from - lines[tokens'[k].pos.line]
    BY <1>2, <1>3, <1>5 DEF ScanInv, Placed
  <2>2. lines' = lines
    BY <1>1
  <2>3. QED
    BY <2>1, <2>2 DEF Placed
<1>8. \A k \in DOMAIN tokens : tokens[k].to < position /\ tokens[k].from \in 1..tokens[k].to /\ tokens[k].to \in Nat
  <2>1. \A k \in DOMAIN tokens : tokens[k].to \in Nat
    BY TokenTypes DEF ScanInv
  <2>2. QED
    BY <2>1 DEF ScanInv, Ordered
<1>9. Ordered'
  <2>1. \A k \in DOMAIN tokens' : tokens'[k].from \in 1..tokens'[k].to
    BY <1>2, <1>3, <1>4, <1>5, <1>8
  <2>2. \A k \in DOMAIN tokens' : tokens'[k].to < position'
    <3>1. ASSUME NEW k \in DOMAIN tokens' PROVE tokens'[k].to < position'
      <4>1. CASE k \in DOMAIN tokens
        BY <1>1, <1>3, <1>4, <1>8, <4>1
      <4>2. CASE k = n
        BY <1>1, <1>2, <1>3, <1>4, <4>2
      <4>3. QED
        BY <1>5, <4>1, <4>2
    <3>2. QED
      BY <3>1
  <2>3. ASSUME NEW k \in DOMAIN tokens', NEW l \in DOMAIN tokens', k < l
        PROVE  tokens'[k].to < tokens'[l].from
    <3>1. k \in DOMAIN tokens
      BY <1>3, <2>3
    <3>2. CASE l \in DOMAIN tokens
      BY <1>3, <2>3, <3>1, <3>2 DEF ScanInv, Ordered
    <3>3. CASE l = n
      BY <1>2, <1>3, <1>4, <1>8, <3>1, <3>3
    <3>4. QED
      BY <1>5, <3>2, <3>3
  <2>4. QED
    BY <2>1, <2>2, <2>3 DEF Ordered
<1>10. Accounted'
  <2> SUFFICES ASSUME \A k \in DOMAIN tokens' : tokens'[k].type # "ILLEGAL"
               PROVE  /\ position' <= Len(data) + 1
                      /\ \A i \in 1..(position' - 1) :
                            Spare(i)' \/ \E k \in DOMAIN tokens' : i \in tokens'[k].from..tokens'[k].to
    BY <1>1 DEF Accounted
  <2>1. type # "ILLEGAL" /\ \A k \in DOMAIN tokens : tokens[k].type # "ILLEGAL"
    BY <1>2, <1>3
  <2>2. Len(data) \in Nat
    BY TextFacts DEF ScanInv
  <2>3. position' <= Len(data) + 1
    BY <1>1, <1>4, <2>1, <2>2 DEF Fits
  <2>4. ASSUME NEW i \in 1..(position' - 1)
        PROVE  Spare(i)' \/ \E k \in DOMAIN tokens' : i \in tokens'[k].from..tokens'[k].to
    <3>1. CASE i \in 1..(position - 1)
      <4>1. CASE \E k \in DOMAIN tokens : i \in tokens[k].from..tokens[k].to
        BY <1>3, <4>1
      <4>2. CASE Spare(i)
        <5>1. ~(i \in tok.from..tok.to)
          BY <1>2, <1>4, <3>1
        <5>2. ASSUME \A k \in DOMAIN tokens : i \notin tokens[k].from..tokens[k].to
              PROVE  \A k \in DOMAIN tokens' : i \notin tokens'[k].from..tokens'[k].to
          BY <1>3, <1>5, <5>1, <5>2
        <5>3. QED
          BY <1>1, <4>2, <5>2 DEF Spare, Ch
      <4>3. QED
        BY <2>1, <3>1, <4>1, <4>2 DEF ScanInv, Accounted
    <3>2. CASE i \in from..to
      BY <1>2, <1>3, <3>2
    <3>3. CASE i = position /\ from = position + 1 /\ data[position] = "." /\ Ch(position + 1) = "." /\ Ch(position + 2) # "."
      <4>1. \A k \in DOMAIN tokens' : i \notin tokens'[k].from..tokens'[k].to
        <5>1. ASSUME NEW k \in DOMAIN tokens' PROVE i \notin tokens'[k].from..tokens'[k].to
          <6>1. CASE k \in DOMAIN tokens
            BY <1>3, <1>4, <1>8, <3>3, <6>1
          <6>2. CASE k = n
            BY <1>2, <1>3, <1>4, <3>3, <6>2
          <6>3. QED
            BY <1>5, <6>1, <6>2
        <5>2. QED
          BY <5>1
      <4>2. data[i] = "." /\ Ch(i + 1) = "." /\ Ch(i + 2) # "."
        BY <3>3
      <4>3. QED
        BY <1>1, <4>1, <4>2 DEF Spare, Ch
    <3>4. i \in 1..(position - 1) \/ i \in from..to \/ (i = position /\ from = position + 1)
      BY <1>1, <1>4, <2>1 DEF Fits
    <3>5. QED
      BY <1>4, <2>1, <3>1, <3>2, <3>3, <3>4 DEF Fits
  <2>5. QED
    BY <2>3, <2>4
<1>11. WholeWords'
  <2>1. ASSUME NEW k \in DOMAIN tokens'
        PROVE  /\ tokens'[k].type \in {"IDENT", "INT"} => Ch(tokens'[k].from) \in WordLetters
               /\ tokens'[k].type = "IDENT" => Ch(tokens'[k].to + 1) \notin WordLetters
    <3>1. CASE k \in DOMAIN tokens
      BY <1>3, <3>1 DEF ScanInv, WholeWords
    <3>2. CASE k = n
      BY <1>2, <1>3, <3>2 DEF Fits
    <3>3. QED
      BY <1>5, <3>1, <3>2
  <2>2. \A i : Ch(i)' = Ch(i)
    BY <1>1 DEF Ch
  <2>3. QED
    BY <2>1, <2>2 DEF WholeWords
<1>12. AtEnd'
  BY <1>1 DEF AtEnd
<1>13. Timeouts'
  <2>1. ASSUME NEW k \in DOMAIN tokens', tokens'[k].type = "DURATION"
        PROVE  Descends(tokens'[k])
    <3>1. CASE k \in DOMAIN tokens
      BY <1>3, <2>1, <3>1 DEF ScanInv, Timeouts
    <3>2. CASE k = n
      BY <1>2, <1>3, <2>1, <3>2 DEF Fits, tok
    <3>3. QED
      BY <1>5, <3>1, <3>2
  <2>2. \A k : Descends(tokens[k])' <=> Descends(tokens'[k])
    BY <1>1 DEF Descends, UnitEnds, Unit
  <2>3. QED
    BY <2>1, <2>2 DEF Timeouts
<1>14. QED
  BY <1>6, <1>7, <1>9, <1>10, <1>11, <1>12, <1>13 DEF ScanInv

(***************************************************************************)
(* The branches of NextToken                                               *)
(***************************************************************************)
\* A step that returns no token says nothing new about the tokens.
LEMMA TokensKept ==
  ASSUME ScanInv, data' = data, tokens' = tokens
  PROVE  WholeWords' /\ Timeouts' /\ \A i : Spare(i)' <=> Spare(i)
<1>1. \A i : Ch(i)' = Ch(i)
  BY DEF Ch
<1>2. \A i : Spare(i)' <=> Spare(i)
  BY <1>1 DEF Spare
<1>3. WholeWords'
  BY <1>1 DEF ScanInv, WholeWords
<1>4. \A k : Descends(tokens[k])' <=> Descends(tokens[k])
  BY DEF Descends, UnitEnds, Unit
<1>5. Timeouts'
  BY <1>4 DEF ScanInv, Timeouts
<1>6. QED
  BY <1>2, <1>3, <1>5

\* A branch that returns no token and reads nothing keeps the invariant.
LEMMA StopKeeps ==
  ASSUME ScanInv, state = "scanning", UNCHANGED <<data, position, lines, tokens>>,
         state' = "error" \/ (state' = "eof" /\ Ch(position) = "nul")
  PROVE  ScanInv'
<1>1. WholeWords' /\ Timeouts' /\ \A i : Spare(i)' <=> Spare(i)
  BY TokensKept
<1>2. TypeOK'
  BY DEF ScanInv, TypeOK
<1>3. Placed' /\ Ordered'
  BY DEF ScanInv, Placed, Ordered
<1>4. Accounted'
  BY <1>1 DEF ScanInv, Accounted
<1>5. AtEnd'
  BY DEF AtEnd, Ch
<1>6. QED
  BY <1>1, <1>2, <1>3, <1>4, <1>5 DEF ScanInv

\* A branch that gives up keeps the invariant.
LEMMA FailKeeps ==
  ASSUME ScanInv, state = "scanning", Fail
  PROVE  ScanInv'
BY StopKeeps DEF Fail

\* The end of the text keeps the invariant.
LEMMA EofKeeps ==
  ASSUME ScanInv, Eof
  PROVE  ScanInv'
BY StopKeeps DEF Eof, Scanning

\* What s.lines becomes when white space is skipped: nothing is removed from it.
LEMMA LinesGrow ==
  ASSUME TypeOK, NEW from \in Nat, NEW to \in from..(Len(data) + 1)
  PROVE  /\ LinesAfter(from, to) \in Seq(Nat)
         /\ Len(lines) <= Len(LinesAfter(from, to))
         /\ \A k \in DOMAIN lines : LinesAfter(from, to)[k] = lines[k]
<1> DEFINE T == {s \in Seq(Nat) : Len(lines) <= Len(s) /\ \A k \in DOMAIN lines : s[k] = lines[k]}
           hi == Len(data) + 1
           next(i, s) == IF Ch(i - 1) = "nl" /\ i \in (from + 1)..hi THEN Append(s, i - 1) ELSE s
           step == [p \in Nat \X T |-> next(p[1], p[2])]
           read(f) == f = [i \in from..hi |->
                              IF i = from THEN lines
                              ELSE IF Ch(i - 1) = "nl" THEN Append(f[i - 1], i - 1) ELSE f[i - 1]]
           chosen == CHOOSE f : read(f)
<1>1. hi \in Nat /\ from <= hi /\ to \in from..hi /\ Len(data) \in Nat
  BY TextFacts
<1>2. lines \in T
  BY LenProperties DEF TypeOK
<1>3. ASSUME NEW s \in T, NEW m \in Nat PROVE Append(s, m) \in T
  <2>1. /\ Append(s, m) \in Seq(Nat) /\ Len(Append(s, m)) = Len(s) + 1 /\ Len(s) \in Nat
        /\ \A k \in 1..Len(s) : Append(s, m)[k] = s[k]
    BY AppendProperties, LenProperties
  <2>2. DOMAIN lines = 1..Len(lines) /\ Len(lines) \in Nat
    BY LenProperties DEF TypeOK
  <2>3. Len(lines) <= Len(s) /\ \A k \in DOMAIN lines : s[k] = lines[k]
    OBVIOUS
  <2>4. Len(lines) <= Len(Append(s, m)) /\ \A k \in DOMAIN lines : Append(s, m)[k] = lines[k]
    BY <2>1, <2>2, <2>3
  <2>5. QED
    BY <2>1, <2>4
<1> HIDE DEF T, hi
<1>4. step \in [Nat \X T -> T]
  <2>1. ASSUME NEW p \in Nat \X T PROVE next(p[1], p[2]) \in T
    <3>1. CASE p[1] \in (from + 1)..hi
      <4>1. p[1] - 1 \in Nat /\ p[2] \in T
        BY <1>1, <3>1
      <4>2. Append(p[2], p[1] - 1) \in T
        BY <1>3, <4>1
      <4>3. QED
        BY <4>1, <4>2
    <3>2. CASE p[1] \notin (from + 1)..hi
      BY <3>2
    <3>3. QED
      BY <3>1, <3>2
  <2>2. QED
    BY <2>1
<1>5. PICK f \in [from..hi -> T] : Loop(f, from, hi, lines, step)
  <2> HIDE DEF step
  <2>1. QED
    BY <1>1, <1>2, <1>4, Iterates
<1>6. read(f)
  <2>1. ASSUME NEW i \in from..hi, i # from
        PROVE  step[<<i, f[i - 1]>>] = IF Ch(i - 1) = "nl" THEN Append(f[i - 1], i - 1) ELSE f[i - 1]
    <3>1. i \in (from + 1)..hi /\ i - 1 \in from..hi /\ i \in Nat
      BY <1>1, <2>1
    <3>2. f[i - 1] \in T
      BY <3>1
    <3>3. step[<<i, f[i - 1]>>] = next(i, f[i - 1])
      BY <3>1, <3>2
    <3>4. QED
      BY <3>1, <3>3
  <2> HIDE DEF step
  <2>2. QED
    BY <1>5, <2>1 DEF Loop
<1>7. read(chosen)
  <2> HIDE DEF read
  <2>1. QED
    BY <1>6
<1>8. LinesAfter(from, to) = chosen[to]
  BY DEF LinesAfter, hi
<1> HIDE DEF chosen
<1> DEFINE Good == {n \in Nat : from + n \in from..hi => chosen[from + n] \in T}
<1>9. 0 \in Good
  BY <1>1, <1>2, <1>7
<1>10. ASSUME NEW n \in Nat, n \in Good PROVE n + 1 \in Good
  <2> SUFFICES ASSUME from + (n + 1) \in from..hi PROVE chosen[from + (n + 1)] \in T
    OBVIOUS
  <2> DEFINE i == from + (n + 1)
  <2>1. i \in from..hi /\ i # from /\ i - 1 = from + n /\ from + n \in from..hi /\ i - 1 \in Nat
    BY <1>1
  <2>2. chosen[i - 1] \in T
    BY <1>10, <2>1
  <2>3. chosen[i] = IF Ch(i - 1) = "nl" THEN Append(chosen[i - 1], i - 1) ELSE chosen[i - 1]
    BY <1>7, <2>1
  <2> HIDE DEF i
  <2>4. chosen[i] \in T
    BY <1>3, <2>1, <2>2, <2>3
  <2>5. QED
    BY <2>4 DEF i
<1>11. to - from \in Good
  <2> HIDE DEF Good
  <2>1. QED
    BY <1>1, <1>9, <1>10, SetInduction
<1>12. chosen[to] \in T
  BY <1>1, <1>11
<1>13. QED
  BY <1>8, <1>12 DEF T

\* The current character of a text that goes on is in it.
LEMMA CurrentFacts ==
  ASSUME ScanInv, Ch(position) # "nul"
  PROVE  position \in 1..Len(data) /\ Len(data) \in Nat /\ data[position] = Ch(position)
BY TextFacts DEF ScanInv

\* White space is skipped, and the newlines in it are counted.
LEMMA SkipKeeps ==
  ASSUME ScanInv, skipWhiteSpace
  PROVE  ScanInv'
<1> DEFINE end == Behind(position, isWhiteSpace)
<1>1. /\ data' = data /\ tokens' = tokens /\ state' = state /\ state = "scanning"
      /\ position' = end /\ lines' = LinesAfter(position, end) /\ Ch(position) \in isWhiteSpace
  BY DEF skipWhiteSpace
<1>2. position \in 1..Len(data) /\ Len(data) \in Nat /\ TypeOK
  BY <1>1, CurrentFacts DEF ScanInv, isWhiteSpace
<1>3. end \in position..(Len(data) + 1) /\ \A j \in position..(end - 1) : Ch(j) \in isWhiteSpace
  BY <1>2, BehindFacts
<1> HIDE DEF end
<1>4. /\ lines' \in Seq(Nat) /\ Len(lines) <= Len(lines') /\ \A k \in DOMAIN lines : lines'[k] = lines[k]
  BY <1>1, <1>2, <1>3, LinesGrow
<1>5. /\ DOMAIN lines = 1..Len(lines) /\ DOMAIN lines' = 1..Len(lines') /\ lines' # <<>>
      /\ Len(lines) \in Nat \ {0} /\ Len(lines') \in Nat
  BY <1>2, <1>4, LenProperties, EmptySeq DEF TypeOK
<1>6. TypeOK'
  BY <1>1, <1>2, <1>3, <1>4, <1>5 DEF TypeOK
<1>7. Placed'
  <2>1. \A k \in DOMAIN lines : k \in DOMAIN lines'
    BY <1>4, <1>5
  <2>2. tokens' = tokens
    BY <1>1
  <2>3. QED
    BY <1>4, <2>1, <2>2 DEF ScanInv, Placed
<1>8. \A k \in DOMAIN tokens : tokens[k].to \in Nat /\ tokens[k].to < position
  <2>1. \A k \in DOMAIN tokens : tokens[k].to \in Nat
    BY TokenTypes DEF ScanInv
  <2>2. QED
    BY <1>1, <2>1 DEF ScanInv, Ordered
<1>9. Ordered'
  <2>1. \A k \in DOMAIN tokens : tokens[k].to < end
    BY <1>2, <1>3, <1>8
  <2>2. QED
    BY <1>1, <2>1 DEF ScanInv, Ordered
<1>10. Accounted'
  <2> SUFFICES ASSUME \A k \in DOMAIN tokens : tokens[k].type # "ILLEGAL"
               PROVE  /\ end <= Len(data) + 1
                      /\ \A i \in 1..(end - 1) :
                            Spare(i) \/ \E k \in DOMAIN tokens : i \in tokens[k].from..tokens[k].to
    BY <1>1, TokensKept DEF Accounted
  <2>1. ASSUME NEW i \in 1..(end - 1)
        PROVE  Spare(i) \/ \E k \in DOMAIN tokens : i \in tokens[k].from..tokens[k].to
    <3>1. CASE i \in 1..(position - 1)
      BY <3>1 DEF ScanInv, Accounted
    <3>2. CASE i \in position..(end - 1)
      <4>1. Ch(i) \in isWhiteSpace /\ i \in 1..Len(data)
        BY <1>2, <1>3, <3>2
      <4>2. data[i] \in isWhiteSpace
        BY <1>2, <4>1, TextFacts
      <4>3. QED
        BY <4>2 DEF Spare
    <3>3. QED
      BY <1>2, <1>3, <3>1, <3>2
  <2>2. QED
    BY <1>2, <1>3, <2>1
<1>11. WholeWords' /\ Timeouts' /\ AtEnd'
  BY <1>1, TokensKept DEF AtEnd
<1>12. QED
  BY <1>6, <1>7, <1>9, <1>10, <1>11 DEF ScanInv

\* A sign is a token of one character.
LEMMA SignKeeps ==
  ASSUME ScanInv, newToken
  PROVE  ScanInv'
<1>1. Ch(position) \in Signs \cup {"/"} /\ state = "scanning" /\ Emit(Ch(position), position, position)
  BY DEF newToken, Scanning
<1>2. position \in 1..Len(data) /\ Len(data) \in Nat
  BY <1>1, CurrentFacts DEF Signs
<1>3. Ch(position) \in Kinds \ {"ILLEGAL", "IDENT", "INT", "DURATION"} /\ position \in position..position
  <2>1. \A c \in Signs \cup {"/"} : c \in Kinds \ {"ILLEGAL", "IDENT", "INT", "DURATION"}
    BY ZenonT(30) DEF Kinds, Signs
  <2>2. QED
    BY <1>1, <1>2, <2>1
<1> DEFINE c == Ch(position)
<1> HIDE DEF c
<1>4. Fits(c, position, position)
  BY <1>2, <1>3 DEF Fits, c
<1>5. QED
  BY <1>1, <1>4, EmitKeeps DEF c

\* One dot or three are a token, of two the first is forgotten.
LEMMA DotsKeep ==
  ASSUME ScanInv, Dots
  PROVE  ScanInv'
<1>1. Ch(position) = "." /\ state = "scanning"
  BY DEF Dots, Scanning
<1>2. position \in 1..Len(data) /\ Len(data) \in Nat /\ data[position] = "." /\ TypeOK
  BY <1>1, CurrentFacts DEF ScanInv
<1>3. CASE peekRune # "."
  <2>1. Fits(".", position, position) /\ Emit(".", position, position)
    BY <1>2, <1>3 DEF Dots, Fits, Kinds
  <2>2. QED
    BY <1>1, <2>1, EmitKeeps
<1>4. CASE peekRune = "." /\ Ch(position + 2) # "."
  <2>1. position + 1 \in 1..Len(data) /\ Ch(position + 1) = "."
    BY <1>2, <1>4, TextFacts DEF peekRune
  <2>2. Fits(".", position + 1, position + 1) /\ Emit(".", position + 1, position + 1)
    BY <1>2, <1>4, <2>1 DEF Dots, Fits, Kinds
  <2>3. QED
    BY <1>1, <2>2, EmitKeeps
<1>5. CASE peekRune = "." /\ Ch(position + 2) = "."
  <2>1. position + 2 \in 1..Len(data)
    BY <1>2, <1>5, TextFacts
  <2>2. Fits("...", position, position + 2) /\ Emit("...", position, position + 2)
    BY <1>2, <1>5, <2>1 DEF Dots, Fits, Kinds
  <2>3. QED
    BY <1>1, <2>2, EmitKeeps
<1>6. QED
  BY <1>3, <1>4, <1>5

\* A comment of one line ends before the newline or the end of the text.
LEMMA LineCommentKeeps ==
  ASSUME ScanInv, scanLineComment
  PROVE  ScanInv'
<1> DEFINE end == FirstIn(position, {"nl", "nul"})
<1>1. Ch(position) = "/" /\ state = "scanning" /\ Emit("COMMENT", position, end - 1)
  BY DEF scanLineComment, Scanning
<1>2. position \in 1..Len(data) /\ Len(data) \in Nat /\ TypeOK
  BY <1>1, CurrentFacts DEF ScanInv
<1>3. end \in position..(Len(data) + 1) /\ (Ch(end) \in {"nl", "nul"} \/ end = Len(data) + 1)
  BY <1>2, FirstInFacts
<1> HIDE DEF end
<1>4. end # position
  BY <1>1, <1>2, <1>3
<1>5. Fits("COMMENT", position, end - 1)
  BY <1>2, <1>3, <1>4 DEF Fits, Kinds
<1>6. QED
  BY <1>1, <1>5, EmitKeeps

\* A document ends with the first slash that closes it, before any rune 0.
LEMMA DocumentKeeps ==
  ASSUME ScanInv, scanDocument
  PROVE  ScanInv'
<1> DEFINE nul == FirstIn(position, {"nul"})
           ends == {j \in position..(nul - 1) : ModeAt(position, j) = "close"}
<1>1. /\ Ch(position) = "/" /\ state = "scanning"
      /\ IF ends = {} THEN Fail ELSE Emit("DOCUMENT", position, Min(ends))
  BY DEF scanDocument, Scanning
<1>2. position \in 1..Len(data) /\ Len(data) \in Nat /\ TypeOK
  BY <1>1, CurrentFacts DEF ScanInv
<1>3. nul \in position..(Len(data) + 1)
  BY <1>2, FirstInFacts
<1> HIDE DEF nul
<1>4. CASE ends = {}
  BY <1>1, <1>4, FailKeeps
<1>5. CASE ends # {}
  <2>1. ends \subseteq position..Len(data) /\ ends \subseteq Nat
    BY <1>2, <1>3
  <2> HIDE DEF ends
  <2>2. Min(ends) \in position..Len(data)
    BY <1>5, <2>1, MinOf
  <2>3. Fits("DOCUMENT", position, Min(ends))
    BY <1>2, <2>2 DEF Fits, Kinds
  <2>4. QED
    BY <1>1, <1>5, <2>3, EmitKeeps
<1>6. QED
  BY <1>4, <1>5

\* A literal ends with the sign it began with, before any rune 0.
LEMMA StringKeeps ==
  ASSUME ScanInv, scanString
  PROVE  ScanInv'
<1>1. PICK delim \in {"quote", "raw"} :
          /\ state = "scanning" /\ Ch(position) = delim
          /\ LET end == FirstIn(position + 1, {delim, "nul"})
             IN IF Ch(end) = "nul" THEN Fail ELSE Emit(delim, position, end)
  BY DEF scanString, Scanning
<1>2. position \in 1..Len(data) /\ Len(data) \in Nat /\ TypeOK
  BY <1>1, CurrentFacts DEF ScanInv
<1> DEFINE end == FirstIn(position + 1, {delim, "nul"})
<1>3. end \in (position + 1)..(Len(data) + 1)
  BY <1>2, FirstInFacts
<1>4. IF Ch(end) = "nul" THEN Fail ELSE Emit(delim, position, end)
  BY <1>1
<1> HIDE DEF end
<1>5. CASE Ch(end) = "nul"
  BY <1>1, <1>4, <1>5, FailKeeps
<1>6. CASE Ch(end) # "nul"
  <2>1. end \in 1..Len(data)
    BY <1>2, <1>6, TextFacts
  <2>2. Fits(delim, position, end)
    BY <1>2, <1>3, <2>1 DEF Fits, Kinds
  <2>3. QED
    BY <1>1, <1>4, <1>6, <2>2, EmitKeeps
<1>7. QED
  BY <1>5, <1>6

\* After an @ only the three words are accepted.
LEMMA AtKeeps ==
  ASSUME ScanInv, scanAt
  PROVE  ScanInv'
<1> DEFINE end == Behind(position + 1, isLetter)
           letters == SubSeq(data, position + 1, end - 1)
<1>1. Ch(position) = "@" /\ state = "scanning"
  BY DEF scanAt, Scanning
<1>2. position \in 1..Len(data) /\ Len(data) \in Nat /\ TypeOK
  BY <1>1, CurrentFacts DEF ScanInv
<1>3. /\ end \in (position + 1)..(Len(data) + 1)
      /\ Ch(end) \notin isLetter \/ end = Len(data) + 1
  BY <1>2, BehindFacts
<1>4. \/ Fail
      \/ peekRune \in isLetter /\ letters \in {<<"handler">>, <<"server">>, <<"doc">>} /\ Emit(letters[1], position, end - 1)
      \/ /\ tokens' = Append(tokens, Token("ILLEGAL", position, position))
         /\ state' = "stuck" /\ UNCHANGED <<data, position, lines>>
  BY DEF scanAt
<1> HIDE DEF end
<1>5. CASE peekRune \in isLetter /\ letters \in {<<"handler">>, <<"server">>, <<"doc">>} /\ Emit(letters[1], position, end - 1)
  <2>1. letters[1] \in {"handler", "server", "doc"}
    <3> HIDE DEF letters
    <3>1. QED
      BY <1>5
  <2> HIDE DEF letters
  <2>2. end - 1 \in position..Len(data)
    BY <1>2, <1>3
  <2>3. Fits(letters[1], position, end - 1)
    BY <1>2, <2>1, <2>2 DEF Fits, Kinds
  <2>4. QED
    BY <1>1, <1>5, <2>3, EmitKeeps
<1>6. CASE /\ tokens' = Append(tokens, Token("ILLEGAL", position, position))
           /\ state' = "stuck" /\ UNCHANGED <<data, position, lines>>
  <2> DEFINE tok == Token("ILLEGAL", position, position)
             n == Len(tokens) + 1
  <2>1. Fits("ILLEGAL", position, position)
    BY <1>2 DEF Fits, Kinds
  <2>2. /\ tok \in TokenType /\ tok.type = "ILLEGAL" /\ tok.from = position /\ tok.to = position
        /\ tok.pos.line \in DOMAIN lines /\ tok.pos.column = tok.from - lines[tok.pos.line]
    BY <2>1, TokenFacts
  <2> HIDE DEF tok
  <2>3. /\ Len(tokens) \in Nat /\ DOMAIN tokens = 1..Len(tokens) /\ DOMAIN tokens' = 1..n
        /\ tokens'[n] = tok /\ \A k \in DOMAIN tokens : tokens'[k] = tokens[k]
    BY <1>6, TokensAfter DEF tok
  <2>4. \A k \in DOMAIN tokens' : k \in DOMAIN tokens \/ k = n
    BY <2>3
  <2>5. TypeOK'
    <3>1. tokens' \in Seq(TokenType)
      BY <1>6, <2>2, AppendProperties DEF TypeOK, ScanInv, tok
    <3>2. QED
      BY <1>2, <1>6, <3>1 DEF TypeOK
  <2>6. Placed'
    <3>1. ASSUME NEW k \in DOMAIN tokens'
          PROVE  /\ tokens'[k].pos.line \in DOMAIN lines
                 /\ tokens'[k].pos.column = tokens'[k].from - lines[tokens'[k].pos.line]
      BY <2>2, <2>3, <2>4 DEF ScanInv, Placed
    <3>2. lines' = lines
      BY <1>6
    <3>3. QED
      BY <3>1, <3>2 DEF Placed
  <2>7. Ordered'
    <3>1. \A k \in DOMAIN tokens : tokens[k].to < position /\ tokens[k].from \in 1..tokens[k].to
      BY <1>1 DEF ScanInv, Ordered
    <3>2. \A k \in DOMAIN tokens' : tokens'[k].from \in 1..tokens'[k].to
      BY <1>2, <2>2, <2>3, <2>4, <3>1
    <3>3. ASSUME NEW k \in DOMAIN tokens', NEW l \in DOMAIN tokens', k < l
          PROVE  tokens'[k].to < tokens'[l].from
      <4>1. k \in DOMAIN tokens
        BY <2>3, <3>3
      <4>2. CASE l \in DOMAIN tokens
        BY <2>3, <3>3, <4>1, <4>2 DEF ScanInv, Ordered
      <4>3. CASE l = n
        BY <2>2, <2>3, <3>1, <4>1, <4>3
      <4>4. QED
        BY <2>4, <4>2, <4>3
    <3>4. QED
      BY <1>6, <3>2, <3>3 DEF Ordered
  <2>8. Accounted'
    <3>1. n \in DOMAIN tokens' /\ tokens'[n].type = "ILLEGAL"
      BY <2>2, <2>3
    <3>2. QED
      BY <3>1 DEF Accounted
  <2>9. WholeWords'
    <3>1. ASSUME NEW k \in DOMAIN tokens'
          PROVE  /\ tokens'[k].type \in {"IDENT", "INT"} => Ch(tokens'[k].from) \in WordLetters
                 /\ tokens'[k].type = "IDENT" => Ch(tokens'[k].to + 1) \notin WordLetters
      BY <2>2, <2>3, <2>4 DEF ScanInv, WholeWords
    <3>2. \A i : Ch(i)' = Ch(i)
      BY <1>6 DEF Ch
    <3>3. QED
      BY <3>1, <3>2 DEF WholeWords
  <2>10. AtEnd'
    BY <1>6 DEF AtEnd
  <2>11. Timeouts'
    <3>1. ASSUME NEW k \in DOMAIN tokens', tokens'[k].type = "DURATION"
          PROVE  Descends(tokens'[k])
      BY <2>2, <2>3, <2>4, <3>1 DEF ScanInv, Timeouts
    <3>2. \A k : Descends(tokens[k])' <=> Descends(tokens'[k])
      BY <1>6 DEF Descends, UnitEnds, Unit
    <3>3. QED
      BY <3>1, <3>2 DEF Timeouts
  <2>12. QED
    BY <2>5, <2>6, <2>7, <2>8, <2>9, <2>10, <2>11 DEF ScanInv
<1>7. QED
  BY <1>1, <1>4, <1>5, <1>6, FailKeeps

\* An identifier ends where no letter and no digit follows.
LEMMA IdentKeeps ==
  ASSUME ScanInv, scanIdent
  PROVE  ScanInv'
<1> DEFINE end == Behind(position, isIdentifierLetter \cup isDigit)
<1>1. /\ Ch(position) \in isIdentifierLetter /\ state = "scanning"
      /\ \/ Emit("ANY", position, end + 1) /\ Ch(end) = "{" /\ Ch(end + 1) = "}"
         \/ Emit("IDENT", position, end - 1)
  BY DEF scanIdent, Scanning
<1>2. position \in 1..Len(data) /\ Len(data) \in Nat /\ TypeOK
  BY <1>1, CurrentFacts DEF ScanInv, isIdentifierLetter, isLetter, Words
<1>3. /\ end \in position..(Len(data) + 1)
      /\ Ch(end) \notin WordLetters \/ end = Len(data) + 1
  BY <1>2, BehindFacts DEF WordLetters
<1> HIDE DEF end
<1>4. Ch(position) \in WordLetters /\ "nul" \notin WordLetters
  BY <1>1 DEF WordLetters, isIdentifierLetter, isLetter, isDigit, Words
<1>5. Ch(end) \notin WordLetters
  BY <1>2, <1>3, <1>4, TextFacts
<1>6. end # position /\ (end - 1) + 1 = end
  BY <1>3, <1>4, <1>5
<1>7. CASE Emit("ANY", position, end + 1) /\ Ch(end) = "{" /\ Ch(end + 1) = "}"
  <2>1. end + 1 \in 1..Len(data)
    BY <1>2, <1>7, TextFacts
  <2>2. Fits("ANY", position, end + 1)
    BY <1>2, <1>3, <2>1 DEF Fits, Kinds
  <2>3. QED
    BY <1>1, <1>7, <2>2, EmitKeeps
<1>8. CASE Emit("IDENT", position, end - 1)
  <2>1. Fits("IDENT", position, end - 1)
    BY <1>2, <1>3, <1>4, <1>5, <1>6 DEF Fits, Kinds
  <2>2. QED
    BY <1>1, <1>8, <2>1, EmitKeeps
<1>9. QED
  BY <1>1, <1>7, <1>8

\* A character that begins nothing is an illegal token.
LEMMA IllegalKeeps ==
  ASSUME ScanInv, Illegal
  PROVE  ScanInv'
<1>1. state = "scanning" /\ Emit("ILLEGAL", position, position)
  BY DEF Illegal, Scanning
<1>2. Fits("ILLEGAL", position, position)
  BY DEF Fits, Kinds, ScanInv, TypeOK
<1>3. QED
  BY <1>1, <1>2, EmitKeeps

(***************************************************************************)
(* Durations: what the functions that hand over to each other have read    *)
(* when they are in a state                                                *)
(***************************************************************************)
\* The states after a number.
Numbers == {"int", "h#", "m#", "s#", "ms#", "us#"}

States == Numbers \cup {"h", "m", "mOnly", "s", "ms", "u", "us", "n", "ns", "illegal"}

\* How many of the six units may stand before what is being read.
Below(q) ==
  CASE q \in {"int", "h"} -> 0
    [] q \in {"h#", "m"} -> 1
    [] q \in {"m#", "s"} -> 2
    [] q \in {"s#", "mOnly", "ms"} -> 3
    [] q \in {"ms#", "u", "us"} -> 4
    [] OTHER -> 5

\* One more character leads from a state to a state.
LEMMA StepType ==
  ASSUME NEW q \in States, NEW c
  PROVE  DurationStep(q, c) \in States
BY DEF States, Numbers, DurationStep, AfterM, Counted, isDigit

\* A digit continues a number or ends a unit.
LEMMA DigitStep ==
  ASSUME NEW q \in States, NEW c \in isDigit, DurationStep(q, c) # "illegal"
  PROVE  /\ DurationStep(q, c) \in Numbers
         /\ \/ q \in Numbers /\ DurationStep(q, c) = q
            \/ q \in DOMAIN Counted /\ q \notin Numbers /\ Below(DurationStep(q, c)) = Below(q) + 1
BY DEF States, Numbers, DurationStep, AfterM, Counted, isDigit, Below

\* A letter begins a unit or is the second of one.
LEMMA LetterStep ==
  ASSUME NEW q \in States, NEW c, c \notin isDigit, DurationStep(q, c) # "illegal"
  PROVE  /\ Below(q) <= Below(DurationStep(q, c)) /\ Below(q) \in Nat /\ Below(DurationStep(q, c)) \in Nat
         /\ \/ q \in Numbers /\ c \in {"h", "m", "s", "u", "n"} /\ DurationStep(q, c) = c
            \/ q \in Numbers /\ c = "m" /\ DurationStep(q, c) = "mOnly"
            \/ q \in {"m", "mOnly"} /\ c = "s" /\ DurationStep(q, c) = "ms"
            \/ q = "u" /\ c = "s" /\ DurationStep(q, c) = "us"
            \/ q = "n" /\ c = "s" /\ DurationStep(q, c) = "ns"
BY DEF States, Numbers, DurationStep, AfterM, Counted, isDigit, Below

\* What is wrong stays wrong.
LEMMA IllegalStep == \A c : DurationStep("illegal", c) = "illegal"
BY DEF DurationStep, AfterM, Counted, isDigit

\* Duration takes one step for each character.
LEMMA DurationSteps ==
  ASSUME TypeOK, NEW from \in 1..Len(data)
  PROVE  /\ Duration(from, from - 1) = "int"
         /\ \A j \in from..(Len(data) + 1) :
               /\ Duration(from, j - 1) \in States
               /\ Duration(from, j) = DurationStep(Duration(from, j - 1), Ch(j))
<1> DEFINE lo == from - 1
           hi == Len(data) + 1
           step == [p \in Nat \X States |-> DurationStep(p[2], Ch(p[1]))]
           read(f) == f = [j \in (from - 1)..(Len(data) + 1) |-> IF j < from THEN "int" ELSE DurationStep(f[j - 1], Ch(j))]
           chosen == CHOOSE f : read(f)
<1>1. Len(data) \in Nat /\ lo \in Nat /\ hi \in Nat /\ lo <= hi
  BY TextFacts
<1>2. "int" \in States
  BY DEF States, Numbers
<1>3. step \in [Nat \X States -> States]
  BY StepType
<1>4. PICK f \in [lo..hi -> States] : Loop(f, lo, hi, "int", step)
  <2> HIDE DEF step, lo, hi
  <2>1. QED
    BY <1>1, <1>2, <1>3, Iterates
<1>5. read(f)
  <2>1. ASSUME NEW i \in lo..hi, i # lo PROVE step[<<i, f[i - 1]>>] = DurationStep(f[i - 1], Ch(i))
    <3>1. i - 1 \in lo..hi /\ i \in Nat
      BY <1>1, <2>1
    <3>2. f[i - 1] \in States
      BY <3>1
    <3>3. QED
      BY <3>1, <3>2
  <2>2. \A i \in lo..hi : i < from <=> i = lo
    BY <1>1
  <2> HIDE DEF step
  <2>3. f = [j \in lo..hi |-> IF j < from THEN "int" ELSE DurationStep(f[j - 1], Ch(j))]
    BY <1>4, <2>1, <2>2 DEF Loop
  <2>4. QED
    BY <2>3
<1>6. read(chosen)
  <2> HIDE DEF read
  <2>1. QED
    BY <1>5
<1>7. \A j : Duration(from, j) = chosen[j]
  BY DEF Duration
<1> HIDE DEF chosen
<1>8. chosen[lo] = "int" /\ \A j \in from..hi : chosen[j] = DurationStep(chosen[j - 1], Ch(j))
  BY <1>1, <1>6
<1> DEFINE Good == {n \in Nat : lo + n \in lo..hi => chosen[lo + n] \in States}
<1>9. 0 \in Good
  BY <1>1, <1>2, <1>8
<1>10. ASSUME NEW n \in Nat, n \in Good PROVE n + 1 \in Good
  <2> SUFFICES ASSUME lo + (n + 1) \in lo..hi PROVE chosen[lo + (n + 1)] \in States
    OBVIOUS
  <2> DEFINE j == lo + (n + 1)
  <2>1. j \in from..hi /\ j - 1 = lo + n /\ lo + n \in lo..hi
    BY <1>1
  <2>2. chosen[j - 1] \in States /\ chosen[j] = DurationStep(chosen[j - 1], Ch(j))
    BY <1>8, <1>10, <2>1
  <2> HIDE DEF j
  <2>3. chosen[j] \in States
    BY <2>2, StepType
  <2>4. QED
    BY <2>3 DEF j
<1>11. ASSUME NEW j \in from..hi PROVE chosen[j - 1] \in States
  <2>1. (j - 1) - lo \in Nat /\ lo + ((j - 1) - lo) = j - 1 /\ j - 1 \in lo..hi
    BY <1>1
  <2>2. Nat \subseteq Good
    <3> HIDE DEF Good
    <3>1. QED
      BY <1>9, <1>10, SetInduction
  <2>3. (j - 1) - lo \in Good
    BY <2>1, <2>2
  <2>4. QED
    BY <2>1, <2>3
<1>12. QED
  BY <1>7, <1>8, <1>11

\* The units that have ended before a place, and the state there.
Ended(from, j) == {i \in from..(j - 1) : data[i] \notin isDigit /\ data[i + 1] \in isDigit}

\* The character in front of a state is what led to it.
Shape(q, j) ==
  /\ q \in Numbers => data[j] \in isDigit
  /\ q \in {"h", "m", "s", "u", "n"} => data[j] = q /\ data[j - 1] \in isDigit
  /\ q = "mOnly" => data[j] = "m" /\ data[j - 1] \in isDigit
  /\ q = "ms" => data[j] = "s" /\ data[j - 1] = "m"
  /\ q = "us" => data[j] = "s" /\ data[j - 1] = "u"
  /\ q = "ns" => data[j] = "s" /\ data[j - 1] = "n"

Reads(q, from, j) ==
  /\ Shape(q, j)
  /\ \A i \in Ended(from, j) : \E r \in 1..Below(q) : UnitOrder[r] = Unit(i)
  /\ \A i, k \in Ended(from, j) : i < k => Larger(Unit(i), Unit(k))

\* The unit that ends in a state is the first that may still be written.
LEMMA UnitHere ==
  ASSUME NEW q \in Complete, NEW j, Shape(q, j)
  PROVE  /\ Below(q) + 1 \in 1..6 /\ UnitOrder[Below(q) + 1] = Unit(j)
         /\ data[j] \notin isDigit
<1>1. CASE q \in {"h", "m", "s"}
  <2>1. data[j] = q /\ data[j - 1] \in isDigit /\ Unit(j) = <<q>>
    BY <1>1 DEF Shape, Unit
  <2>2. QED
    BY <1>1, <2>1 DEF Below, UnitOrder, isDigit
<1>2. CASE q \in {"ms", "us", "ns"}
  <2>1. data[j] = "s" /\ data[j - 1] \notin isDigit /\ Unit(j) = <<data[j - 1], "s">>
    BY <1>2 DEF Shape, Unit, isDigit
  <2>2. QED
    BY <1>2, <2>1 DEF Shape, Below, UnitOrder, isDigit
<1>3. QED
  BY <1>1, <1>2 DEF Complete

\* One more character of a duration.
LEMMA ReadsNext ==
  ASSUME NEW from \in Nat, NEW j \in Nat, from <= j, NEW q \in States, Reads(q, from, j),
         DurationStep(q, data[j + 1]) # "illegal"
  PROVE  Reads(DurationStep(q, data[j + 1]), from, j + 1)
<1> DEFINE c == data[j + 1]
           p == DurationStep(q, c)
<1>1. q # "illegal"
  BY IllegalStep
<1>2. CASE c \in isDigit /\ q \in Numbers
  <2>1. p = q /\ p \in Numbers
    BY <1>2, DigitStep DEF Numbers, DurationStep
  <2>2. data[j] \in isDigit
    BY <1>2 DEF Reads, Shape
  <2>3. Ended(from, j + 1) = Ended(from, j)
    BY <2>2 DEF Ended
  <2>4. Shape(p, j + 1)
    BY <1>2, <2>1 DEF Shape, Numbers
  <2> HIDE DEF p
  <2>5. QED
    BY <2>1, <2>3, <2>4 DEF Reads, p
<1>3. CASE c \in isDigit /\ q \notin Numbers
  <2>1. p \in Numbers /\ q \in DOMAIN Counted /\ Below(p) = Below(q) + 1
    BY <1>3, DigitStep
  <2>2. q \in Complete
    BY <2>1 DEF Counted, Complete
  <2>3. /\ Below(q) + 1 \in 1..6 /\ UnitOrder[Below(q) + 1] = Unit(j) /\ data[j] \notin isDigit
        /\ Below(q) \in Nat
    BY <2>2, UnitHere DEF Reads, Below
  <2>4. Ended(from, j + 1) = Ended(from, j) \cup {j}
    BY <1>3, <2>3 DEF Ended
  <2>5. Shape(p, j + 1)
    BY <1>3, <2>1 DEF Shape, Numbers
  <2>6. \A i \in Ended(from, j) : i \in Int /\ i < j
    BY DEF Ended
  <2> HIDE DEF p
  <2>7. \A i \in Ended(from, j + 1) : \E r \in 1..Below(p) : UnitOrder[r] = Unit(i)
    <3>1. ASSUME NEW i \in Ended(from, j) PROVE \E r \in 1..Below(p) : UnitOrder[r] = Unit(i)
      <4>1. PICK r \in 1..Below(q) : UnitOrder[r] = Unit(i)
        BY DEF Reads
      <4>2. r \in 1..Below(p)
        BY <2>1, <2>3
      <4>3. QED
        BY <4>1, <4>2
    <3>2. Below(p) \in 1..Below(p) /\ UnitOrder[Below(p)] = Unit(j)
      BY <2>1, <2>3
    <3>3. QED
      BY <2>4, <3>1, <3>2
  <2>8. ASSUME NEW i \in Ended(from, j + 1), NEW k \in Ended(from, j + 1), i < k
        PROVE  Larger(Unit(i), Unit(k))
    <3>1. CASE k \in Ended(from, j)
      <4>1. i \in Ended(from, j)
        BY <2>4, <2>6, <2>8, <3>1
      <4>2. QED
        BY <2>8, <3>1, <4>1 DEF Reads
    <3>2. CASE k = j
      <4>1. i \in Ended(from, j)
        BY <2>4, <2>8, <3>2
      <4>2. PICK r \in 1..Below(q) : UnitOrder[r] = Unit(i)
        BY <4>1 DEF Reads
      <4>3. r \in 1..6 /\ r < Below(q) + 1 /\ DOMAIN UnitOrder = 1..6
        BY <2>3 DEF UnitOrder
      <4>4. QED
        BY <2>3, <3>2, <4>2, <4>3 DEF Larger
    <3>3. QED
      BY <2>4, <3>1, <3>2
  <2>9. Reads(p, from, j + 1)
    BY <2>5, <2>7, <2>8 DEF Reads
  <2>10. QED
    BY <2>9 DEF p
<1>4. CASE c \notin isDigit
  <2>1. /\ Below(q) <= Below(p) /\ Below(q) \in Nat /\ Below(p) \in Nat
        /\ \/ q \in Numbers /\ c \in {"h", "m", "s", "u", "n"} /\ p = c
           \/ q \in Numbers /\ c = "m" /\ p = "mOnly"
           \/ q \in {"m", "mOnly"} /\ c = "s" /\ p = "ms"
           \/ q = "u" /\ c = "s" /\ p = "us"
           \/ q = "n" /\ c = "s" /\ p = "ns"
    BY <1>4, LetterStep
  <2>2. Ended(from, j + 1) = Ended(from, j)
    BY <1>4 DEF Ended
  <2> HIDE DEF p
  <2>3. Shape(p, j + 1)
    <3>1. (j + 1) - 1 = j
      OBVIOUS
    <3>2. Shape(q, j)
      BY DEF Reads
    <3>3. QED
      BY <2>1, <3>1, <3>2 DEF Shape, Numbers
  <2>4. \A i \in Ended(from, j) : \E r \in 1..Below(p) : UnitOrder[r] = Unit(i)
    <3>1. 1..Below(q) \subseteq 1..Below(p)
      BY <2>1
    <3>2. QED
      BY <3>1 DEF Reads
  <2>5. Reads(p, from, j + 1)
    BY <2>2, <2>3, <2>4 DEF Reads
  <2>6. QED
    BY <2>5 DEF p
<1>5. QED
  BY <1>2, <1>3, <1>4

\* What is read as a duration up to a place.
LEMMA ReadsAll ==
  ASSUME TypeOK, NEW from \in 1..Len(data), data[from] \in isDigit, NEW to \in from..Len(data),
         Duration(from, to) # "illegal"
  PROVE  Duration(from, to) \in States /\ Reads(Duration(from, to), from, to)
<1>1. Len(data) \in Nat /\ \A j \in 1..Len(data) : Ch(j) = data[j]
  BY TextFacts
<1>2. /\ Duration(from, from - 1) = "int"
      /\ \A j \in from..Len(data) :
            /\ Duration(from, j) \in States
            /\ Duration(from, j) = DurationStep(Duration(from, j - 1), data[j])
  <2>1. /\ Duration(from, from - 1) = "int"
        /\ \A j \in from..(Len(data) + 1) :
               /\ Duration(from, j - 1) \in States
               /\ Duration(from, j) = DurationStep(Duration(from, j - 1), Ch(j))
    BY DurationSteps
  <2>2. QED
    BY <1>1, <2>1, StepType
<1> DEFINE Good == {n \in Nat : from + n <= to /\ Duration(from, from + n) # "illegal" =>
                                   Reads(Duration(from, from + n), from, from + n)}
<1>3. 0 \in Good
  <2>1. from + 0 = from /\ Duration(from, from) = DurationStep("int", data[from])
    BY <1>1, <1>2
  <2>2. Duration(from, from) = "int"
    BY <2>1 DEF DurationStep, isDigit
  <2>3. Ended(from, from) = {}
    BY DEF Ended
  <2>4. Reads("int", from, from)
    BY <2>3 DEF Reads, Shape, Numbers
  <2>5. QED
    BY <2>1, <2>2, <2>4
<1>4. ASSUME NEW n \in Nat, n \in Good PROVE n + 1 \in Good
  <2> DEFINE j == from + n
  <2> SUFFICES ASSUME from + (n + 1) <= to, Duration(from, from + (n + 1)) # "illegal"
               PROVE  Reads(Duration(from, from + (n + 1)), from, from + (n + 1))
    OBVIOUS
  <2>1. /\ j \in Nat /\ from <= j /\ j <= to /\ j + 1 = from + (n + 1)
        /\ j \in from..Len(data) /\ j + 1 \in from..Len(data) /\ (j + 1) - 1 = j
    BY <1>1
  <2>2. Duration(from, j + 1) = DurationStep(Duration(from, j), data[j + 1]) /\ Duration(from, j) \in States
    BY <1>2, <2>1
  <2>3. Duration(from, j + 1) # "illegal"
    BY <2>1
  <2>4. Duration(from, j) # "illegal"
    BY <2>2, <2>3, IllegalStep
  <2>5. Reads(Duration(from, j), from, j)
    BY <1>4, <2>1, <2>4
  <2> HIDE DEF j
  <2>6. Reads(Duration(from, j + 1), from, j + 1)
    BY <2>1, <2>2, <2>3, <2>5, ReadsNext
  <2>7. QED
    BY <2>1, <2>6
<1>5. to - from \in Nat /\ from + (to - from) = to
  BY <1>1
<1>6. to - from \in Good
  <2> HIDE DEF Good
  <2>1. QED
    BY <1>3, <1>4, <1>5, SetInduction
<1>7. QED
  BY <1>1, <1>2, <1>5, <1>6

\* A number or a duration: what is taken for a duration names its units in order.
LEMMA NumberKeeps ==
  ASSUME ScanInv, scanIntOrDuration
  PROVE  ScanInv'
<1> DEFINE end == Behind(position, isDigit)
           Ends(j) ==
               /\ Duration(position, j) \in Complete
               /\ Ch(j + 1) \notin isDigit \/ Duration(position, j) = "ns"
               /\ ~(Duration(position, j) = "m" /\ Ch(j + 1) = "s")
           ends == {j \in end..Len(data) : Ends(j)}
           breaks == {j \in end..(Len(data) + 1) : Ch(j) = "nul" \/ Duration(position, j) = "illegal"}
<1>1. /\ Ch(position) \in isDigit /\ state = "scanning"
      /\ IF Ch(end) \notin {"n", "u", "m", "s", "h"} THEN Emit("INT", position, end - 1)
         ELSE IF ends # {} /\ (breaks = {} \/ Min(ends) < Min(breaks)) THEN Emit("DURATION", position, Min(ends))
         ELSE Emit("ILLEGAL", Min(breaks), Min(breaks))
  BY DEF scanIntOrDuration, Scanning
<1>2. position \in 1..Len(data) /\ Len(data) \in Nat /\ data[position] \in isDigit /\ TypeOK
  BY <1>1, CurrentFacts DEF ScanInv, isDigit
<1>3. end \in position..(Len(data) + 1) /\ (Ch(end) \notin isDigit \/ end = Len(data) + 1)
  BY <1>2, BehindFacts
<1>4. end # position
  BY <1>1, <1>2, <1>3
<1> HIDE DEF end
<1>5. CASE Emit("INT", position, end - 1)
  <2>1. Ch(position) \in WordLetters
    BY <1>1 DEF WordLetters
  <2>2. Fits("INT", position, end - 1)
    BY <1>2, <1>3, <1>4, <2>1 DEF Fits, Kinds
  <2>3. QED
    BY <1>1, <1>5, <2>2, EmitKeeps
<1>6. CASE ends # {} /\ Emit("DURATION", position, Min(ends))
  <2>1. ends \subseteq Nat /\ ends # {}
    BY <1>2, <1>3, <1>6
  <2>2. Min(ends) \in ends
    <3> HIDE DEF ends
    <3>1. QED
      BY <2>1, MinOf
  <2> DEFINE to == Min(ends)
             q == Duration(position, to)
             tok == Token("DURATION", position, to)
  <2>3. to \in position..Len(data) /\ q \in Complete
    BY <1>2, <1>3, <2>2
  <2>4. tok.from = position /\ tok.to = to
    BY DEF Token
  <2> HIDE DEF to, tok, ends
  <2>5. Reads(q, position, to) /\ q # "illegal"
    BY <1>2, <2>3, ReadsAll DEF Complete
  <2> HIDE DEF q
  <2>6. /\ Below(q) + 1 \in 1..6 /\ UnitOrder[Below(q) + 1] = Unit(to)
        /\ data[to] \notin isDigit /\ DOMAIN UnitOrder = 1..6 /\ Below(q) \in Nat
    BY <2>3, <2>5, UnitHere DEF Reads, UnitOrder, Below
  <2>7. UnitEnds(tok) = Ended(position, to) \cup {to}
    BY <1>2, <2>3, <2>4, <2>6 DEF UnitEnds, Ended
  <2>8. \A i \in Ended(position, to) : i \in Int /\ i < to
    BY <1>2, <2>3 DEF Ended
  <2>9. \A i \in Ended(position, to) : \E r \in 1..6 : r < Below(q) + 1 /\ UnitOrder[r] = Unit(i)
    <3>1. ASSUME NEW r \in 1..Below(q) PROVE r \in 1..6 /\ r < Below(q) + 1
      BY <2>6
    <3>2. QED
      BY <2>5, <3>1 DEF Reads
  <2>10. \A i \in Ended(position, to) : Larger(Unit(i), Unit(to))
    BY <2>6, <2>9 DEF Larger
  <2>11. ASSUME NEW i \in UnitEnds(tok), NEW j \in UnitEnds(tok), i < j PROVE Larger(Unit(i), Unit(j))
    <3>1. i \in Ended(position, to)
      BY <2>3, <2>7, <2>8, <2>11
    <3>2. CASE j \in Ended(position, to)
      BY <2>5, <2>11, <3>1, <3>2 DEF Reads
    <3>3. CASE j = to
      BY <2>10, <3>1, <3>3
    <3>4. QED
      BY <2>7, <3>2, <3>3
  <2>12. \A i \in UnitEnds(tok) : \E r \in DOMAIN UnitOrder : UnitOrder[r] = Unit(i)
    BY <2>6, <2>7, <2>9
  <2>13. Descends(tok)
    BY <2>11, <2>12 DEF Descends
  <2>14. Fits("DURATION", position, to)
    BY <1>2, <2>3, <2>13 DEF Fits, Kinds, tok
  <2>15. QED
    BY <1>1, <1>6, <2>14, EmitKeeps DEF to
<1>7. CASE Emit("ILLEGAL", Min(breaks), Min(breaks))
  <2>1. breaks \subseteq Nat /\ Len(data) + 1 \in breaks
    BY <1>2, <1>3, TextFacts
  <2>2. \A j \in breaks : position <= j
    BY <1>2, <1>3
  <2> HIDE DEF breaks
  <2>3. Min(breaks) \in breaks
    BY <2>1, MinOf
  <2> DEFINE m == Min(breaks)
  <2>4. m \in Nat /\ position <= m
    BY <2>1, <2>2, <2>3
  <2> HIDE DEF m
  <2>5. Fits("ILLEGAL", m, m)
    BY <1>2, <2>4 DEF Fits, Kinds
  <2>6. QED
    BY <1>1, <1>7, <2>5, EmitKeeps DEF m
<1>8. QED
  <2> HIDE DEF ends, breaks
  <2>1. QED
    BY <1>1, <1>5, <1>6, <1>7

(***************************************************************************)
(* The theorems                                                            *)
(***************************************************************************)
\* The scanner of a text has returned nothing and counted no line.
LEMMA ScanInit == Init => ScanInv
<1> SUFFICES ASSUME Init PROVE ScanInv
  OBVIOUS
<1> PICK f \in Families : \E n \in 0..Length[f] : \E rest \in [1..n -> Alphabet[f]] : data = Lead[f] \o rest
  BY DEF Init
<1>1. PICK n \in 0..Length[f] : \E rest \in [1..n -> Alphabet[f]] : data = Lead[f] \o rest
  OBVIOUS
<1>2. PICK rest \in [1..n -> Alphabet[f]] : data = Lead[f] \o rest
  BY <1>1
<1>3. Length[f] \in Nat /\ Lead[f] \in Seq(Characters) /\ Alphabet[f] \subseteq Characters
  BY TextsAssumption
<1>4. rest \in Seq(Characters)
  <2>1. n \in Nat /\ rest \in [1..n -> Characters]
    BY <1>3
  <2> HIDE DEF Characters
  <2>2. QED
    BY <2>1, SeqDef
<1>5. data \in Seq(Characters)
  BY <1>2, <1>3, <1>4, ConcatProperties
<1>6. position = 1 /\ lines = <<0>> /\ tokens = <<>> /\ state = "scanning"
  BY DEF Init
<1>7. TypeOK
  BY <1>5, <1>6 DEF TypeOK
<1>8. DOMAIN tokens = {} /\ Len(data) \in Nat
  BY <1>5, <1>6, LenProperties
<1>9. Placed /\ Ordered /\ Accounted /\ WholeWords /\ AtEnd /\ Timeouts
  BY <1>6, <1>8 DEF Placed, Ordered, Accounted, WholeWords, AtEnd, Timeouts
<1>10. QED
  BY <1>7, <1>9 DEF ScanInv

\* Every call of NextToken keeps the invariant.
LEMMA ScanStep == ScanInv /\ [Next]_vars => ScanInv'
<1> SUFFICES ASSUME ScanInv, [Next]_vars PROVE ScanInv'
  OBVIOUS
<1>1. CASE UNCHANGED vars
  <2>1. /\ data' = data /\ position' = position /\ lines' = lines /\ tokens' = tokens /\ state' = state
    BY <1>1 DEF vars
  <2>2. TypeOK' /\ Placed' /\ Ordered'
    BY <2>1 DEF ScanInv, TypeOK, Placed, Ordered
  <2>3. Accounted'
    BY <2>1, TokensKept DEF ScanInv, Accounted
  <2>4. AtEnd'
    BY <2>1 DEF ScanInv, AtEnd, Ch
  <2>5. QED
    BY <2>1, <2>2, <2>3, <2>4, TokensKept DEF ScanInv
<1>2. CASE Next
  BY <1>2, SkipKeeps, SignKeeps, DotsKeep, LineCommentKeeps, DocumentKeeps, StringKeeps, AtKeeps, IdentKeeps,
     NumberKeeps, EofKeeps, IllegalKeeps DEF Next
<1>3. QED
  BY <1>1, <1>2

\* What NextToken has returned so far is in order, well placed and complete, for
\* every text: the inductive invariant of the scanner.
THEOREM ScanInvariant == Spec => []ScanInv
<1>1. Init => ScanInv
  BY ScanInit
<1>2. ScanInv /\ [Next]_vars => ScanInv'
  BY ScanStep
<1>3. QED
  BY <1>1, <1>2, PTL DEF Spec

\* A text that can be accepted is accounted for, character by character.
LEMMA InvLosesNothing == ScanInv => NothingLost
<1> SUFFICES ASSUME ScanInv, Legal PROVE NothingLost
  BY DEF NothingLost
<1>1. TypeOK /\ Len(data) \in Nat /\ state = "eof" /\ \A k \in DOMAIN tokens : tokens[k].type # "ILLEGAL"
  BY TextFacts DEF ScanInv, Legal
<1>2. /\ DOMAIN tokens = 1..Len(tokens) /\ Len(tokens) \in Nat
      /\ \A k \in DOMAIN tokens : tokens[k].from \in Nat /\ tokens[k].to \in Nat
  BY <1>1, TokenTypes
<1>3. \A k, l \in DOMAIN tokens : k < l => tokens[k].to < tokens[l].from
  BY DEF ScanInv, Ordered
<1>4. ASSUME NEW i \in Nat, NEW k \in DOMAIN tokens, i \in tokens[k].from..tokens[k].to
      PROVE  Covered(i) = {k}
  <2>1. ASSUME NEW l \in DOMAIN tokens, l # k PROVE i \notin tokens[l].from..tokens[l].to
    BY <1>2, <1>3, <1>4, <2>1
  <2>2. QED
    BY <1>4, <2>1 DEF Covered
<1>5. ASSUME NEW i \in 1..(position - 1)
      PROVE  \/ data[i] \in isWhiteSpace
             \/ \E k \in DOMAIN tokens : Covered(i) = {k}
             \/ data[i] = "." /\ Ch(i + 1) = "." /\ Covered(i) = {} /\ Ch(i + 2) # "."
  <2>1. Spare(i) \/ \E k \in DOMAIN tokens : i \in tokens[k].from..tokens[k].to
    BY <1>1 DEF ScanInv, Accounted
  <2>2. (\A k \in DOMAIN tokens : i \notin tokens[k].from..tokens[k].to) => Covered(i) = {}
    BY DEF Covered
  <2>3. i \in Nat
    BY <1>1 DEF TypeOK
  <2>4. QED
    BY <1>4, <2>1, <2>2, <2>3 DEF Spare
<1>6. ASSUME NEW k \in 1..(Len(tokens) - 1), tokens[k].type = "IDENT", tokens[k + 1].type \in {"IDENT", "INT"}
      PROVE  tokens[k].to + 1 < tokens[k + 1].from
  <2>1. k \in DOMAIN tokens /\ k + 1 \in DOMAIN tokens /\ k < k + 1
    BY <1>2
  <2>2. Ch(tokens[k].to + 1) \notin WordLetters /\ Ch(tokens[k + 1].from) \in WordLetters
    BY <1>6, <2>1 DEF ScanInv, WholeWords
  <2>3. tokens[k].to < tokens[k + 1].from /\ tokens[k].to + 1 # tokens[k + 1].from
    BY <1>3, <2>1, <2>2
  <2>4. QED
    BY <1>2, <2>1, <2>3
<1>7. position = Len(data) + 1 \/ data[position] = "nul"
  <2>1. position \in 1..(Len(data) + 1) /\ Ch(position) = "nul"
    BY <1>1 DEF ScanInv, TypeOK, Accounted, AtEnd
  <2>2. QED
    BY <1>1, <2>1, TextFacts
<1>8. QED
  BY <1>5, <1>6, <1>7 DEF NothingLost

\* Two tokens of a text are never at one position.
LEMMA InvSetsApart == ScanInv => TokensApart
<1> SUFFICES ASSUME ScanInv, NEW k \in DOMAIN tokens, NEW l \in DOMAIN tokens, k < l
             PROVE  tokens[k].pos # tokens[l].pos
  <2>1. DOMAIN tokens = 1..Len(tokens) /\ Len(tokens) \in Nat
    BY TokenTypes DEF ScanInv
  <2>2. \A k, l \in DOMAIN tokens : k # l => k < l \/ l < k
    BY <2>1
  <2>3. QED
    BY <2>2 DEF TokensApart
<1>1. tokens[k].from < tokens[l].from /\ tokens[k].from \in Nat /\ tokens[l].from \in Nat
  BY TokenTypes DEF ScanInv, Ordered
<1>2. /\ tokens[k].pos.line \in DOMAIN lines /\ tokens[k].pos.column = tokens[k].from - lines[tokens[k].pos.line]
      /\ tokens[l].pos.line \in DOMAIN lines /\ tokens[l].pos.column = tokens[l].from - lines[tokens[l].pos.line]
  BY DEF ScanInv, Placed
<1>3. lines[tokens[k].pos.line] \in Nat
  BY <1>2, LenProperties, ElementOfSeq DEF ScanInv, TypeOK
<1>4. QED
  BY <1>1, <1>2, <1>3

\* NextToken drops no character that it does not refuse, splits no word, and what it
\* takes for a timeout names each unit once, the larger before the smaller, whatever
\* the text.
THEOREM ScanReadsAsWritten == Spec => []ReadAsWritten
<1>1. ScanInv => DurationsDescend
  BY DEF ScanInv, Timeouts, Descends, DurationsDescend, Of
<1>2. ScanInv => ReadAsWritten
  BY <1>1, InvLosesNothing DEF ReadAsWritten
<1>3. QED
  BY <1>2, ScanInvariant, PTL

\* The positions by which the parser keys the nodes of its tree are different, for
\* any text, wherever the newlines stand that were not counted.
THEOREM ScanSetsTokensApart == Spec => []TokensApart
BY InvSetsApart, ScanInvariant, PTL
=============================================================================
