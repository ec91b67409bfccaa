------------------------------ MODULE ApiTypes ------------------------------
(***************************************************************************)
(* Data types of the .api language, as the parser's ast.DataType and as    *)
(* the spec.Type they are converted to, with the checks made on the way    *)
(* (pkg/parser/api/parser: api.go and analyzer.go; ast/typestatement.go).  *)
(*                                                                         *)
(* A data type is a term [k, n, d]: its kind, the name of a base type and  *)
(* the types it is built from (the key and value of a map, the elements of *)
(* a struct, the one below a pointer, an array or a slice).  Names are     *)
(* numbers in their lexical order.  The n of a struct is Commented when    *)
(* its text has a comment, before the one brace or behind the other.       *)
(***************************************************************************)
EXTENDS Naturals, SequencesExt

CONSTANTS BaseType,   \* the names IsBaseType knows
          DataType    \* the data types under consideration

Kind == {"base", "any", "interface", "struct", "map", "ptr", "array", "dynarray", "slice"}

\* A data type is considered with everything it is built from, and only the
\* kinds that are built from something are.
ASSUME DataTypeAssumption ==
  \A t \in DataType :
    /\ t.k \in Kind
    /\ t.n \in Nat
    /\ t.d \in Seq(DataType)
    /\ t.k \in {"base", "any", "interface"} => t.d = << >>
    /\ t.k \in {"ptr", "array", "dynarray", "slice"} => Len(t.d) = 1
    /\ t.k = "map" => Len(t.d) = 2

IsBaseType(n) == n \in BaseType

Commented == 1

\* Some part of t is a struct.
ContainsStruct[t \in DataType] ==
  t.k = "struct" \/ \E i \in DOMAIN t.d : ContainsStruct[t.d[i]]

\* Values of t can be compared, so t can be the key of a map.
CanEqual[t \in DataType] ==
  t.k \notin {"map", "slice"} /\ \A i \in DOMAIN t.d : CanEqual[t.d[i]]

\* Mutation: the types inside a container are not looked at.
UnresolvedShallow(t, declared) ==
  \/ t.k = "base" /\ ~IsBaseType(t.n) /\ t.n \notin declared
  \/ \E i \in DOMAIN t.d : t.d[i].k = "base" /\ ~IsBaseType(t.d[i].n) /\ t.d[i].n \notin declared

\* checkTypeExprContext: some name in t is neither a base type nor declared.
\* The elements of dynamic arrays are looked at too.
Unresolved(t, declared) ==
  LET unresolved[u \in DataType] ==
        \/ u.k = "base" /\ ~IsBaseType(u.n) /\ u.n \notin declared
        \/ \E i \in DOMAIN u.d : unresolved[u.d[i]]
  IN  unresolved[t]

\* The text of t is that of a base type: a base type's name, or "any".
RawIsBaseType(t) == t.k = "any" \/ (t.k = "base" /\ IsBaseType(t.n))

\* astTypeToSpec returns an error for t. A struct is empty when its text is that of
\* its braces.
Unsupported[t \in DataType] ==
  \/ t.k = "any"
  \/ t.k = "struct" /\ ((t.d = << >> /\ t.n # Commented) \/ \E i \in DOMAIN t.d : Unsupported[t.d[i]])
  \/ /\ t.k = "map"
     /\ \/ t.d[1].k \notin {"base", "any"}
        \/ ~CanEqual[t.d[1]]
        \/ ContainsStruct[t.d[2]]
        \/ Unsupported[t.d[2]]
  \/ t.k = "ptr" /\ ~RawIsBaseType(t.d[1]) /\ Unsupported[t.d[1]]
  \/ t.k = "dynarray"
  \/ t.k \in {"array", "slice"} /\ (ContainsStruct[t] \/ Unsupported[t.d[1]])

\* What astTypeToSpec makes of a supported t, again as a term: names become
\* primitives or references ("define") to declared structs, arrays and slices
\* become one kind, a map keeps the text of its key and its converted value.
\* The parts of t are converted by f.
Converted(f, t) ==
  CASE t.k = "base" -> [k |-> IF IsBaseType(t.n) THEN "primitive" ELSE "define", n |-> t.n, d |-> << >>]
    [] t.k = "any" -> [k |-> "primitive", n |-> 0, d |-> << >>]
    [] t.k = "struct" -> [k |-> "nested", n |-> 0, d |-> [i \in DOMAIN t.d |-> f[t.d[i]]]]
    [] t.k = "map" -> [k |-> "map", n |-> t.d[1].n, d |-> <<f[t.d[2]]>>]
    [] t.k = "ptr" -> [k |-> "ptr", n |-> 0, d |-> <<f[t.d[1]]>>]
    [] t.k \in {"array", "slice", "dynarray"} -> [k |-> "array", n |-> 0, d |-> <<f[t.d[1]]>>]
    [] t.k = "interface" -> [k |-> "interface", n |-> 0, d |-> << >>]

ToSpec[t \in DataType] == Converted(ToSpec, t)
=============================================================================
