---------------------------- MODULE MCApiImport ----------------------------
(***************************************************************************)
(* Instances of ApiImport for TLC: four files.                             *)
(***************************************************************************)
EXTENDS ApiImport, TLC

CONSTANT Fourth    \* a file other than the root

ASSUME FourthAssumption == Fourth \in Path \ {Root}

Three == Path \ {Fourth}
NotImported == [status |-> "good", imports |-> {}, syntax |-> CHOOSE v \in Syntax : TRUE]

\* Every import graph on three files (self imports included) with every
\* assignment of syntax versions, and at most one file that does not load.
Faulty ==
  {f \in [Three -> [status : Status, imports : SUBSET Three, syntax : Syntax]] :
     /\ Cardinality({p \in Three : f[p].status # "good"}) <= 1
     /\ \A p \in Three : f[p].status # "good" => f[p].imports = {}}

\* Every import graph of four good files of one version, none importing itself.
Graphs ==
  {[p \in Path |-> [NotImported EXCEPT !.imports = g[p]]] :
     g \in {h \in [Path -> SUBSET Path] : \A p \in Path : p \notin h[p]}}

MCDisk == {d @@ (Fourth :> NotImported) : d \in Faulty \cup Graphs}
=============================================================================
