----------------------------- MODULE ApiImport -----------------------------
(***************************************************************************)
(* How a .api file and the files it imports become one API value: Parse    *)
(* (analyzer.go) opens the root file, parseReverse / parseImportedAPI      *)
(* (api.go) walk the imports depth first, each map of imports in Go's      *)
(* random map order, and mergeAPI appends what was imported.               *)
(*                                                                         *)
(* The Go call stack of parseReverse is importManager itself: every call   *)
(* is preceded by a Push of its file and followed by a Pop.  The locals of *)
(* a call (the imports not visited yet, the list of nested APIs) and the   *)
(* API value it works on are therefore functions of the file.              *)
(***************************************************************************)
EXTENDS Naturals, SequencesExt

CONSTANTS Path,      \* absolute paths of .api files, after filepath.Join
          Root,      \* the file given to Parse
          Syntax,    \* values of the syntax statement
          Disk       \* the contents the files may have

\* What opening a file gives: "good" parses and converts; "bad" has errors
\* (CheckErrors); "dup" repeats a syntax or info statement; "missing" cannot be
\* read, or is empty (log.Fatalln); "blank" holds no statement (a.Stmts[0]).
Status == {"good", "bad", "dup", "missing", "blank"}

File == [status : Status, imports : SUBSET Path, syntax : Syntax]

ASSUME RootAssumption == Root \in Path
ASSUME DiskAssumption == Disk \subseteq [Path -> File]

VARIABLES disk,           \* the files; read once each, so they do not change
          phase,          \* where Parse is, or how it ended
          failure,        \* the error Parse returned, "none" before one
          importManager,  \* the ImportStack, shared by every API value
          importSet,      \* the paths imported so far, shared as well
          todo,           \* todo[p]: imports the range loop of p has left
          list,           \* list[p]: nested APIs p has still to merge
          content         \* content[p]: the files whose statements p's API holds

vars == <<disk, phase, failure, importManager, importSet, todo, list, content>>

Phase == {"start", "loading", "loaded", "failed", "exited", "panicked"}
Failure == {"none", "cycle", "parse", "duplicate", "syntax"}

Imports(p) == disk[p].imports
\* Mutation: a path found in importSet is reported as a cycle.
OnStackOrImported(p) == p \in importSet \/ p \in ToSet(importManager)
OnStack(p) == \E i \in DOMAIN importManager : importManager[i] = p
Top == Last(importManager)

----------------------------------------------------------------------------
Init ==
  /\ disk \in Disk
  /\ phase = "start"
  /\ failure = "none"
  /\ importManager = << >>
  /\ importSet = {}
  /\ todo = [p \in Path |-> {}]
  /\ list = [p \in Path |-> << >>]
  /\ content = [p \in Path |-> << >>]

\* New, Parse, CheckErrors and convert2API of a file that is in order: its API
\* value holds its own statements, and parseReverse starts on its imports.
Open(p, pending) ==
  /\ disk[p].status = "good"
  /\ phase' = "loading"
  /\ todo' = [pending EXCEPT ![p] = Imports(p)]
  /\ content' = [content EXCEPT ![p] = <<p>>]
  /\ UNCHANGED <<failure, list>>

\* The same of a file that is not: an error, log.Fatalln, or an index panic.
OpenFails(p) ==
  /\ \/ /\ disk[p].status = "bad"
        /\ phase' = "failed" /\ failure' = "parse"
     \/ /\ disk[p].status = "dup"
        /\ phase' = "failed" /\ failure' = "duplicate"
     \/ /\ disk[p].status = "missing"
        /\ phase' = "exited" /\ UNCHANGED failure
     \/ /\ disk[p].status = "blank"
        /\ phase' = "panicked" /\ UNCHANGED failure
  /\ UNCHANGED <<todo, list, content>>

\* Parse: open the root, put it on the stack; it is not put in importSet.
ParseRoot ==
  /\ phase = "start"
  /\ Open(Root, todo) \/ OpenFails(Root)
  /\ importManager' = IF disk[Root].status \in {"good", "dup", "blank"}
                      THEN <<Root>> ELSE importManager
  /\ UNCHANGED <<disk, importSet>>

\* One iteration of the loop over importValueSet, in an order Go chooses.
Visit(p) == phase = "loading" /\ p \in todo[Top]

ImportCycle(p) ==                       \* Push fails: p is on the stack
  /\ Visit(p)
  /\ OnStack(p)
  /\ phase' = "failed" /\ failure' = "cycle"
  /\ UNCHANGED <<disk, importManager, importSet, todo, list, content>>

\* Mutation: break where the code has continue.
SkipImportedBreaks(p) ==
  /\ Visit(p)
  /\ ~OnStack(p)
  /\ p \in importSet
  /\ todo' = [todo EXCEPT ![Top] = {}]
  /\ UNCHANGED <<disk, phase, failure, importManager, importSet, list, content>>

\* Mutation: the same import is looked at for ever.
SkipImportedStays(p) ==
  /\ Visit(p)
  /\ ~OnStack(p)
  /\ p \in importSet
  /\ UNCHANGED vars

SkipImported(p) ==                      \* pushed, found in importSet, popped
  /\ Visit(p)
  /\ ~OnStack(p)
  /\ p \in importSet
  /\ todo' = [todo EXCEPT ![Top] = @ \ {p}]
  /\ UNCHANGED <<disk, phase, failure, importManager, importSet, list, content>>

OpenImport(p) ==
  /\ Visit(p)
  /\ ~OnStack(p)
  /\ p \notin importSet
  /\ importManager' = Append(importManager, p)
  /\ importSet' = importSet \cup {p}
  /\ Open(p, [todo EXCEPT ![Top] = @ \ {p}]) \/ OpenFails(p)
  /\ UNCHANGED disk

\* parseReverse, after the loop: merge the nested APIs in list order.
MergeMismatch ==
  /\ phase = "loading" /\ todo[Top] = {} /\ list[Top] # << >>
  /\ disk[Head(list[Top])].syntax # disk[Top].syntax
  /\ phase' = "failed" /\ failure' = "syntax"
  /\ UNCHANGED <<disk, importManager, importSet, todo, list, content>>

\* Mutation: mergeAPI without its comparison of the syntax values.
MergeNestedAnySyntax ==
  /\ phase = "loading" /\ todo[Top] = {} /\ list[Top] # << >>
  /\ content' = [content EXCEPT ![Top] = @ \o content[Head(list[Top])]]
  /\ list' = [list EXCEPT ![Top] = Tail(@)]
  /\ UNCHANGED <<disk, phase, failure, importManager, importSet, todo>>

\* Mutation: only the nested file's own statements are merged.
MergeNestedShallow ==
  /\ phase = "loading" /\ todo[Top] = {} /\ list[Top] # << >>
  /\ disk[Head(list[Top])].syntax = disk[Top].syntax
  /\ content' = [content EXCEPT ![Top] = Append(@, Head(list[Top]))]
  /\ list' = [list EXCEPT ![Top] = Tail(@)]
  /\ UNCHANGED <<disk, phase, failure, importManager, importSet, todo>>

MergeNested ==
  /\ phase = "loading" /\ todo[Top] = {} /\ list[Top] # << >>
  /\ disk[Head(list[Top])].syntax = disk[Top].syntax
  /\ content' = [content EXCEPT ![Top] = @ \o content[Head(list[Top])]]
  /\ list' = [list EXCEPT ![Top] = Tail(@)]
  /\ UNCHANGED <<disk, phase, failure, importManager, importSet, todo>>

\* parseReverse returns to the loop that called it, which pops the file and
\* appends its API to the list; the root's returns to SelfCheck.
ReturnNested ==
  /\ phase = "loading" /\ todo[Top] = {} /\ list[Top] = << >>
  /\ Len(importManager) > 1
  /\ importManager' = Front(importManager)
  /\ LET importer == Last(Front(importManager))
     IN  list' = [list EXCEPT ![importer] = Append(@, Top)]
  /\ UNCHANGED <<disk, phase, failure, importSet, todo, content>>

ReturnRoot ==
  /\ phase = "loading" /\ todo[Top] = {} /\ list[Top] = << >>
  /\ Len(importManager) = 1
  /\ phase' = "loaded"
  /\ UNCHANGED <<disk, failure, importManager, importSet, todo, list, content>>

Terminal == {"loaded", "failed", "exited", "panicked"}

Stop == phase \in Terminal /\ UNCHANGED vars

LoadNext ==
  \/ ParseRoot
  \/ \E p \in Path : ImportCycle(p) \/ SkipImported(p) \/ OpenImport(p)
  \/ MergeMismatch
  \/ MergeNested
  \/ ReturnNested
  \/ ReturnRoot
  \/ Stop

\* Parse is sequential code: it goes on as long as it has a step to take.
LoadSpec == Init /\ [][LoadNext]_vars /\ WF_vars(LoadNext)

----------------------------------------------------------------------------
\* What the files themselves say, whatever order they are visited in.
Closed(S) == \A p \in S : Imports(p) \subseteq S

Reachable == {p \in Path : \A S \in SUBSET Path : Root \in S /\ Closed(S) => p \in S}

\* Every set of files has one that imports none of the set: for finitely many
\* files, this is the absence of an import cycle.
Acyclic(S) == \A C \in SUBSET S : C # {} => \E p \in C : Imports(p) \cap C = {}

Loadable ==
  /\ Acyclic(Reachable)
  /\ \A p \in Reachable : disk[p].status = "good" /\ disk[p].syntax = disk[Root].syntax

Loaded == importSet \cup {Root}
Finished == {p \in Loaded : ~OnStack(p)}

----------------------------------------------------------------------------
\* Every variable keeps its shape, and a failure is recorded exactly when Parse
\* returns an error.
TypeOK ==
  /\ disk \in [Path -> File]
  /\ phase \in Phase
  /\ failure \in Failure
  /\ importManager \in Seq(Path)
  /\ importSet \in SUBSET Path
  /\ todo \in [Path -> SUBSET Path]
  /\ list \in [Path -> Seq(Path)]
  /\ content \in [Path -> Seq(Path)]
  /\ phase = "failed" <=> failure # "none"

\* The import stack is a chain of imports from the root without repetition,
\* and only its non-root members were put in importSet (Push, Pop and
\* importSet stay in step whatever is skipped).
StackChain ==
  phase = "loading" =>
    /\ importManager # << >> /\ importManager[1] = Root
    /\ Root \notin importSet
    /\ IsInjective(importManager)
    /\ \A i \in DOMAIN importManager :
          i > 1 => /\ importManager[i] \in Imports(importManager[i - 1])
                   /\ importManager[i] \in importSet

\* A file that left the stack is good, has all its imports loaded and off the
\* stack, and takes part in no cycle: the reason why finding a file in
\* importSet is enough to skip it.
FinishedSound ==
  phase = "loading" =>
    /\ \A p \in Loaded : disk[p].status = "good"
    /\ Closed(Finished)
    /\ Acyclic(Finished)

\* What a file on the stack has not left to visit is finished, except the
\* import it is waiting for.
StackProgress ==
  phase = "loading" =>
    \A i \in DOMAIN importManager :
      LET p == importManager[i]
      IN  /\ todo[p] \subseteq Imports(p)
          /\ \A q \in Imports(p) \ todo[p] :
                q \in Finished \/ (i < Len(importManager) /\ q = importManager[i + 1])

\* Nothing is loaded that the root does not reach.
OnlyReachable == Loaded \subseteq Reachable

\* A successful load has opened every file the root reaches and no other, all
\* of them in order, and the imports among them form no cycle.
LoadedIsClosed ==
  phase = "loaded" =>
    /\ Loaded = Reachable
    /\ Acyclic(Loaded)
    /\ \A p \in Loaded : disk[p].status = "good"

\* The cycle error of Push is given only for files that do import each other
\* in a circle the root reaches: importing a file twice along two paths
\* (a diamond) is not a cycle.
CycleIsReal ==
  failure = "cycle" =>
    \E C \in SUBSET Reachable : C # {} /\ \A p \in C : Imports(p) \cap C # {}

\* The invariant that is inductive: it holds initially and every step keeps it.
LoadInv ==
  /\ TypeOK /\ StackChain /\ FinishedSound /\ StackProgress /\ OnlyReachable
  /\ LoadedIsClosed /\ CycleIsReal
  /\ phase = "start" => importManager = << >> /\ importSet = {}

\* After a successful load the root's API holds the statements of every loaded
\* file exactly once, however many files import it.
MergedOnce ==
  phase = "loaded" =>
    /\ Len(content[Root]) = Cardinality(Loaded)
    /\ ToSet(content[Root]) = Loaded

\* Whether Parse gets past loading is decided by the files alone and not by
\* the random order in which Go ranges over the map of imports.
OutcomeDetermined == phase \in Terminal => (phase = "loaded" <=> Loadable)

\* Loading ends for every set of files, cyclic ones included.
LoadTerminates == <>(phase \in Terminal)
=============================================================================
