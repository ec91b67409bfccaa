---------------------------- MODULE ProtoImports ----------------------------
(***************************************************************************)
(* ResolveImports (rpc/parser/import.go): the proto files that a source    *)
(* imports, directly or through others, in the order in which              *)
(* collectImports comes upon them.  They are passed to protoc together     *)
(* with the source, and the messages of an RPC are looked up by their      *)
(* packages.                                                               *)
(***************************************************************************)
EXTENDS Naturals, SequencesExt

CONSTANTS Dir,        \* directories that may be searched
          Name,       \* names a file may be imported by
          WellKnown,  \* those that start with google/
          Main,       \* the name of the source
          ProtoPaths, \* the directory of the source, and then --proto_path
          Layouts,    \* what the directories may hold
          On          \* of each: the files there are, what each imports, and
                      \* those that cannot be parsed

ProtoFile == Dir \X Name

Src == <<ProtoPaths[1], Main>>

ASSUME PathsAssumption == ProtoPaths \in Seq(Dir) /\ ProtoPaths # <<>> /\ Main \in Name

ASSUME LayoutsAssumption ==
    \A l \in Layouts : /\ On[l].disk \subseteq ProtoFile /\ Src \in On[l].disk
                       /\ On[l].imports \in [ProtoFile -> Seq(Name)]
                       /\ On[l].broken \subseteq On[l].disk

VARIABLES layout,   \* what is on the disk
          stack,    \* calls of collectImports: the file, and the imports it has left
          opening,  \* the file that collectImports is called with and has not read
          visited,
          result,
          status    \* "idle", "walking", "done" or "error"

walkVars == <<layout, stack, opening, visited, result, status>>

Nothing == <<>>

WalkInit == /\ layout \in Layouts
            /\ stack = <<>>
            /\ opening = Nothing
            /\ visited = {}
            /\ result = <<>>
            /\ status = "idle"

ResolveImports(l) ==
    /\ layout' = l
    /\ stack' = <<>>
    /\ opening' = Src
    /\ visited' = {Src}
    /\ result' = <<>>
    /\ status' = "walking"

\* lookupProtoFile: the first directory that has the file.
Holds(n) == {i \in DOMAIN ProtoPaths : <<ProtoPaths[i], n>> \in On[layout].disk}

lookupProtoFile(n) == <<ProtoPaths[CHOOSE i \in Holds(n) : \A j \in Holds(n) : i <= j], n>>

Found(n) == n \notin WellKnown /\ Holds(n) # {}
-----------------------------------------------------------------------------
\* parseImportFilenames, at the start of collectImports.
Read == /\ opening # Nothing /\ opening \notin On[layout].broken
        /\ stack' = <<[file |-> opening, left |-> On[layout].imports[opening]]>> \o stack
        /\ opening' = Nothing
        /\ UNCHANGED <<layout, visited, result, status>>

\* An error of any call is the error of all.
Fail == /\ opening # Nothing /\ opening \in On[layout].broken
        /\ status' = "error"
        /\ opening' = Nothing /\ stack' = <<>>
        /\ UNCHANGED <<layout, visited, result>>

Frame == Head(stack)

InLoop == opening = Nothing /\ stack # <<>> /\ Frame.left # <<>>

New(n) == Found(n) /\ lookupProtoFile(n) \notin visited

Rest == [stack EXCEPT ![1].left = Tail(@)]

\* Mutation: an import that is skipped ends the loop.
SkipBreaks == /\ InLoop /\ ~New(Head(Frame.left))
              /\ stack' = [stack EXCEPT ![1].left = <<>>]
              /\ UNCHANGED <<layout, opening, visited, result, status>>

\* A well-known file, one that is in no directory, or one that has been visited.
SkipImport == /\ InLoop /\ ~New(Head(Frame.left))
              /\ stack' = Rest
              /\ UNCHANGED <<layout, opening, visited, result, status>>

Descend == /\ InLoop /\ New(Head(Frame.left))
           /\ opening' = lookupProtoFile(Head(Frame.left))
           /\ visited' = visited \cup {opening'}
           /\ result' = Append(result, opening')
           /\ stack' = Rest
           /\ UNCHANGED <<layout, status>>

Return == /\ opening = Nothing /\ stack # <<>> /\ Frame.left = <<>>
          /\ stack' = Tail(stack)
          /\ status' = IF Len(stack) = 1 THEN "done" ELSE status
          /\ UNCHANGED <<layout, opening, visited, result>>

collectImports == Read \/ Fail \/ SkipImport \/ Descend \/ Return

\* The process ends.
Forget == /\ status' = "idle"
          /\ stack' = <<>> /\ opening' = Nothing /\ visited' = {} /\ result' = <<>>
          /\ UNCHANGED layout

WalkNext == (\E l \in Layouts : ResolveImports(l)) \/ collectImports \/ Forget

WalkSpec == WalkInit /\ [][WalkNext]_walkVars
-----------------------------------------------------------------------------
\* The files that a file imports, as far as they are found.
ImportsOf(f) == {lookupProtoFile(n) : n \in {m \in ToSet(On[layout].imports[f]) : Found(m)}}

Closed(S) == \A f \in S : ImportsOf(f) \subseteq S

\* The walk returns exactly the files that imports lead to from the source,
\* each once and never the source, whatever cycles and diamonds the imports
\* form; it fails only if one of these files cannot be parsed.
ImportsReached ==
    /\ status = "done" =>
         /\ IsInjective(result)
         /\ Src \notin ToSet(result)
         /\ Closed({Src} \cup ToSet(result))
         /\ \A S \in SUBSET On[layout].disk : Src \in S /\ Closed(S) => ToSet(result) \subseteq S
    /\ status = "error" => visited \cap On[layout].broken # {}
=============================================================================
