----------------------------- MODULE ApiAnalyze -----------------------------
(***************************************************************************)
(* What Parse does with the files ApiImport has loaded: SelfCheck's checks *)
(* (api.go, filter.go) and convert2Spec (analyzer.go), which turns the     *)
(* merged statements into the ApiSpec the generators read.                 *)
(*                                                                         *)
(* A declaration, a handler or a route carries the position its token has  *)
(* in its file.  token.Position holds the base name of the file, the line  *)
(* and the column, so two files of one name may give equal positions.      *)
(***************************************************************************)
EXTENDS ApiImport, ApiTypes

CONSTANTS Body    \* the statements the files may hold: a set of functions on Path

\* A body: repeatsImport and repeatsInfo say whether an import value or an info
\* key stands there twice; types is a sequence of [name, pos, dt]; services one
\* of [name, group, prefix, sse, routes], where a route is a record
\* [handler, at, path, req, resp, note, pos]: the handler's name and its position,
\* the method and the path, the bodies, the comments that Format prints with them,
\* and the position of the method.  A request or response body is [form, n]; form
\* "none" when there is none.
BodyForm == {"none", "plain", "ptr", "list", "ptrlist"}
NoHandler == 0                      \* an item that parsed without @handler and route

\* The data types of the declarations are considered.  Texts that are compared
\* and sorted by are numbers in their lexical order.
ASSUME BodyAssumption ==
  \A b \in Body : \A p \in Path :
    /\ {b[p].repeatsImport, b[p].repeatsInfo} \subseteq BOOLEAN
    /\ b[p].types \in Seq(ToSet(b[p].types))
    /\ \A d \in ToSet(b[p].types) : d.name \in Nat /\ d.dt \in DataType
    /\ b[p].services \in Seq(ToSet(b[p].services))
    /\ \A s \in ToSet(b[p].services) :
         /\ s \in [name : Nat, group : Nat, prefix : Nat, sse : BOOLEAN, routes : Seq(ToSet(s.routes))]
         /\ \A r \in ToSet(s.routes) : r.path[2] \in Nat

VARIABLES body,         \* the statements of the files
          stage,        \* the next check or conversion, or how Parse ended
          problem,      \* the error of a check or conversion, "none" before one
          types,        \* ApiSpec.Types
          groups,       \* ApiSpec.Service.Groups
          serviceName   \* ApiSpec.Service.Name, 0 when empty

specVars == <<types, groups, serviceName>>
analyzeVars == <<body, stage, problem, types, groups, serviceName>>
allVars == <<vars, analyzeVars>>

Stage == {"checkImport", "checkInfo", "checkType", "checkService", "checkDeclared",
          "fillTypes", "resolveTypes", "fillService", "sort",
          "parsed", "rejected", "crashed"}
Ended == {"parsed", "rejected", "crashed"}

----------------------------------------------------------------------------
\* The merged statements of the root's API: mergeAPI appends the types and the
\* services of the nested APIs, never their imports and info blocks.
TypeStmt == FlattenSeq([i \in DOMAIN content[Root] |-> body[content[Root][i]].types])
ServiceStmts == FlattenSeq([i \in DOMAIN content[Root] |-> body[content[Root][i]].services])

\* filterBuilder.check on nodes given as [text, pos]: some text comes again at
\* a position other than the one it was entered with.
Duplicated(nodes) ==
  \E i, j \in DOMAIN nodes : nodes[i].text = nodes[j].text /\ nodes[i].pos # nodes[j].pos

\* The nodes checkServiceStmt enters for the routes: the text of a path is the
\* prefix and the whole route as Format prints it, with bodies and comments.
AllRoutes ==
  FlattenSeq([s \in DOMAIN ServiceStmts |->
    [r \in DOMAIN ServiceStmts[s].routes |->
       [svc |-> ServiceStmts[s], route |-> ServiceStmts[s].routes[r]]]])
HandlerNodes ==
  [i \in DOMAIN AllRoutes |->
     [text |-> <<AllRoutes[i].svc.group, AllRoutes[i].route.handler>>,
      pos  |-> AllRoutes[i].route.at]]

PathNodes ==
  [i \in DOMAIN AllRoutes |->
     [text |-> <<AllRoutes[i].svc.prefix, AllRoutes[i].route.path,
                 AllRoutes[i].route.req, AllRoutes[i].route.resp, AllRoutes[i].route.note>>,
      pos  |-> AllRoutes[i].route.pos]]

DeclaredNames == {TypeStmt[i].name : i \in DOMAIN TypeStmt}

\* sort.SliceStable of s, key[i] being what its i-th element is compared by: the
\* n-th of the result is the one with n - 1 before it.
StableSort(s, key) ==
  LET before(i) == {j \in DOMAIN s : key[j] < key[i] \/ (key[j] = key[i] /\ j < i)}
  IN  [n \in DOMAIN s |-> s[CHOOSE i \in DOMAIN s : Cardinality(before(i)) = n - 1]]

ByName(ts) == StableSort(ts, [i \in DOMAIN ts |-> ts[i].name])
ByPath(rs) == StableSort(rs, [i \in DOMAIN rs |-> rs[i].path[2]])
ByGroup(gs) == StableSort(gs, [i \in DOMAIN gs |-> gs[i].group])

----------------------------------------------------------------------------
AnalyzeStart ==
  /\ stage = "checkImport"
  /\ problem = "none"
  /\ types = << >>
  /\ groups = << >>
  /\ serviceName = 0

AnalyzeInit == Init /\ body \in Body /\ AnalyzeStart

\* One check of SelfCheck: it fails Parse, or the next one is made.
Check(name, fails, next) ==
  /\ phase = "loaded"
  /\ stage = name
  /\ IF fails
     THEN stage' = "rejected" /\ problem' = name
     ELSE stage' = next /\ UNCHANGED problem
  /\ UNCHANGED <<vars, body, types, groups, serviceName>>

\* Import values and info keys of the root only.
CheckImportStmt == Check("checkImport", body[Root].repeatsImport, "checkInfo")
CheckInfoStmt == Check("checkInfo", body[Root].repeatsInfo, "checkType")

\* Mutation: only the declarations of the root file are compared.
CheckTypeStmtRootOnly ==
  LET own == body[Root].types
      nodes == [i \in DOMAIN own |-> [text |-> own[i].name, pos |-> own[i].pos]]
  IN  Check("checkType", Duplicated(nodes), "checkService")

CheckTypeStmt ==
  LET nodes == [i \in DOMAIN TypeStmt |-> [text |-> TypeStmt[i].name, pos |-> TypeStmt[i].pos]]
  IN  Check("checkType", Duplicated(nodes), "checkService")

\* checkServiceStmt reads the handler's name of every item: an item without one
\* is a nil pointer.  Its check of the service names compares equal strings.
CheckServiceStmt ==
  /\ \A i \in DOMAIN AllRoutes : AllRoutes[i].route.handler # NoHandler
  /\ Check("checkService", Duplicated(HandlerNodes) \/ Duplicated(PathNodes), "checkDeclared")

CheckServiceCrash ==
  /\ phase = "loaded" /\ stage = "checkService"
  /\ \E i \in DOMAIN AllRoutes : AllRoutes[i].route.handler = NoHandler
  /\ stage' = "crashed"
  /\ UNCHANGED <<vars, body, problem, types, groups, serviceName>>

CheckTypeDeclareContext ==
  Check("checkDeclared", \E i \in DOMAIN TypeStmt : Unresolved(TypeStmt[i].dt, DeclaredNames),
        "fillTypes")

\* fillTypes, first loop: every declaration becomes a struct of the spec.
FillTypes ==
  LET bad(t) == t.dt.k # "struct" \/ \E i \in DOMAIN t.dt.d : Unsupported[t.dt.d[i]]
      converted == [i \in DOMAIN TypeStmt |->
        [name |-> TypeStmt[i].name,
         members |-> [j \in DOMAIN TypeStmt[i].dt.d |-> ToSpec[TypeStmt[i].dt.d[j]]]]]
  IN  /\ phase = "loaded" /\ stage = "fillTypes"
      /\ IF \E i \in DOMAIN TypeStmt : bad(TypeStmt[i])
         THEN stage' = "rejected" /\ problem' = "fillTypes" /\ UNCHANGED types
         ELSE stage' = "resolveTypes" /\ types' = converted /\ UNCHANGED problem
      /\ UNCHANGED <<vars, body, groups, serviceName>>

\* findDefinedType: the first type of the spec with this name.
Defined(n) == \E i \in DOMAIN types : types[i].name = n
FindDefinedType(n) ==
  types[CHOOSE i \in DOMAIN types : /\ types[i].name = n
                                    /\ \A j \in DOMAIN types : types[j].name = n => i <= j]

\* fillTypes, second loop: a member whose type is itself a reference gets the
\* struct it names; references further inside are left as they are.
ResolveTypes ==
  LET resolve(m) == IF m.k = "define" THEN [m EXCEPT !.d = FindDefinedType(m.n).members] ELSE m
      members == UNION {ToSet(types[i].members) : i \in DOMAIN types}
  IN  /\ phase = "loaded" /\ stage = "resolveTypes"
      /\ IF \E m \in members : m.k = "define" /\ ~Defined(m.n)
         THEN stage' = "rejected" /\ problem' = "notDefined" /\ UNCHANGED types
         ELSE /\ types' = [i \in DOMAIN types |->
                   [types[i] EXCEPT !.members = [j \in DOMAIN @ |-> resolve(@[j])]]]
              /\ stage' = "fillService" /\ UNCHANGED problem
      /\ UNCHANGED <<vars, body, groups, serviceName>>

\* getType fails: an array as request, or a name nobody declared.
BadBody(b, isRequest) ==
  /\ b.form # "none"
  /\ \/ isRequest /\ b.form \in {"list", "ptrlist"}
     \/ ~IsBaseType(b.n) /\ ~Defined(b.n)

BadRoute(s, r) ==
  \/ BadBody(r.req, TRUE)
  \/ BadBody(r.resp, FALSE)
  \/ s.sse /\ r.resp.form = "none"

\* Two blocks with routes have different names: the first one's name is kept
\* and the other is refused.
NamesDiffer ==
  \E i, j \in DOMAIN AllRoutes : AllRoutes[i].svc.name # AllRoutes[j].svc.name

FillService ==
  /\ phase = "loaded" /\ stage = "fillService"
  /\ IF NamesDiffer \/ \E i \in DOMAIN AllRoutes : BadRoute(AllRoutes[i].svc, AllRoutes[i].route)
     THEN stage' = "rejected" /\ problem' = "fillService" /\ UNCHANGED <<groups, serviceName>>
     ELSE /\ groups' = ServiceStmts
          /\ serviceName' = IF AllRoutes = << >> THEN 0 ELSE AllRoutes[1].svc.name
          /\ stage' = "sort" /\ UNCHANGED problem
  /\ UNCHANGED <<vars, body, types>>

\* Mutation: the types are left in the order they were declared and merged in.
SortSpecTypesUnsorted ==
  /\ phase = "loaded" /\ stage = "sort"
  /\ groups' = ByGroup(groups)
  /\ stage' = "parsed"
  /\ UNCHANGED <<vars, body, problem, types, serviceName>>

\* convert2Spec: types by name, the routes of a group by path, groups by group.
SortSpec ==
  /\ phase = "loaded" /\ stage = "sort"
  /\ types' = ByName(types)
  /\ groups' = ByGroup([i \in DOMAIN groups |-> [groups[i] EXCEPT !.routes = ByPath(@)]])
  /\ stage' = "parsed"
  /\ UNCHANGED <<vars, body, problem, serviceName>>

AnalyzeStop == stage \in Ended /\ UNCHANGED allVars

AnalyzeNext ==
  \/ LoadNext /\ UNCHANGED analyzeVars
  \/ CheckImportStmt
  \/ CheckInfoStmt
  \/ CheckTypeStmt
  \/ CheckServiceStmt
  \/ CheckServiceCrash
  \/ CheckTypeDeclareContext
  \/ FillTypes
  \/ ResolveTypes
  \/ FillService
  \/ SortSpec
  \/ AnalyzeStop

AnalyzeSpec == AnalyzeInit /\ [][AnalyzeNext]_allVars /\ WF_allVars(AnalyzeNext)

----------------------------------------------------------------------------
Accepted == stage = "parsed"
Over == phase \in {"failed", "exited", "panicked"} \/ stage \in Ended

\* The variables of the checks keep their shape, they start only on files that
\* were loaded, and an error is recorded exactly when a check refused them.
AnalyzeTypeOK ==
  /\ stage \in Stage
  /\ stage # "checkImport" => phase = "loaded"
  /\ stage = "rejected" <=> problem # "none"
  /\ serviceName # 0 => groups # << >>

\* Types checkTypeDeclareContext let through are always found again by
\* findDefinedType, which looks in the converted structs and not in the
\* declarations: "type not defined" cannot come up when members are resolved.
CheckedTypesResolve == problem # "notDefined"

\* In an accepted spec a handler's name is taken once in its group, so no two
\* routes share a handler and a logic file (gogen names them by both): but for
\* handlers that stand at one line and column of files of one name.
HandlersUnique ==
  Accepted =>
    \A g, h \in DOMAIN groups : \A i \in DOMAIN groups[g].routes, j \in DOMAIN groups[h].routes :
      /\ groups[g].group = groups[h].group
      /\ groups[g].routes[i].handler = groups[h].routes[j].handler
      => <<g, i>> = <<h, j>> \/ groups[g].routes[i].at = groups[h].routes[j].at

\* In an accepted spec no type is there twice, types.go would not compile: but for
\* types declared at one line and column of files of one name.
TypesUnique ==
  Accepted =>
    \A i, j \in DOMAIN types : types[i].name = types[j].name =>
      \/ i = j
      \/ \E k, l \in DOMAIN TypeStmt :
           k # l /\ {TypeStmt[k].name, TypeStmt[l].name} = {types[i].name} /\ TypeStmt[k].pos = TypeStmt[l].pos

\* No two statements of an accepted spec are generated into one declaration or one
\* file, unless they stand at one place of different files that have one base name.
NothingTwice == TypesUnique /\ HandlersUnique

\* Sorting the spec neither loses nor adds a group or a route, leaves the groups
\* ordered by their key and keeps blocks of one key and one file in their order.
GroupsKept ==
  Accepted =>
    /\ \A i, j \in DOMAIN groups : i < j => groups[i].group <= groups[j].group
    /\ Len(groups) = Len(ServiceStmts)
    /\ \A s \in DOMAIN ServiceStmts :
         \E g \in DOMAIN groups :
           /\ groups[g].group = ServiceStmts[s].group
           /\ ToSet(groups[g].routes) = ToSet(ServiceStmts[s].routes)
           /\ Len(groups[g].routes) = Len(ServiceStmts[s].routes)

SpecType == {ToSpec[t] : t \in DataType}

\* Some name in the converted type m, at any depth, is not among names.
Dangling(m, names) ==
  LET unnamed(t) == t.k = "define" /\ t.n \notin names
      dangling[t \in SpecType] ==
        unnamed(t) \/ \E i \in DOMAIN t.d : dangling[t.d[i]]
  IN  unnamed(m) \/ \E i \in DOMAIN m.d : dangling[m.d[i]]

\* Wherever an accepted spec refers to a struct, however deep inside a member,
\* the spec has that struct: generated code refers to no type it lacks.
NoDanglingReference ==
  Accepted =>
    \A i \in DOMAIN types : \A j \in DOMAIN types[i].members :
      ~Dangling(types[i].members[j], {types[k].name : k \in DOMAIN types})

\* The variables of the checks stay in order, and what they let through converts to
\* a spec that lacks nothing: all types are found, all groups and routes are kept.
SpecIsWhole == AnalyzeTypeOK /\ CheckedTypesResolve /\ GroupsKept /\ NoDanglingReference

\* Parse seen from outside: a verdict, and the names of the types of the spec.
Abstract ==
  INSTANCE ApiParse WITH
    verdict <- IF Accepted THEN "accepted" ELSE IF Over THEN "rejected" ELSE "pending",
    names <- IF Accepted THEN [i \in DOMAIN types |-> types[i].name] ELSE << >>

\* The passes of Parse implement the verdict of ApiParse: whatever the order in
\* which imports are visited, the same files are accepted with the same types,
\* and a verdict is always reached.
ImplementsParse == Abstract!Spec
=============================================================================
