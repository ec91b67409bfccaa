------------------------------ MODULE LegacyApi -----------------------------
(***************************************************************************)
(* The parser of api files that goctl uses when GOCTL_EXPERIMENTAL is off: *)
(* api/parser over api/parser/g4.  Parse reads a file and the files it     *)
(* imports, depth first, checks each against what was read before it, asks *)
(* whether all types are declared, and converts the trees to the spec.     *)
(***************************************************************************)
EXTENDS LegacyParser

CONSTANTS
    Families,   \* parts of the language in which files are typed token by token,
    Lead,       \* how a file begins in each,
    Alphabet,   \* how it may go on,
    MaxTokens,  \* and for how many tokens
    Catalog,    \* texts of files by a name
    Worlds      \* files on disk: a function from paths to names in the catalog

Root == "'root'"

VARIABLES
    family,     \* the part of the language the root belongs to, or "" when it is from the catalog
    source,     \* the root file
    disk,       \* the files of a world
    relative,   \* goctl was given a relative path
    skip,       \* skipCheckTypeDeclaration, from when it is asked for
    phase,      \* what Parse is doing, and its result
    stack,      \* for each invokeImportedApi that runs, the imports it has not seen
    importStack, fileMap, handlerMap, routeMap, typeMap, \* fields of the parser
    apis        \* apiAstList with the paths of the files

vars == <<family, source, disk, relative, skip, phase, stack, importStack, fileMap, handlerMap, routeMap, typeMap, apis>>

given == <<family, source, disk, relative, skip>>
maps == <<handlerMap, routeMap, typeMap>>

Parsed == [name \in DOMAIN Catalog |-> Invoke(Catalog[name])]

\* os.ReadFile and invoke.
Readable == DOMAIN disk \cup {Root}
Read(file) == IF file \in DOMAIN disk THEN Parsed[disk[file]] ELSE Invoke(source)

Init ==
    /\ \/ \E f \in Families : family = f /\ source = Lead[f] /\ disk = <<>> /\ relative = FALSE
       \/ \E w \in Worlds :
            /\ relative \in BOOLEAN
            /\ family = "" /\ source = Catalog[w[Root]]
            /\ disk = w
    /\ skip = FALSE
    /\ phase = "given"
    /\ stack = <<>> /\ importStack = <<>>
    /\ fileMap = {} /\ handlerMap = {} /\ routeMap = {} /\ typeMap = {}
    /\ apis = <<>>

\* The author of the file goes on.
TypeToken ==
    /\ phase = "given" /\ family # ""
    /\ Len(source) < Len(Lead[family]) + MaxTokens[family]
    /\ \E t \in Alphabet[family] : source' = Append(source, t)
    /\ UNCHANGED <<family, disk, relative, skip, phase, stack, importStack, fileMap, maps, apis>>

(***************************************************************************)
(* What is remembered of a file, and what a file is checked for            *)
(***************************************************************************)
ServiceRoutes(ast) ==
    UNION {{[service |-> ast.service[i], r |-> RoutesOf(ast.service[i])[j]] : j \in DOMAIN RoutesOf(ast.service[i])}
           : i \in DOMAIN ast.service}

TypeNames(ast) == {ast.type[i].name : i \in DOMAIN ast.type}

\* A handler that is not there is a nil interface.
NilHandler(ast) == \E s \in ServiceRoutes(ast) : GetHandler(s.r) = <<>>

\* The handlers are stored without their groups.
StoredHandlers(ast) == {<<"", GetHandler(s.r)>> : s \in ServiceRoutes(ast)}

\* Mutation: the prefix of the service is forgotten.
StoredRoutesBare(ast) == {<<s.r.route.method, s.r.route.path>> : s \in ServiceRoutes(ast)}

StoredRoutes(ast) == {RouteKey(s.service, s.r) : s \in ServiceRoutes(ast)}

storeVerificationInfo(ast) ==
    /\ handlerMap' = handlerMap \cup StoredHandlers(ast)
    /\ routeMap' = routeMap \cup StoredRoutes(ast)
    /\ typeMap' = typeMap \cup TypeNames(ast)

\* Mutation: files are not compared by their handlers.
duplicateRouteCheckBare(ast) == \A s \in ServiceRoutes(ast) : RouteKey(s.service, s.r) \notin routeMap

\* The files are compared by the handler with its group.
duplicateRouteCheck(ast) ==
    \A s \in ServiceRoutes(ast) :
        HandlerKey(s.service, s.r) \notin handlerMap /\ RouteKey(s.service, s.r) \notin routeMap

\* The version is compared with that of the root.
valid(ast) ==
    /\ apis[1].ast.syntax # <<>> /\ ast.syntax # <<>> => apis[1].ast.syntax = ast.syntax
    /\ duplicateRouteCheck(ast)
    /\ TypeNames(ast) \cap typeMap = {}

(***************************************************************************)
(* Parse and invokeImportedApi                                             *)
(***************************************************************************)
End(result) ==
    /\ phase' = result
    /\ UNCHANGED <<given, stack, importStack, fileMap, maps, apis>>

\* The root is on the stack of imports by its absolute path, the others by the path
\* that the imports and the name of the root make.
RootPath == IF relative THEN "/root" ELSE Root

ParseRoot ==
    /\ phase = "given"
    /\ \E root \in {Read(Root)} :
       IF ~root.ok THEN End("error")
       ELSE IF NilHandler(root.ast) THEN End("crash")
       ELSE /\ phase' = "import"
            /\ importStack' = <<RootPath>>
            /\ apis' = <<[file |-> Root, ast |-> root.ast]>>
            /\ storeVerificationInfo(root.ast)
            /\ stack' = <<root.ast.import>>
            /\ UNCHANGED <<given, fileMap>>

Importing == phase = "import" /\ stack # <<>> /\ stack[1] # <<>>
Import == Head(stack[1])
OneDone == [stack EXCEPT ![1] = Tail(@)]

ImportCycle ==
    /\ Importing /\ Import \in ToSet(importStack)
    /\ End("error")

\* Mutation: the file is not remembered.
RememberNot(file) == fileMap

Remember(file) == fileMap \cup {file}

alreadyImported ==
    /\ Importing /\ Import \notin ToSet(importStack) /\ Import \in fileMap
    /\ stack' = OneDone
    /\ UNCHANGED <<given, phase, importStack, fileMap, maps, apis>>

New == Importing /\ Import \notin ToSet(importStack) \cup fileMap

ImportGone ==
    /\ New /\ Import \notin Readable
    /\ End("error")

\* A file that cannot be parsed, or repeats what another declares, ends the parse.
ImportNested ==
    /\ New /\ Import \in Readable
    /\ \E nested \in {Read(Import)} :
       IF ~nested.ok THEN End("error")
       ELSE IF NilHandler(nested.ast) THEN End("crash")
       ELSE IF ~valid(nested.ast) THEN End("error")
       ELSE /\ storeVerificationInfo(nested.ast)
            /\ fileMap' = Remember(Import)
            /\ importStack' = Append(importStack, Import)
            /\ apis' = Append(apis, [file |-> Import, ast |-> nested.ast])
            /\ stack' = <<nested.ast.import>> \o OneDone
            /\ UNCHANGED <<given, phase>>

\* invokeImportedApi returns; its caller pops the stack of imports.
ReturnImports ==
    /\ phase = "import" /\ stack # <<>> /\ stack[1] = <<>>
    /\ stack' = Tail(stack)
    /\ importStack' = IF Len(stack) > 1 THEN SubSeq(importStack, 1, Len(importStack) - 1) ELSE importStack
    /\ phase' = IF Len(stack) > 1 THEN phase ELSE "check"
    /\ UNCHANGED <<given, fileMap, maps, apis>>

(***************************************************************************)
(* checkTypeDeclaration                                                    *)
(***************************************************************************)
AllTypes == UNION {TypeNames(apis[i].ast) : i \in DOMAIN apis}

RECURSIVE checkType(_)
checkType(dt) ==
    CASE dt.kind \in {"literal", "pointer"} -> dt.name \in Basic \cup AllTypes
      [] dt.kind \in {"map", "array"} -> checkType(dt.of[1])
      [] OTHER -> TRUE

checkTypes(ast) == \A i \in DOMAIN ast.type : \A j \in DOMAIN ast.type[i].fields : checkType(ast.type[i].fields[j].type)

\* A request of a basic type is refused, a reply is not.
checkRequestBody(r) == r.route.request # <<>> => r.route.request[1].name \in AllTypes

StructName(dt) == IF dt.kind = "array" THEN dt.of[1].name ELSE dt.name

checkReply(r) == r.route.response # <<>> => StructName(r.route.response[1]) \in Basic \cup AllTypes

checkServices(ast) == \A s \in ServiceRoutes(ast) : checkRequestBody(s.r) /\ checkReply(s.r)

checkTypeDeclaration ==
    /\ phase = "check"
    /\ skip' \in BOOLEAN
    /\ phase' = IF skip' \/ \A i \in DOMAIN apis : checkTypes(apis[i].ast) /\ checkServices(apis[i].ast)
                THEN "convert" ELSE "error"
    /\ UNCHANGED <<family, source, disk, relative, stack, importStack, fileMap, maps, apis>>

(***************************************************************************)
(* convert2Spec, of the trees that memberFill put together                 *)
(***************************************************************************)
\* astTypeToSpec panics at a type it does not know.
RECURSIVE astTypeToSpec(_)
astTypeToSpec(dt) ==
    CASE dt.kind \in {"map", "array"} -> astTypeToSpec(dt.of[1])
      [] dt.kind \in {"literal", "pointer", "interface"} -> TRUE
      [] OTHER -> FALSE

\* findDefinedType is asked for the structs that are used as they are.
findDefinedType(dt) == dt.kind = "literal" /\ dt.name \notin Basic => dt.name \in AllTypes

MemberTypes == {apis[i].ast.type[j].fields[k].type : <<i, j, k>> \in
    UNION {UNION {{<<a, b, c>> : c \in DOMAIN apis[a].ast.type[b].fields} : b \in DOMAIN apis[a].ast.type} : a \in DOMAIN apis}}

AllRoutes == UNION {{[file |-> i, service |-> s.service, r |-> s.r] : s \in ServiceRoutes(apis[i].ast)} : i \in DOMAIN apis}

BodyTypes == UNION {ToSet(s.r.route.request) \cup ToSet(s.r.route.response) : s \in AllRoutes}

\* The handler in a @server of a route has letters and digits only.
fillRouteAtServer(s) == s.r.handler = <<>> => GetHandler(s.r) # <<"h-">>

fillService ==
    /\ Cardinality({s.service.api.name : s \in AllRoutes}) <= 1
    /\ \A s \in AllRoutes : fillRouteAtServer(s)

convert2Spec ==
    /\ phase = "convert"
    /\ IF \E dt \in MemberTypes \cup BodyTypes : ~astTypeToSpec(dt) THEN End("crash")
       ELSE IF \E dt \in MemberTypes \cup BodyTypes : ~findDefinedType(dt) THEN End("undefined")
       ELSE IF fillService THEN End("spec") ELSE End("error")

Next ==
    \/ TypeToken \/ ParseRoot \/ ImportCycle \/ alreadyImported \/ ImportGone \/ ImportNested \/ ReturnImports
    \/ checkTypeDeclaration \/ convert2Spec

Spec == Init /\ [][Next]_vars

(***************************************************************************)
(* Properties                                                              *)
(***************************************************************************)
\* The checks suffice for what comes after them: nothing is dereferenced that is nil, no
\* type reaches the conversion that it does not know (either would end goctl, nobody
\* recovers there), and no type is found missing that checkTypeDeclaration let pass.
ChecksSuffice ==
    /\ phase # "crash"
    /\ phase = "undefined" => skip

\* In a spec, made of any number of files, no two routes have a method and a path in
\* common, and no two handlers of one group a name; but the handlers of groups are
\* looked up with the group and were stored without, so that those of different files
\* may have.
NamesApart ==
    phase = "spec" =>
        \A s \in AllRoutes, t \in AllRoutes : s # t =>
            /\ RouteKey(s.service, s.r) # RouteKey(t.service, t.r)
            /\ HandlerKey(s.service, s.r) = HandlerKey(t.service, t.r) =>
                   s.file # t.file /\ Value(s.service.server, "group") # ""

\* A spec is made of the files that can be reached by imports, each once, and none of
\* them imports itself, however the first of them was named.
Imports(file) == UNION {ToSet(apis[i].ast.import) : i \in {k \in DOMAIN apis : apis[k].file = file}}

RECURSIVE Reach(_)
Reach(files) == LET more == files \cup UNION {Imports(f) : f \in files} IN IF more = files THEN files ELSE Reach(more)

ImportedOnce ==
    phase = "spec" =>
        /\ {apis[i].file : i \in DOMAIN apis} = Reach({Root})
        /\ IsInjective([i \in DOMAIN apis |-> apis[i].file])
        /\ \A f \in Reach({Root}) : f \notin Reach(Imports(f))

\* A struct is read by lines, by a grammar that has none: a field that begins its line
\* has the type that follows on the line, and is an embedded type when nothing follows.
Behind(i) == LET rest == {j \in DOMAIN source : j > i /\ LineOf(source, j) = LineOf(source, i) /\ Counted(source[j])}
             IN IF rest = {} THEN "nl" ELSE source[Min(rest)]

BeginsLine(i) == \A j \in 1..i - 1 : LineOf(source, j) = LineOf(source, i) => ~Counted(source[j])

LinesAreFields ==
    apis # <<>> =>
        \A i \in DOMAIN apis[1].ast.type : \A j \in DOMAIN apis[1].ast.type[i].fields :
            LET f == apis[1].ast.type[i].fields[j] IN
            BeginsLine(f.at) /\ ~(f.embedded /\ f.type.kind = "pointer") =>
                (f.embedded <=> Behind(f.at) \in {"nl", "}"})
=============================================================================
