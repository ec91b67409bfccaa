----------------------------- MODULE RpcProject -----------------------------
(***************************************************************************)
(* "rpc protoc" on a project directory, again and again: Generate          *)
(* (rpc/generator) collects the imported files, has protoc write the pb    *)
(* files, looks for the directory they went to, and writes the files of    *)
(* the service: some once, some on every run.  Between runs the user       *)
(* changes the proto file and edits what was generated; a run may die      *)
(* anywhere.                                                               *)
(***************************************************************************)
EXTENDS ProtoImports

CONSTANTS Service,   \* services: a name, in lower case and in camel case, and the RPCs
          ServiceName, \* the names a project may have
          Proto,     \* source files
          Says,      \* what each of them says
          NoProto,   \* there is none
          Sample,    \* what "rpc new" writes
          Becomes,   \* bound: what the user turns each into
          GoDirs,    \* directories of Go packages, as a walk comes upon them
          Output,    \* the directory of the project itself
          Alike,     \* names of files whose pb file's name ends like the source's
          Touched,   \* bound: the files the user edits or deletes
          Modes,     \* bound: the values of --multiple and --client used with each
          MaxRuns    \* bound: runs on a project that starts with each proto

LogicFile(multiple, s, r) == <<"logic", IF multiple THEN s.name ELSE "", r.name>>
ServerFile(multiple, s) == <<"server", IF multiple THEN s.name ELSE "", s.name>>
CallFile(multiple, s) == <<"call", IF multiple THEN s.name ELSE "", s.name>>
\* Named after the package of the source file, or the file.
Etc(p) == <<"etc", Says[p].name>>
MainFile(p) == <<"main", Says[p].name>>
Config == <<"config">>
Svc == <<"svc">>

RpcFile == {Config, Svc} \cup {<<kind, n>> : kind \in {"etc", "main"}, n \in ServiceName}
    \cup {ServerFile(m, s) : m \in BOOLEAN, s \in Service} \cup {CallFile(m, s) : m \in BOOLEAN, s \in Service}
    \cup (UNION {{LogicFile(m, s, r) : m \in BOOLEAN, r \in ToSet(s.rpcs)} : s \in Service})

\* Headed as the user's own.
Kept == {f \in RpcFile : f[1] \notin {"server", "call"}}

NoDir == ""

ASSUME ProtoAssumption ==
    /\ Sample \in Proto /\ NoProto \notin Proto
    /\ \A p \in Proto : /\ Says[p].layout \in Layouts
                        /\ Says[p].services \in Seq(Service) /\ Says[p].name \in ServiceName
                        /\ Becomes[p] \subseteq Proto
                        /\ Modes[p] \subseteq BOOLEAN \X BOOLEAN
                        /\ MaxRuns[p] \in Nat
\* What protoc sees to: services have names of their own, and so have the
\* methods of a service.
ASSUME NamesAssumption ==
    /\ \A p \in Proto : \A s, t \in ToSet(Says[p].services) : s.name = t.name => s = t
    /\ \A s \in Service : /\ s.rpcs \in Seq(ToSet(s.rpcs))
                          /\ \A q, r \in ToSet(s.rpcs) : q.name = r.name => q = r
\* The walk comes by every directory a source has its pb file in.
ASSUME DirsAssumption ==
    /\ GoDirs \in Seq(STRING \ {NoDir})
    /\ \A p \in Proto : Says[p].dir \in ToSet(GoDirs)
    /\ Main \in Alike
\* No Go package is called like what the code writes for a message it does not
\* know, and those of google.protobuf are not the source's.
ASSUME MessagesAssumption ==
    \A s \in Service : \A r \in ToSet(s.rpcs) : \A t \in {r.req, r.resp} :
      /\ t.go \notin {"interface{}", "unknown"}
      /\ t.wellKnown => \A p \in Proto : t.go # Says[p].dir
ASSUME TouchedInFiles == Touched \subseteq Kept

VARIABLES proto,   \* what the source file says
          limit,   \* how many runs this project may see
          files,   \* what each file of the project holds
          pbs,     \* pb files: their directory, their name, whether there is one of gRPC
          run,     \* the run, or the end of the last one
          torn,    \* files a run has left between creating and writing
          runs     \* how many runs there have been

rpcVars == <<proto, limit, files, pbs, run, torn, runs>>

vars == <<walkVars, rpcVars>>

\* A text: what it is for, the pb directory it imports, its imports and the
\* packages it mentions.
Text(what, pb, imports, uses) == [for |-> what, pb |-> pb, imports |-> imports, uses |-> uses]

\* One without any of it.
Blank == Text({}, NoDir, {}, {})

\* What a file holds, and the run that wrote it.
Absent == [by |-> "nobody", text |-> Blank, in |-> 0]
Empty == [by |-> "created", text |-> Blank, in |-> 0]
Generated(text, n) == [by |-> "goctl", text |-> text, in |-> n]
Edited == [by |-> "user", text |-> Blank, in |-> 0]

Idle == [at |-> "idle"]

\* The proto file there is, or will be.
Ahead == IF proto = NoProto THEN Sample ELSE proto

Init == /\ proto \in Proto \cup {NoProto}
        /\ layout = Says[Ahead].layout
        /\ WalkInit
        /\ limit = MaxRuns[Ahead]
        /\ files = [f \in RpcFile |-> Absent]
        /\ pbs = {}
        /\ run = Idle
        /\ torn = {}
        /\ runs = 0
-----------------------------------------------------------------------------
(* The messages of an RPC.  One is written with the package of a proto file  *)
(* or without any, and lives in a Go package.                                *)

\* BuildProtoPackageMap: the last file of a package stands for the package.
InPackage(imported, pkg) == {i \in DOMAIN imported : On[layout].package[imported[i]] = pkg}

BuildProtoPackageMap(imported, pkg) ==
    On[layout].goPackage[imported[CHOOSE i \in InPackage(imported, pkg) :
                                  \A j \in InPackage(imported, pkg) : j <= i]]

\* The Go package a file refers to for a message: "pb" is the one of the
\* source, which every file imports by the directory that was found.
GoPackage(p, go) == IF go = Says[p].dir THEN "pb" ELSE go

\* resolveRPCTypeRef, resolveCallTypeRef: what the code takes a message for.
\* A qualifier that is no imported package is made part of the name.
resolveRPCTypeRef(p, imported, t) ==
    IF t.pkg = "" THEN "pb"
    ELSE IF t.pkg = "google" THEN (IF t.wellKnown THEN t.go ELSE "interface{}")
    ELSE IF InPackage(imported, t.pkg) # {} THEN GoPackage(p, BuildProtoPackageMap(imported, t.pkg))
    ELSE "unknown"

\* The ImportPath of the reference is not empty.
Foreign(p, imported, ts) == {resolveRPCTypeRef(p, imported, t) : t \in ts} \ {"pb", "interface{}", "unknown"}

Messages(r) == {r.req, r.resp}

Streams(r) == r.in \/ r.out

\* Mutation: the pb package is imported only for two messages of its own.
addLogicImportsBoth(p, imported, r) ==
    IF Streams(r) THEN {"pb"}
    ELSE Foreign(p, imported, Messages(r)) \cup
         (IF \A t \in Messages(r) : Foreign(p, imported, {t}) = {} THEN {"pb"} ELSE {})

addLogicImports(p, imported, r) ==
    IF Streams(r) THEN {"pb"}
    ELSE Foreign(p, imported, Messages(r)) \cup
         (IF \E t \in Messages(r) : Foreign(p, imported, {t}) = {} THEN {"pb"} ELSE {})

\* The messages that a method has in its signature, by the templates of
\* functions: a stream stands for the others.
Named(r) == (IF r.in THEN {} ELSE {r.req}) \cup (IF Streams(r) THEN {} ELSE {r.resp})

Mentioned(p, imported, r) ==
    (IF Streams(r) THEN {"pb"} ELSE {}) \cup {resolveRPCTypeRef(p, imported, t) : t \in Named(r)}

AllMessages(s) == UNION {Messages(r) : r \in ToSet(s.rpcs)}

AllMentioned(p, imported, s) == UNION {Mentioned(p, imported, r) : r \in ToSet(s.rpcs)}

If(b, S) == IF b THEN S ELSE {}

Unary(s) == \E r \in ToSet(s.rpcs) : ~Streams(r)

Methods(s) == {r.name : r \in ToSet(s.rpcs)}

LogicText(p, imported, pb, r) ==
    Text({r.name}, pb, {"svc"} \cup addLogicImports(p, imported, r), {"svc"} \cup Mentioned(p, imported, r))

\* genFunctions adds the imports of both messages of every RPC.
ServerText(p, imported, pb, s) ==
    Text(Methods(s), pb, {"logic", "svc", "pb"} \cup If(Unary(s), {"context"}) \cup Foreign(p, imported, AllMessages(s)),
         {"svc", "pb"} \cup If(Unary(s), {"context"}) \cup If(s.rpcs # <<>>, {"logic"}) \cup AllMentioned(p, imported, s))

\* With --multiple a client has aliases of the messages its RPCs name, and
\* otherwise of all that the file declares.
Aliases(multiple, p, s) == IF multiple THEN \E t \in AllMessages(s) : t.pkg = "" ELSE Says[p].declares

\* mkdir: without --multiple a client has a directory named like the service, or one
\* that is called a client, when the Go package is called like the service.
CallDir(p, s) == IF s.lower = Says[p].dir THEN NoDir ELSE s.camel

InPbDir(p, pb, multiple, s) == ~multiple /\ CallDir(p, s) = pb

\* resolveCallTypeRef: a message of the source's Go package that is written with a
\* package has an alias, wherever the client is.
Qualified(p, imported, s) == \E t \in AllMessages(s) : t.pkg # "" /\ resolveRPCTypeRef(p, imported, t) = "pb"

\* In the directory of the pb files a client has its messages without import.
CallText(p, imported, pb, multiple, s) ==
    IF InPbDir(p, pb, multiple, s)
    THEN Text(Methods(s), pb, {"context"} \cup Foreign(p, imported, AllMessages(s)),
              If(s.rpcs # <<>>, {"context"}) \cup If(Qualified(p, imported, s), {"pb"})
                \cup (AllMentioned(p, imported, s) \ {"pb"}))
    ELSE Text(Methods(s), pb, {"pb", "context"} \cup Foreign(p, imported, AllMessages(s)),
              If(s.rpcs # <<>>, {"pb", "context"}) \cup If(Aliases(multiple, p, s), {"pb"})
                \cup AllMentioned(p, imported, s))

Registered(p) == {s.name : s \in ToSet(Says[p].services)}

\* Mutation: only the first service is registered.
MainTextFirst(p, pb) == Text({Says[p].services[1].name}, pb, {}, {})

MainText(p, pb) == Text(Registered(p), pb, {}, {})
-----------------------------------------------------------------------------
Job(f, text, rewrite) == [file |-> f, text |-> text, rewrite |-> rewrite]

Once(f, text) == <<Job(f, text, FALSE)>>

PerService(p, J(_)) == [i \in DOMAIN Says[p].services |-> J(Says[p].services[i])]

LogicJobs(p, imported, pb, multiple) ==
    FlattenSeq(PerService(p, LAMBDA s :
        [i \in DOMAIN s.rpcs |->
            Job(LogicFile(multiple, s, s.rpcs[i]), LogicText(p, imported, pb, s.rpcs[i]), FALSE)]))

\* What Generate writes after it knows where the pb files are.
Plan(p, imported, pb, multiple, client) ==
    Once(Config, Blank) \o Once(Svc, Blank)
      \o LogicJobs(p, imported, pb, multiple)
      \o PerService(p, LAMBDA s : Job(ServerFile(multiple, s), ServerText(p, imported, pb, s), TRUE))
      \o Once(MainFile(p), MainText(p, pb))
      \o IF client
         THEN PerService(p, LAMBDA s : Job(CallFile(multiple, s), CallText(p, imported, pb, multiple, s), TRUE))
         ELSE <<>>
-----------------------------------------------------------------------------
(* A run.                                                                    *)

Running == run.at \notin {"idle", "done"}

\* "rpc new" writes the sample, if there is no proto file, and goes on.
ProtoTmpl ==
    /\ proto = NoProto
    /\ proto' = Sample
    /\ UNCHANGED <<walkVars, limit, files, pbs, run, torn, runs>>

\* Parse and validate: a service, and more than one only with --multiple.
Accepts(p, multiple) == Says[p].services # <<>> /\ (Len(Says[p].services) > 1 => multiple)

Generate(multiple, client) ==
    /\ ~Running /\ proto # NoProto
    /\ runs < limit
    /\ Accepts(proto, multiple)
    /\ ResolveImports(Says[proto].layout)
    /\ runs' = runs + 1
    /\ run' = [at |-> "imports", proto |-> proto, multiple |-> multiple, client |-> client,
               imported |-> <<>>, pb |-> NoDir, todo |-> <<>>]
    /\ UNCHANGED <<proto, limit, files, pbs, torn>>

Collect == run.at = "imports" /\ collectImports /\ UNCHANGED rpcVars

\* mkdir, and then the file of GenEtc, before the pb files.
Collected ==
    /\ run.at = "imports" /\ status = "done"
    /\ run' = [run EXCEPT !.at = "job", !.imported = result, !.todo = Once(Etc(run.proto), Blank)]
    /\ UNCHANGED <<walkVars, proto, limit, files, pbs, torn, runs>>

\* protoc has written a pb file for each file it was given.
PbFile(f) == [dir |-> On[layout].goPackage[f], name |-> f[2], grpc |-> f \in On[layout].served]

Protoc ==
    /\ run.at = "job" /\ run.todo = <<>> /\ run.pb = NoDir
    /\ pbs' = {[dir |-> Says[run.proto].dir, name |-> Main, grpc |-> TRUE]} \cup {PbFile(f) : f \in ToSet(run.imported)}
                \cup {b \in pbs : \A f \in ToSet(run.imported) : b.dir # PbFile(f).dir \/ b.name # PbFile(f).name}
    /\ run' = [run EXCEPT !.at = "protoc"]
    /\ UNCHANGED <<walkVars, proto, limit, files, torn, runs>>

\* findPbFile: the first file on the walk whose name ends with the one wanted.
Matches(grpc) == {i \in DOMAIN GoDirs : \E b \in pbs : b.dir = GoDirs[i] /\ b.name \in Alike /\ (grpc => b.grpc)}

\* Mutation: the last one.
findPbFileLast(grpc) == GoDirs[CHOOSE i \in Matches(grpc) : \A j \in Matches(grpc) : j <= i]

findPbFile(grpc) == GoDirs[CHOOSE i \in Matches(grpc) : \A j \in Matches(grpc) : i <= j]

\* setPbDir returns an error.
Misplaced == findPbFile(FALSE) # findPbFile(TRUE) \/ findPbFile(FALSE) = Output

SetPbDir ==
    /\ run.at = "protoc" /\ ~Misplaced
    /\ run' = [run EXCEPT !.at = "job", !.pb = findPbFile(FALSE),
                          !.todo = Plan(run.proto, run.imported, findPbFile(FALSE), run.multiple, run.client)]
    /\ UNCHANGED <<walkVars, proto, limit, files, pbs, torn, runs>>

Current == Head(run.todo)

AtJob == run.at = "job" /\ run.todo # <<>>

\* SaveTo leaves a file alone that is there, unless it is to be updated.
Skip == /\ AtJob /\ ~Current.rewrite /\ files[Current.file] # Absent
        /\ run' = [run EXCEPT !.todo = Tail(@)]
        /\ UNCHANGED <<walkVars, proto, limit, files, pbs, torn, runs>>

\* Mutation: whether the file is to be updated is not asked.
OpenAlways ==
    /\ AtJob
    /\ files' = [files EXCEPT ![Current.file] = Empty]
    /\ torn' = torn \ {Current.file}
    /\ run' = [run EXCEPT !.at = "opened"]
    /\ UNCHANGED <<walkVars, proto, limit, pbs, runs>>

\* os.WriteFile creates or empties the file.
Open == /\ AtJob /\ (Current.rewrite \/ files[Current.file] = Absent)
        /\ files' = [files EXCEPT ![Current.file] = Empty]
        /\ torn' = torn \ {Current.file}
        /\ run' = [run EXCEPT !.at = "opened"]
        /\ UNCHANGED <<walkVars, proto, limit, pbs, runs>>

Write == /\ run.at = "opened"
         /\ files' = [files EXCEPT ![Current.file] = Generated(Current.text, runs)]
         /\ run' = [run EXCEPT !.at = "job", !.todo = Tail(@)]
         /\ UNCHANGED <<walkVars, proto, limit, pbs, torn, runs>>

Finish == /\ run.at = "job" /\ run.todo = <<>> /\ run.pb # NoDir
          /\ run' = [run EXCEPT !.at = "done"]
          /\ UNCHANGED <<walkVars, proto, limit, files, pbs, torn, runs>>

\* A step returns an error, setPbDir among them, or the process is killed.
Die == /\ Running
       /\ run' = Idle
       /\ torn' = IF run.at = "opened" THEN torn \cup {Current.file} ELSE torn
       /\ Forget
       /\ UNCHANGED <<proto, limit, files, pbs, runs>>
-----------------------------------------------------------------------------
(* The user.                                                                 *)

ChangeProto(p) ==
    /\ ~Running /\ proto # NoProto /\ runs < limit
    /\ proto' = p
    /\ UNCHANGED <<walkVars, limit, files, pbs, run, torn, runs>>

Edit(f) == /\ ~Running /\ files[f] # Absent /\ runs < limit
           /\ files' = [files EXCEPT ![f] = Edited]
           /\ torn' = torn \ {f}
           /\ run' = Idle
           /\ UNCHANGED <<walkVars, proto, limit, pbs, runs>>

\* To have it generated anew.
DeleteFile(f) == /\ ~Running /\ files[f] # Absent /\ runs < limit
                 /\ files' = [files EXCEPT ![f] = Absent]
                 /\ torn' = torn \ {f}
                 /\ run' = Idle
                 /\ UNCHANGED <<walkVars, proto, limit, pbs, runs>>

Next == \/ ProtoTmpl
        \/ proto # NoProto /\ \E m \in Modes[proto] : Generate(m[1], m[2])
        \/ Collect \/ Collected \/ Protoc \/ SetPbDir \/ Skip \/ Open \/ Write \/ Finish \/ Die
        \/ proto # NoProto /\ \E p \in Becomes[proto] : ChangeProto(p)
        \/ \E f \in Touched : Edit(f) \/ DeleteFile(f)

Spec == Init /\ [][Next]_vars
-----------------------------------------------------------------------------
Done == run.at = "done"

\* Written by the run that has just got through.
Fresh(f) == files[f].by = "goctl" /\ files[f].in = runs

Fits(f) == files[f].text.imports = files[f].text.uses

\* What the code takes for something else: a message that another file of the
\* source's package declares and that is not qualified, a package whose
\* imported files are not all of the message's Go package, a qualifier that is
\* no imported package (one of more than one part, or a message around it), a
\* type of google.protobuf that is not in the table.
Misread(t) ==
    \/ t.pkg = "" /\ t.go # Says[run.proto].dir
    \/ t.pkg = "google" /\ ~t.wellKnown
    \/ t.pkg \notin {"", "google"} /\
         {On[layout].goPackage[run.imported[i]] : i \in InPackage(run.imported, t.pkg)} # {t.go}

\* A stream and a message that is not of the source's Go package.
StreamsForeign(r) == Streams(r) /\ \E t \in Messages(r) : t.go # Says[run.proto].dir

Plain(s) == /\ s.rpcs # <<>>
            /\ \A r \in ToSet(s.rpcs) : ~StreamsForeign(r) /\ \A t \in Messages(r) : ~Misread(t)

\* A client among the pb files that has an alias of one of their messages.
AliasUnimported(s) ==
    InPbDir(run.proto, run.pb, run.multiple, s) /\ Qualified(run.proto, run.imported, s)

\* After a run that got through, every file that it wrote for a service
\* imports exactly the packages it mentions, and mentions for each message the
\* package protoc put it in, except where an RPC streams and names a message
\* of another package, where the service has no RPC, where the code cannot
\* know a message from the way it is written, or where a client stands among
\* the pb files and a message of theirs is written with a package.
GeneratedBuilds ==
    Done => \A s \in ToSet(Says[run.proto].services) : Plain(s) =>
      /\ \A r \in ToSet(s.rpcs) :
           /\ LET f == LogicFile(run.multiple, s, r) IN Fresh(f) => Fits(f)
           /\ \A t \in Messages(r) :
                resolveRPCTypeRef(run.proto, run.imported, t) = GoPackage(run.proto, t.go)
      /\ Fits(ServerFile(run.multiple, s))
      /\ run.client /\ ~AliasUnimported(s) => Fits(CallFile(run.multiple, s))

\* After a run that got through, each service has a server of this run for
\* exactly its RPCs, each RPC has its logic, empty only if a run died while
\* writing it, and main registers every service, if it is not from an earlier
\* run or the user's.
ServicesWired ==
    Done =>
      /\ Fresh(MainFile(run.proto)) => files[MainFile(run.proto)].text.for = Registered(run.proto)
      /\ \A s \in ToSet(Says[run.proto].services) :
           LET server == ServerFile(run.multiple, s)
           IN  /\ Fresh(server) /\ files[server].text.for = Methods(s)
               /\ run.client => Fresh(CallFile(run.multiple, s))
               /\ \A r \in ToSet(s.rpcs) :
                    LET f == LogicFile(run.multiple, s, r)
                    IN  files[f] # Absent /\ (files[f] = Empty => f \in torn)

\* After a run that got through, what it wrote imports the pb files that
\* protoc has just written, unless the directory of an earlier go_package, or
\* of an imported file whose name ends like the source's, sorts before theirs.
PbIsFresh ==
    Done => \/ run.pb = Says[run.proto].dir
            \/ \E i, j \in DOMAIN GoDirs :
                 /\ i < j /\ GoDirs[i] = run.pb /\ GoDirs[j] = Says[run.proto].dir
                 /\ \/ \E f \in ToSet(run.imported) : On[layout].goPackage[f] = run.pb /\ f[2] \in Alike
                    \/ \E b \in pbs \ {PbFile(f) : f \in ToSet(run.imported)} : b.dir = run.pb /\ b.name \in Alike

\* What the user wrote into a file that is generated once stays.
EditsStay == [][\A f \in RpcFile : Running /\ files[f] = Edited => files'[f] = Edited]_vars

\* addLogicImports "adds the correct import paths to imports for a single
\* RPC's logic file".
LogicImportsFit ==
    Done => \A s \in ToSet(Says[run.proto].services) : \A r \in ToSet(s.rpcs) :
      LET f == LogicFile(run.multiple, s, r)
      IN  Fresh(f) /\ (\A t \in Messages(r) : ~Misread(t)) => Fits(f)
=============================================================================
