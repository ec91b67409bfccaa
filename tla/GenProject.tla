----------------------------- MODULE GenProject -----------------------------
(***************************************************************************)
(* "api go" on a project directory, again and again: DoGenProjectWithModule *)
(* (api/gogen) writes the files of a project one after the other through   *)
(* genFile, which leaves a file that exists alone. Only the types files    *)
(* and routes.go are removed first. Between the steps of a run the user    *)
(* edits files, and a run may die anywhere. What follows the last file,    *)
(* the backup and the formatting of the api file, is module BackupSweep.   *)
(***************************************************************************)
EXTENDS Naturals, SequencesExt

CONSTANTS Route,     \* routes, as [handler, group, uses]: uses holds the types
                     \* of the request and of the response
          Type,      \* names of declared types
          Api,       \* what an api file may say, as far as the files go
          Before,    \* the files genEtc, genConfig, genMain and
                     \* genServiceContext write, in this order
          Tests,     \* what genServiceContextTest and genIntegrationTest write
          Default,   \* the key of types.go, and the group of a route without one
          FileName,  \* the file name of a key of types, after FileNamingFormat
          Touched,   \* bound: the files the user edits or deletes
          WithTest,  \* bound: the values of --test in use
          MaxRuns    \* bound: runs of the generator

Group == {r.group : r \in Route}
Key == Group \cup {Default}

ASSUME ApiAssumption ==
    \A a \in Api : /\ a.routes \in Seq(Route)
                   /\ a.types \subseteq Type
                   /\ \A i \in DOMAIN a.routes : a.routes[i].uses \subseteq a.types
                   /\ a.routesFit \in BOOLEAN   \* timeouts and maxBytes parse
ASSUME KeyAssumption == IsFiniteSet(Key) /\ DOMAIN FileName = Key
ASSUME FixedAssumption == Before \in Seq(STRING) /\ Tests \in Seq(STRING)
ASSUME MaxRunsAssumption == MaxRuns \in Nat

\* The files of a project, by what they are for.
TypesFile(k) == <<"types", FileName[k]>>
RoutesFile == <<"routes">>
RouteFile(kind, r) == <<kind, r.group, r.handler>>
TypesFiles == {TypesFile(k) : k \in Key}
Scaffold ==    \* headed "Safe to edit"
    {<<"before", x>> : x \in ToSet(Before)} \cup {<<"test", x>> : x \in ToSet(Tests)}
      \cup {RouteFile(kind, r) :
              kind \in {"handler", "logic", "handlerTest", "logicTest"}, r \in Route}
File == TypesFiles \cup {RoutesFile} \cup Scaffold

ASSUME TouchedAssumption == Touched \subseteq Scaffold

VARIABLES api,     \* what the api file says
          files,   \* the project: what each file holds
          run,     \* the run of the generator, or the end of the last one
          torn,    \* files that a run has left between creating and writing
          runs     \* how many runs there have been

vars == <<api, files, run, torn, runs>>

\* What a file holds: a generated text stands for what it declares, serves or
\* is for.
Absent == [by |-> "nobody", text |-> {}]
Empty == [by |-> "created", text |-> {}]
Generated(text) == [by |-> "goctl", text |-> text]
Edited == [by |-> "user", text |-> {}]

Idle == [at |-> "idle"]
Init == /\ api \in Api
        /\ files = [f \in File |-> Absent]
        /\ run = Idle
        /\ torn = {}
        /\ runs = 0
-----------------------------------------------------------------------------
(* The calls of genFile that a run makes, in their order.                    *)

Job(f, text, rewrite) == [file |-> f, text |-> text, rewrite |-> rewrite]

\* genTypesWithGroup: a type used in exactly one group goes to its file, any
\* other to types.go. Without --type-group they all do.
KeyOf(a, t, grouped) ==
    LET used == {g \in Group : \E i \in DOMAIN a.routes :
                                 a.routes[i].group = g /\ t \in a.routes[i].uses}
    IN  IF grouped /\ \E g \in used : used = {g} THEN CHOOSE g \in used : TRUE ELSE Default

KeysOf(a, grouped) == {KeyOf(a, t, grouped) : t \in a.types}
TypesOf(a, k, grouped) == {t \in a.types : KeyOf(a, t, grouped) = k}

PerRoute(a, kind) ==
    [i \in DOMAIN a.routes |-> Job(RouteFile(kind, a.routes[i]), {a.routes[i]}, FALSE)]
Fixed(kind, names) == [i \in DOMAIN names |-> Job(<<kind, names[i]>>, {}, FALSE)]

\* keys is the order in which Go ranges over the groups of types. No file is
\* written for no types.
Plan(a, keys, grouped, withTest) ==
    Fixed("before", Before)
      \o [i \in DOMAIN keys |->
            Job(TypesFile(keys[i]), TypesOf(a, keys[i], grouped), TRUE)]
      \o <<Job(RoutesFile, ToSet(a.routes), TRUE)>>
      \o PerRoute(a, "handler") \o PerRoute(a, "logic")
      \o IF withTest
         THEN PerRoute(a, "handlerTest") \o PerRoute(a, "logicTest") \o Fixed("test", Tests)
         ELSE <<>>
-----------------------------------------------------------------------------
(* A run.                                                                    *)

Running == run.at \in {"job", "removed", "created"}
Current == Head(run.todo)

\* Parse and Validate accept the api file, which is not read again.
Start(grouped, withTest) ==
    /\ ~Running
    /\ runs < MaxRuns
    /\ runs' = runs + 1
    /\ \E keys \in SetToSeqs(KeysOf(api, grouped)) :
          run' = [at |-> "job", api |-> api, grouped |-> grouped,
                  todo |-> Plan(api, keys, grouped, withTest)]
    /\ UNCHANGED <<api, files, torn>>

Refuses == Current.file = RoutesFile /\ ~run.api.routesFit

\* Mutation: the old text is not removed.
RemoveOldNot ==
    /\ run.at = "job" /\ run.todo # <<>>
    /\ Current.rewrite /\ ~Refuses
    /\ run' = [run EXCEPT !.at = "removed"]
    /\ UNCHANGED <<api, files, torn, runs>>

\* Mutation: the old routes.go is removed before the new one is worked out.
RemoveOldEager ==
    /\ run.at = "job" /\ run.todo # <<>>
    /\ Current.rewrite
    /\ files' = [files EXCEPT ![Current.file] = Absent]
    /\ torn' = torn \ {Current.file}
    /\ run' = IF Refuses THEN Idle ELSE [run EXCEPT !.at = "removed"]
    /\ UNCHANGED <<api, runs>>

\* writeTypes and genRoutes remove the file they are about to write; its text
\* has been worked out before.
RemoveOld ==
    /\ run.at = "job" /\ run.todo # <<>>
    /\ Current.rewrite /\ ~Refuses
    /\ files' = [files EXCEPT ![Current.file] = Absent]
    /\ torn' = torn \ {Current.file}
    /\ run' = [run EXCEPT !.at = "removed"]
    /\ UNCHANGED <<api, runs>>

\* genRoutes returns an error, and logx.Must ends the process.
Refuse ==
    /\ run.at = "job" /\ run.todo # <<>>
    /\ Refuses
    /\ run' = Idle
    /\ UNCHANGED <<api, files, torn, runs>>

AtCreate == \/ run.at = "removed"
            \/ run.at = "job" /\ run.todo # <<>> /\ ~Current.rewrite

\* Mutation: a file that exists ends the run.
SkipReturns == /\ AtCreate
               /\ files[Current.file] # Absent
               /\ run' = [run EXCEPT !.at = "job", !.todo = <<>>]
               /\ UNCHANGED <<api, files, torn, runs>>

\* MaybeCreateFile, for a file that is there, "exists, ignored generation".
Skip == /\ AtCreate
        /\ files[Current.file] # Absent
        /\ run' = [run EXCEPT !.at = "job", !.todo = Tail(@)]
        /\ UNCHANGED <<api, files, torn, runs>>

\* Mutation: whether the file exists is not asked.
CreateAlways ==
    /\ AtCreate
    /\ files' = [files EXCEPT ![Current.file] = Empty]
    /\ run' = [run EXCEPT !.at = "created"]
    /\ UNCHANGED <<api, torn, runs>>

Create == /\ AtCreate
          /\ files[Current.file] = Absent
          /\ files' = [files EXCEPT ![Current.file] = Empty]
          /\ run' = [run EXCEPT !.at = "created"]
          /\ UNCHANGED <<api, torn, runs>>

\* The template is executed and its text written.
Write == /\ run.at = "created"
         /\ files' = [files EXCEPT ![Current.file] = Generated(Current.text)]
         /\ run' = [run EXCEPT !.at = "job", !.todo = Tail(@)]
         /\ UNCHANGED <<api, torn, runs>>

\* All files have been dealt with.
Finish == /\ run.at = "job" /\ run.todo = <<>>
          /\ run' = [run EXCEPT !.at = "done"]
          /\ UNCHANGED <<api, files, torn, runs>>

\* The process is killed, or a template or a write fails and logx.Must ends it.
Die == /\ Running
       /\ run' = Idle
       /\ torn' = IF run.at = "created" THEN torn \cup {Current.file} ELSE torn
       /\ UNCHANGED <<api, files, runs>>
-----------------------------------------------------------------------------
(* The user.                                                                 *)

\* Also a change during a run, which comes to the same: it is not read again.
ChangeApi(a) == /\ a # api
                /\ ~Running
                /\ api' = a
                /\ UNCHANGED <<files, run, torn, runs>>

Edit(f) == /\ files[f] # Absent
           /\ ~(run.at = "created" /\ Current.file = f)
           /\ files' = [files EXCEPT ![f] = Edited]
           /\ torn' = torn \ {f}
           /\ UNCHANGED <<api, run, runs>>

\* To have it generated anew.
DeleteFile(f) == /\ files[f] # Absent
                 /\ ~Running
                 /\ files' = [files EXCEPT ![f] = Absent]
                 /\ torn' = torn \ {f}
                 /\ run' = Idle
                 /\ UNCHANGED <<api, runs>>

Next == \/ \E grouped \in BOOLEAN, withTest \in WithTest : Start(grouped, withTest)
        \/ RemoveOld \/ Refuse \/ Skip \/ Create \/ Write \/ Finish \/ Die
        \/ \E a \in Api : ChangeApi(a)
        \/ \E f \in Touched : Edit(f) \/ DeleteFile(f)

Spec == Init /\ [][Next]_vars
-----------------------------------------------------------------------------
Done == run.at = "done"

ProjectTypeOK ==
    /\ api \in Api
    /\ \A f \in Scaffold : files[f] \in {Absent, Empty, Edited} \/ files[f].by = "goctl"
    /\ \A f \in TypesFiles : files[f] \in {Absent, Empty} \cup {Generated(S) : S \in (SUBSET Type) \ {{}}}
    /\ files[RoutesFile] \in {Absent, Empty} \cup {Generated(S) : S \in SUBSET Route}
    /\ torn \subseteq {f \in File : files[f] = Empty}
    /\ run.at \in {"idle", "done"} \/ Running
    /\ Running => /\ run.api \in Api
                  /\ \A i \in DOMAIN run.todo : run.todo[i].file \in File
                  /\ run.at # "job" => run.todo # <<>>

\* A run never changes what the user wrote into a file headed "Safe to edit",
\* whatever runs died before it and whatever the api file says now.
EditsKept ==
    [][Running => \A f \in Scaffold : files[f] = Edited => files'[f] = Edited]_vars

\* After a run that got through, routes.go serves exactly the routes of the
\* api file it read, and the handler and the logic of each are there and have
\* a text, if no earlier run died in the middle of writing them: later runs
\* take an empty file for one that the user keeps.
RoutesAreServed ==
    Done =>
      /\ files[RoutesFile] = Generated(ToSet(run.api.routes))
      /\ \A r \in ToSet(run.api.routes), kind \in {"handler", "logic"} :
           LET f == RouteFile(kind, r)
           IN  files[f] # Absent /\ (files[f] = Empty => f \in torn)

\* The types files of two keys have one name.
Clash(a, k, grouped) ==
    \E j \in KeysOf(a, grouped) : j # k /\ FileName[j] = FileName[k]

\* After a run that got through, every type is declared in the file of its
\* key, a file which holds the types of the current api file only, however
\* often types have moved between groups and whatever runs died. A type is
\* missing only if the names of two groups are made into one file name. What is
\* declared in two files stands in one that no type belongs to any more:
\* nothing removes the types file of a group that has lost its types.
TypesAreDeclared ==
    Done =>
      /\ \A t \in run.api.types :
           LET k == KeyOf(run.api, t, run.grouped)
               f == files[TypesFile(k)]
           IN  Clash(run.api, k, run.grouped)
                 \/ f = Generated(TypesOf(run.api, k, run.grouped))
      /\ \A f, g \in TypesFiles :
           f # g /\ files[f].text \cap files[g].text # {} =>
             \E h \in {f, g} : h \notin {TypesFile(k) : k \in KeysOf(run.api, run.grouped)}

\* A run that finds a timeout or maxBytes it cannot read leaves routes.go as
\* it is.
RefusalKeepsRoutes ==
    [][Running /\ ~run.api.routesFit => files'[RoutesFile] = files[RoutesFile]]_vars
=============================================================================
