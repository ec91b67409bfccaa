-------------------------- MODULE GenProjectProofs --------------------------
(* What any number of runs on one project keep, whatever the api files say,  *)
(* wherever the runs die and whatever the user edits in between.             *)
EXTENDS GenProject, SequenceTheorems, FiniteSetTheorems, TLAPS

Listed(x, s) == \E i \in DOMAIN s : s[i] = x
Pending(f) == \E i \in DOMAIN run.todo : run.todo[i].file = f

\* What genFile is called with: the files that are removed first are those
\* the user should not edit, routes.go is written for all routes, and a types
\* file for the types of a key that has its name.
ProperJob(a, grouped) ==
    {j \in [file : File, text : SUBSET (Type \cup Route), rewrite : BOOLEAN] :
       /\ j.rewrite <=> j.file \notin Scaffold
       /\ j.file = RoutesFile => j.text = ToSet(a.routes)
       /\ j.file \in TypesFiles =>
            \E k \in KeysOf(a, grouped) : j.file = TypesFile(k) /\ j.text = TypesOf(a, k, grouped)}

RunType ==
    /\ run = [at |-> run.at, api |-> run.api, grouped |-> run.grouped, todo |-> run.todo]
    /\ run.api \in Api
    /\ run.todo \in Seq(ProperJob(run.api, run.grouped))

\* The run, and the file it is about to write.
AtFile ==
    /\ api \in Api /\ DOMAIN files = File
    /\ Running \/ Done => RunType
    /\ run.at \in {"removed", "created"} => run.todo # <<>>
    /\ run.at = "removed" => files[Current.file] = Absent
    /\ run.at = "created" => files[Current.file] = Empty

\* A run that is going to refuse does not get as far as removing routes.go.
Readable ==
    run.at \in {"removed", "created"} /\ ~run.api.routesFit => Current.file # RoutesFile

\* Only a run that died leaves an empty file.
EmptyIsTorn ==
    \A f \in File : files[f] = Empty => f \in torn \/ (run.at = "created" /\ Current.file = f)

\* What is not served yet is still on the list.
Later(f) == Running /\ Pending(f)
Served ==
    Running \/ Done =>
      /\ Later(RoutesFile) \/ files[RoutesFile] = Generated(ToSet(run.api.routes))
      /\ \A kind \in {"handler", "logic"}, r \in ToSet(run.api.routes) :
           Later(RouteFile(kind, r)) \/ files[RouteFile(kind, r)] # Absent

\* The inductive invariant.
RunInv == AtFile /\ Readable /\ EmptyIsTorn /\ Served

LEMMA ConcatLists ==
    ASSUME NEW S, NEW s \in Seq(S), NEW t \in Seq(S)
    PROVE  /\ s \o t \in Seq(S)
           /\ \A x : Listed(x, s) \/ Listed(x, t) => Listed(x, s \o t)
<1>1. s \o t \in Seq(S) /\ Len(s \o t) = Len(s) + Len(t) /\ Len(s) \in Nat /\ Len(t) \in Nat
  BY ConcatProperties, LenProperties
<1>2. /\ DOMAIN s = 1 .. Len(s) /\ DOMAIN t = 1 .. Len(t)
      /\ DOMAIN (s \o t) = 1 .. Len(s \o t)
  BY <1>1, LenProperties
<1>3. ASSUME NEW x, Listed(x, s) PROVE Listed(x, s \o t)
  <2>1. PICK i \in DOMAIN s : s[i] = x
    BY <1>3 DEF Listed
  <2>2. i \in DOMAIN (s \o t) /\ (s \o t)[i] = x
    BY <2>1, <1>1, <1>2, ConcatProperties
  <2> QED
    BY <2>2 DEF Listed
<1>4. ASSUME NEW x, Listed(x, t) PROVE Listed(x, s \o t)
  <2>1. PICK i \in DOMAIN t : t[i] = x
    BY <1>4 DEF Listed
  <2>2. Len(s) + i \in DOMAIN (s \o t) /\ (s \o t)[Len(s) + i] = x
    BY <2>1, <1>1, <1>2, ConcatProperties
  <2> QED
    BY <2>2 DEF Listed
<1> QED
  BY <1>1, <1>3, <1>4

LEMMA SingleLists ==
    ASSUME NEW S, NEW x \in S
    PROVE  <<x>> \in Seq(S) /\ Listed(x, <<x>>)
<1>1. <<x>> \in Seq(S) /\ 1 \in DOMAIN <<x>> /\ <<x>>[1] = x
  OBVIOUS
<1> QED
  BY <1>1 DEF Listed

\* The files that are removed first are no scaffold.
LEMMA NoScaffold ==
    /\ RoutesFile \in File \ (Scaffold \cup TypesFiles)
    /\ TypesFiles \subseteq File \ Scaffold
    /\ \A k \in Key : TypesFile(k) \in File \ Scaffold /\ TypesFile(k) # RoutesFile
BY DEF RoutesFile, TypesFile, TypesFiles, File, Scaffold, RouteFile

LEMMA JobsOfRoutes ==
    ASSUME NEW a \in Api, NEW grouped, NEW kind \in {"handler", "logic", "handlerTest", "logicTest"}
    PROVE  /\ PerRoute(a, kind) \in Seq(ProperJob(a, grouped))
           /\ \A r \in ToSet(a.routes) : Listed(Job(RouteFile(kind, r), {r}, FALSE), PerRoute(a, kind))
<1>1. a.routes \in Seq(Route) /\ DOMAIN a.routes = 1 .. Len(a.routes) /\ Len(a.routes) \in Nat
  BY ApiAssumption, LenProperties
<1>2. \A i \in DOMAIN a.routes : a.routes[i] \in Route
  BY <1>1, ElementOfSeq
<1>3. \A r \in Route : Job(RouteFile(kind, r), {r}, FALSE) \in ProperJob(a, grouped)
  BY NoScaffold DEF ProperJob, Job, RouteFile, File, Scaffold
<1>4. PerRoute(a, kind) \in [1 .. Len(a.routes) -> ProperJob(a, grouped)]
  BY <1>1, <1>2, <1>3 DEF PerRoute
<1>5. PerRoute(a, kind) \in Seq(ProperJob(a, grouped))
  BY <1>1, <1>4, SeqDef
<1>6. ASSUME NEW r \in ToSet(a.routes)
      PROVE  Listed(Job(RouteFile(kind, r), {r}, FALSE), PerRoute(a, kind))
  BY <1>6 DEF ToSet, Listed, PerRoute
<1> QED
  BY <1>5, <1>6

LEMMA JobsOfFixed ==
    ASSUME NEW a \in Api, NEW grouped
    PROVE  /\ Fixed("before", Before) \in Seq(ProperJob(a, grouped))
           /\ Fixed("test", Tests) \in Seq(ProperJob(a, grouped))
<1>1. ASSUME NEW kind \in {"before", "test"}, NEW names \in Seq(STRING),
             \A x \in ToSet(names) : <<kind, x>> \in Scaffold
      PROVE  Fixed(kind, names) \in Seq(ProperJob(a, grouped))
  <2>1. DOMAIN names = 1 .. Len(names) /\ Len(names) \in Nat
    BY LenProperties
  <2>2. \A i \in DOMAIN names : Job(<<kind, names[i]>>, {}, FALSE) \in ProperJob(a, grouped)
    BY <1>1, NoScaffold DEF ProperJob, Job, File, ToSet
  <2>3. Fixed(kind, names) \in [1 .. Len(names) -> ProperJob(a, grouped)]
    BY <2>1, <2>2 DEF Fixed
  <2> QED
    BY <2>1, <2>3, SeqDef
<1> QED
  BY <1>1, FixedAssumption DEF Scaffold

LEMMA JobsOfTypes ==
    ASSUME NEW a \in Api, NEW grouped \in BOOLEAN,
           NEW keys \in SetToSeqs(KeysOf(a, grouped))
    PROVE  [i \in DOMAIN keys |->
              Job(TypesFile(keys[i]), TypesOf(a, keys[i], grouped), TRUE)] \in Seq(ProperJob(a, grouped))
<1>1. KeysOf(a, grouped) \in SUBSET Key
  BY DEF KeysOf, KeyOf, Key
<1>2. Cardinality(KeysOf(a, grouped)) \in Nat
  BY <1>1, KeyAssumption, FS_Subset, FS_CardinalityType
<1>3. keys \in [1 .. Cardinality(KeysOf(a, grouped)) -> KeysOf(a, grouped)]
  BY <1>1 DEF SetToSeqs
<1>4. \A k \in KeysOf(a, grouped) : Job(TypesFile(k), TypesOf(a, k, grouped), TRUE) \in ProperJob(a, grouped)
  <2> TAKE k \in KeysOf(a, grouped)
  <2>0. k \in Key
    BY <1>1
  <2>1. TypesFile(k) \in File \ Scaffold /\ TypesFile(k) # RoutesFile
    BY <2>0, NoScaffold
  <2>2. TypesOf(a, k, grouped) \in SUBSET (Type \cup Route)
    BY ApiAssumption DEF TypesOf
  <2> QED
    BY <2>1, <2>2 DEF ProperJob, Job
<1> DEFINE jobs == [i \in DOMAIN keys |->
                      Job(TypesFile(keys[i]), TypesOf(a, keys[i], grouped), TRUE)]
<1>5. jobs \in [1 .. Cardinality(KeysOf(a, grouped)) -> ProperJob(a, grouped)]
  BY <1>3, <1>4
<1> HIDE DEF jobs
<1>6. jobs \in Seq(ProperJob(a, grouped))
  BY <1>2, <1>5, SeqDef
<1> QED
  BY <1>6 DEF jobs

\* Every order of a finite set comes by each of its elements.
LEMMA OrderHasAll ==
    ASSUME NEW K, IsFiniteSet(K), NEW keys \in SetToSeqs(K)
    PROVE  \A k \in K : \E i \in DOMAIN keys : keys[i] = k
<1> DEFINE n == Cardinality(K)
<1>1. n \in Nat
  BY FS_CardinalityType
<1>2. keys \in [1 .. n -> K] /\ \A i, j \in 1 .. n : i # j => keys[i] # keys[j]
  BY DEF SetToSeqs
<1>3. IsFiniteSet(1 .. n) /\ Cardinality(1 .. n) = n
  BY <1>1, FS_Interval
<1> HIDE DEF n
<1>4. keys \in Injection(1 .. n, K)
  BY <1>2 DEF Injection, IsInjective
<1>5. Cardinality(1 .. n) = Cardinality(K)
  BY <1>3 DEF n
<1>6. keys \in Surjection(1 .. n, K)
  BY <1>4, <1>5, FS_Injection
<1> QED
  BY <1>2, <1>6 DEF Surjection

\* A run sets out to call genFile for routes.go, for the handler and the logic
\* of every route and for the types file of every key, and for no file in a way
\* that does not suit it.
LEMMA PlanJobs ==
    ASSUME NEW a \in Api, NEW grouped \in BOOLEAN, NEW withTest,
           NEW keys \in SetToSeqs(KeysOf(a, grouped))
    PROVE  /\ Plan(a, keys, grouped, withTest) \in Seq(ProperJob(a, grouped))
           /\ Listed(Job(RoutesFile, ToSet(a.routes), TRUE), Plan(a, keys, grouped, withTest))
           /\ \A kind \in {"handler", "logic"}, r \in ToSet(a.routes) :
                Listed(Job(RouteFile(kind, r), {r}, FALSE), Plan(a, keys, grouped, withTest))
           /\ \A k \in KeysOf(a, grouped) :
                Listed(Job(TypesFile(k), TypesOf(a, k, grouped), TRUE), Plan(a, keys, grouped, withTest))
<1> DEFINE s1 == Fixed("before", Before)
           s2 == [i \in DOMAIN keys |->
                    Job(TypesFile(keys[i]), TypesOf(a, keys[i], grouped), TRUE)]
           s3 == <<Job(RoutesFile, ToSet(a.routes), TRUE)>>
           s4 == PerRoute(a, "handler")
           s5 == PerRoute(a, "logic")
           s6 == PerRoute(a, "handlerTest") \o PerRoute(a, "logicTest") \o Fixed("test", Tests)
           s7 == IF withTest THEN s6 ELSE <<>>
<1>1. s1 \in Seq(ProperJob(a, grouped)) /\ s2 \in Seq(ProperJob(a, grouped))
  BY JobsOfFixed, JobsOfTypes
<1>2. s3 \in Seq(ProperJob(a, grouped)) /\ Listed(Job(RoutesFile, ToSet(a.routes), TRUE), s3)
  <2>1. ToSet(a.routes) \in SUBSET (Type \cup Route)
    BY ApiAssumption, ElementOfSeq, LenProperties DEF ToSet
  <2>2. Job(RoutesFile, ToSet(a.routes), TRUE) \in ProperJob(a, grouped)
    BY <2>1, NoScaffold DEF ProperJob, Job
  <2> QED
    BY <2>2, SingleLists
<1>3. s4 \in Seq(ProperJob(a, grouped)) /\ s5 \in Seq(ProperJob(a, grouped))
  BY JobsOfRoutes
<1>4. s7 \in Seq(ProperJob(a, grouped))
  BY JobsOfRoutes, JobsOfFixed, ConcatProperties, EmptySeq
<1> HIDE DEF s1, s2, s3, s4, s5, s6, s7
<1>5. /\ s1 \o s2 \in Seq(ProperJob(a, grouped))
      /\ s1 \o s2 \o s3 \in Seq(ProperJob(a, grouped))
      /\ s1 \o s2 \o s3 \o s4 \in Seq(ProperJob(a, grouped))
      /\ s1 \o s2 \o s3 \o s4 \o s5 \in Seq(ProperJob(a, grouped))
      /\ s1 \o s2 \o s3 \o s4 \o s5 \o s7 \in Seq(ProperJob(a, grouped))
  BY <1>1, <1>2, <1>3, <1>4, ConcatProperties
<1>6. \A x : Listed(x, s2) \/ Listed(x, s3) \/ Listed(x, s4) \/ Listed(x, s5) =>
              Listed(x, s1 \o s2 \o s3 \o s4 \o s5 \o s7)
  <2> TAKE x
  <2>0. Listed(x, s2) => Listed(x, s1 \o s2)
    BY <1>1, ConcatLists
  <2>1. Listed(x, s1 \o s2) \/ Listed(x, s3) => Listed(x, s1 \o s2 \o s3)
    BY <1>2, <1>5, ConcatLists
  <2>2. Listed(x, s1 \o s2 \o s3) \/ Listed(x, s4) => Listed(x, s1 \o s2 \o s3 \o s4)
    BY <1>3, <1>5, ConcatLists
  <2>3. Listed(x, s1 \o s2 \o s3 \o s4) \/ Listed(x, s5)
          => Listed(x, s1 \o s2 \o s3 \o s4 \o s5)
    BY <1>3, <1>5, ConcatLists
  <2>4. Listed(x, s1 \o s2 \o s3 \o s4 \o s5)
          => Listed(x, s1 \o s2 \o s3 \o s4 \o s5 \o s7)
    BY <1>4, <1>5, ConcatLists
  <2> QED
    BY <2>0, <2>1, <2>2, <2>3, <2>4
<1>7. Plan(a, keys, grouped, withTest) = s1 \o s2 \o s3 \o s4 \o s5 \o s7
  BY DEF Plan, s1, s2, s3, s4, s5, s6, s7
<1>8. \A kind \in {"handler", "logic"}, r \in ToSet(a.routes) :
        Listed(Job(RouteFile(kind, r), {r}, FALSE), s4)
          \/ Listed(Job(RouteFile(kind, r), {r}, FALSE), s5)
  BY JobsOfRoutes DEF s4, s5
<1>9. \A k \in KeysOf(a, grouped) : Listed(Job(TypesFile(k), TypesOf(a, k, grouped), TRUE), s2)
  <2>1. IsFiniteSet(KeysOf(a, grouped))
    <3>1. KeysOf(a, grouped) \in SUBSET Key
      BY DEF KeysOf, KeyOf, Key
    <3> QED
      BY <3>1, KeyAssumption, FS_Subset
  <2>2. \A k \in KeysOf(a, grouped) : \E i \in DOMAIN keys : keys[i] = k
    BY <2>1, OrderHasAll
  <2>3. \A i \in DOMAIN keys :
          i \in DOMAIN s2 /\ s2[i] = Job(TypesFile(keys[i]), TypesOf(a, keys[i], grouped), TRUE)
    BY DEF s2
  <2> QED
    BY <2>2, <2>3 DEF Listed
<1> QED
  BY <1>2, <1>5, <1>6, <1>7, <1>8, <1>9

-----------------------------------------------------------------------------
\* The tail of a sequence has its later elements, one place earlier.
LEMMA Shifted ==
    ASSUME NEW S, NEW s \in Seq(S), s # <<>>
    PROVE  /\ Len(s) \in Nat \ {0} /\ Len(Tail(s)) = Len(s) - 1
           /\ Head(s) = s[1]
           /\ \A i \in 1 .. Len(s) - 1 : Tail(s)[i] = s[i + 1]
           /\ DOMAIN s = 1 .. Len(s) /\ DOMAIN Tail(s) = 1 .. Len(s) - 1
OBVIOUS

\* The file a run is at.
LEMMA CurrentJob ==
    ASSUME RunType, run.todo # <<>>
    PROVE  /\ Current.file \in File
           /\ Current.rewrite <=> Current.file \notin Scaffold
           /\ Current.file = RoutesFile => Current.text = ToSet(run.api.routes)
           /\ Current.file \in TypesFiles =>
                \E k \in KeysOf(run.api, run.grouped) :
                  Current.file = TypesFile(k) /\ Current.text = TypesOf(run.api, k, run.grouped)
           /\ \A f : Pending(f) <=> \/ f = Current.file
                                   \/ \E i \in DOMAIN Tail(run.todo) : Tail(run.todo)[i].file = f
<1>1. run.todo \in Seq(ProperJob(run.api, run.grouped))
  BY DEF RunType
<1>2. Current \in ProperJob(run.api, run.grouped)
  BY <1>1, HeadTailProperties DEF Current
<1>3. /\ Len(run.todo) \in Nat \ {0}
      /\ Head(run.todo) = run.todo[1]
      /\ \A i \in 1 .. Len(run.todo) - 1 : Tail(run.todo)[i] = run.todo[i + 1]
      /\ DOMAIN run.todo = 1 .. Len(run.todo)
      /\ DOMAIN Tail(run.todo) = 1 .. Len(run.todo) - 1
  BY <1>1, Shifted
<1>4. ASSUME NEW f, NEW i \in DOMAIN run.todo, run.todo[i].file = f
      PROVE  \/ f = Current.file
             \/ \E j \in DOMAIN Tail(run.todo) : Tail(run.todo)[j].file = f
  <2>1. CASE i = 1
    BY <2>1, <1>3, <1>4 DEF Current
  <2>2. CASE i # 1
    <3>1. i - 1 \in DOMAIN Tail(run.todo) /\ Tail(run.todo)[i - 1] = run.todo[i]
      BY <2>2, <1>3
    <3> QED
      BY <3>1, <1>4
  <2> QED
    BY <2>1, <2>2
<1>5. ASSUME NEW f, f = Current.file PROVE Pending(f)
  BY <1>3, <1>5 DEF Pending, Current
<1>6. ASSUME NEW f, NEW j \in DOMAIN Tail(run.todo), Tail(run.todo)[j].file = f
      PROVE  Pending(f)
  <2>1. j + 1 \in DOMAIN run.todo /\ run.todo[j + 1].file = f
    BY <1>3, <1>6
  <2> QED
    BY <2>1 DEF Pending
<1> QED
  BY <1>1, <1>2, <1>4, <1>5, <1>6 DEF Pending, ProperJob

\* A run takes a step within a file.
LEMMA MovedOn ==
    ASSUME RunType, NEW s, run' = [run EXCEPT !.at = s]
    PROVE  /\ run'.at = s /\ run'.api = run.api /\ run'.todo = run.todo
           /\ run'.grouped = run.grouped
           /\ Current' = Current /\ RunType'
           /\ \A f : Pending(f)' <=> Pending(f)
<1>1. run' = [at |-> s, api |-> run.api, grouped |-> run.grouped, todo |-> run.todo]
  BY DEF RunType
<1>2. run'.at = s /\ run'.api = run.api /\ run'.todo = run.todo /\ run'.grouped = run.grouped
  BY <1>1
<1>3. RunType'
  BY <1>1, <1>2 DEF RunType, ProperJob
<1> QED
  BY <1>2, <1>3 DEF Pending, Current

\* A run is through with a file.
LEMMA WentOn ==
    ASSUME RunType, run.todo # <<>>, run' = [run EXCEPT !.at = "job", !.todo = Tail(@)]
    PROVE  /\ run'.at = "job" /\ run'.api = run.api /\ run'.todo = Tail(run.todo)
           /\ run'.grouped = run.grouped /\ RunType'
           /\ \A f : Pending(f) <=> Pending(f)' \/ f = Current.file
<1>1. Tail(run.todo) \in Seq(ProperJob(run.api, run.grouped))
  BY HeadTailProperties DEF RunType
<1>2. run' = [at |-> "job", api |-> run.api, grouped |-> run.grouped, todo |-> Tail(run.todo)]
  BY DEF RunType
<1>3. /\ run'.at = "job" /\ run'.api = run.api /\ run'.todo = Tail(run.todo)
      /\ run'.grouped = run.grouped
  BY <1>2
<1>4. RunType'
  <2>1. ProperJob(run.api, run.grouped)' = ProperJob(run.api, run.grouped)
    BY <1>3 DEF ProperJob, TypesFiles, TypesFile, File, Scaffold, RoutesFile, RouteFile
  <2>2. run.api \in Api
    BY DEF RunType
  <2> QED
    BY <1>1, <1>2, <1>3, <2>1, <2>2 DEF RunType
<1>5. \A f : Pending(f) <=> Pending(f)' \/ f = Current.file
  BY <1>3, CurrentJob DEF Pending
<1> QED
  BY <1>3, <1>4, <1>5

\* The files of a route, and routes.go.
LEMMA RouteFiles ==
    ASSUME NEW a \in Api, NEW kind \in {"handler", "logic"}, NEW r \in ToSet(a.routes)
    PROVE  RouteFile(kind, r) \in Scaffold /\ RouteFile(kind, r) # RoutesFile
<1>1. r \in Route
  BY ApiAssumption, ElementOfSeq, LenProperties DEF ToSet
<1> QED
  BY <1>1, NoScaffold DEF Scaffold

LEMMA RunInit == ASSUME Init PROVE RunInv
BY DEF Init, RunInv, AtFile, Readable, EmptyIsTorn, Served, Running, Done, Idle, Absent, Empty

LEMMA StartStep ==
    ASSUME RunInv, NEW grouped \in BOOLEAN, NEW withTest, Start(grouped, withTest)
    PROVE  RunInv'
<1>1. PICK keys \in SetToSeqs(KeysOf(api, grouped)) :
        run' = [at |-> "job", api |-> api, grouped |-> grouped,
                todo |-> Plan(api, keys, grouped, withTest)]
  BY DEF Start
<1> DEFINE plan == Plan(api, keys, grouped, withTest)
<1>2. /\ plan \in Seq(ProperJob(api, grouped))
      /\ Listed(Job(RoutesFile, ToSet(api.routes), TRUE), plan)
      /\ \A kind \in {"handler", "logic"}, r \in ToSet(api.routes) :
           Listed(Job(RouteFile(kind, r), {r}, FALSE), plan)
  BY PlanJobs DEF RunInv, AtFile
<1> HIDE DEF plan
<1>3. /\ run'.at = "job" /\ run'.api = api /\ run'.todo = plan
      /\ run' = [at |-> run'.at, api |-> run'.api, grouped |-> run'.grouped, todo |-> run'.todo]
  BY <1>1 DEF plan
<1>4. AtFile'
  BY <1>2, <1>3 DEF RunInv, AtFile, RunType, Start, ProperJob
<1>5. Readable'
  BY <1>3 DEF Readable
<1>6. EmptyIsTorn'
  <2>1. run.at # "created" /\ files' = files /\ torn' = torn
    BY DEF Start, Running
  <2>2. \A f \in File : files[f] = Empty => f \in torn
    BY <2>1 DEF RunInv, EmptyIsTorn
  <2> QED
    BY <2>1, <2>2 DEF EmptyIsTorn, File, TypesFiles, TypesFile, Scaffold, RoutesFile, RouteFile, Empty
<1>7. \A x, f : Listed(x, plan) /\ x.file = f => Later(f)'
  BY <1>3 DEF Later, Pending, Running, Listed
<1>8. Served'
  <2>1. Later(RoutesFile)'
    BY <1>2, <1>7 DEF Job
  <2>2. \A kind \in {"handler", "logic"}, r \in ToSet(api.routes) : Later(RouteFile(kind, r))'
    BY <1>2, <1>7 DEF Job
  <2> QED
    BY <1>3, <2>1, <2>2 DEF Served, RoutesFile, RouteFile
<1> QED
  BY <1>4, <1>5, <1>6, <1>8 DEF RunInv

LEMMA RemoveOldStep ==
    ASSUME RunInv, RemoveOld PROVE RunInv'
<1> DEFINE f == Current.file
<1>1. RunType /\ run.todo # <<>> /\ run.at = "job" /\ Running
  BY DEF RunInv, AtFile, RemoveOld, Running
<1>2. f \in File \ Scaffold
  BY <1>1, CurrentJob DEF RemoveOld
<1>3. /\ run'.at = "removed" /\ run'.api = run.api /\ run'.todo = run.todo
      /\ Current' = Current /\ RunType' /\ \A g : Pending(g)' <=> Pending(g)
  <2>1. run' = [run EXCEPT !.at = "removed"]
    BY DEF RemoveOld
  <2> QED
    BY <1>1, <2>1, MovedOn
<1>4. files' = [files EXCEPT ![f] = Absent] /\ torn' = torn \ {f} /\ api' = api
  BY DEF RemoveOld
<1>5. AtFile'
  BY <1>1, <1>2, <1>3, <1>4 DEF RunInv, AtFile
<1>6. Readable'
  BY <1>3 DEF RemoveOld, Refuses, Readable, RoutesFile
<1>7. EmptyIsTorn'
  BY <1>1, <1>2, <1>4 DEF RunInv, AtFile, EmptyIsTorn, Absent, Empty
<1>8. \A g : Later(g) => Later(g)'
  BY <1>3 DEF Later, Running
<1>9. Later(f)
  BY <1>1, CurrentJob DEF Later
<1>10. Served'
  <2>1. \A g \in File \ {f} : files'[g] = files[g]
    BY <1>4 DEF RunInv, AtFile
  <2> QED
    BY <1>1, <1>2, <1>3, <1>8, <1>9, <2>1, RouteFiles, NoScaffold
      DEF RunInv, Served, RoutesFile, RouteFile, RunType, File
<1> QED
  BY <1>5, <1>6, <1>7, <1>10 DEF RunInv

LEMMA SkipStep ==
    ASSUME RunInv, Skip PROVE RunInv'
<1> DEFINE f == Current.file
<1>1. RunType /\ run.todo # <<>> /\ run.at \in {"removed", "job"} /\ Running
  BY DEF RunInv, AtFile, Skip, AtCreate, Running
<1>2. f \in Scaffold /\ files[f] # Absent
  BY <1>1, CurrentJob DEF RunInv, AtFile, Skip, AtCreate
<1>3. /\ run'.at = "job" /\ run'.api = run.api
      /\ RunType' /\ \A g : Pending(g) <=> Pending(g)' \/ g = f
  <2>1. run' = [run EXCEPT !.at = "job", !.todo = Tail(@)]
    BY DEF Skip
  <2> QED
    BY <1>1, <2>1, WentOn
<1>4. files' = files /\ torn' = torn /\ api' = api
  BY DEF Skip
<1>5. AtFile' /\ Readable'
  BY <1>3, <1>4 DEF RunInv, AtFile, Readable
<1>6. EmptyIsTorn'
  <2>1. run.at # "created" /\ \A g \in File : files[g] = Empty => g \in torn
    BY <1>1 DEF RunInv, EmptyIsTorn
  <2> QED
    BY <1>4, <2>1 DEF EmptyIsTorn, File, TypesFiles, TypesFile, Scaffold, RoutesFile, RouteFile, Empty
<1>7. \A g : Later(g) => Later(g)' \/ g = f
  BY <1>3 DEF Later, Running
<1>8. Served'
  BY <1>1, <1>2, <1>3, <1>4, <1>7, NoScaffold DEF RunInv, Served, RoutesFile, RouteFile
<1> QED
  BY <1>5, <1>6, <1>8 DEF RunInv

LEMMA CreateStep ==
    ASSUME RunInv, Create PROVE RunInv'
<1> DEFINE f == Current.file
<1>1. RunType /\ run.todo # <<>> /\ run.at \in {"removed", "job"} /\ Running
  BY DEF RunInv, AtFile, Create, AtCreate, Running
<1>2. f \in File /\ (run.at = "removed" \/ f \in Scaffold)
  BY <1>1, CurrentJob DEF Create, AtCreate
<1>3. /\ run'.at = "created" /\ run'.api = run.api /\ run'.todo = run.todo
      /\ Current' = Current /\ RunType' /\ \A g : Pending(g)' <=> Pending(g)
  <2>1. run' = [run EXCEPT !.at = "created"]
    BY DEF Create
  <2> QED
    BY <1>1, <2>1, MovedOn
<1>4. files' = [files EXCEPT ![f] = Empty] /\ torn' = torn /\ api' = api
  BY DEF Create
<1>5. AtFile'
  BY <1>1, <1>2, <1>3, <1>4 DEF RunInv, AtFile
<1>6. Readable'
  BY <1>1, <1>2, <1>3, NoScaffold DEF RunInv, Readable, RoutesFile
<1>7. EmptyIsTorn'
  <2>1. run.at # "created" /\ \A g \in File : files[g] = Empty => g \in torn
    BY <1>1 DEF RunInv, EmptyIsTorn
  <2>2. \A g \in File : files'[g] = Empty => g \in torn' \/ (run'.at = "created" /\ Current.file' = g)
    BY <1>2, <1>3, <1>4, <2>1 DEF RunInv, AtFile
  <2> QED
    BY <2>2 DEF EmptyIsTorn, File, TypesFiles, TypesFile, Scaffold, RoutesFile, RouteFile, Empty
<1>8. \A g : Later(g) => Later(g)'
  BY <1>3 DEF Later, Running
<1>9. Later(f)
  BY <1>1, CurrentJob DEF Later
<1>10. Served'
  <2>1. \A g \in File \ {f} : files'[g] = files[g]
    BY <1>4 DEF RunInv, AtFile
  <2> QED
    BY <1>1, <1>2, <1>3, <1>8, <1>9, <2>1, RouteFiles, NoScaffold
      DEF RunInv, Served, RoutesFile, RouteFile, RunType, File
<1> QED
  BY <1>5, <1>6, <1>7, <1>10 DEF RunInv

LEMMA WriteStep ==
    ASSUME RunInv, Write PROVE RunInv'
<1> DEFINE f == Current.file
<1>1. RunType /\ run.todo # <<>> /\ run.at = "created" /\ Running
  BY DEF RunInv, AtFile, Write, Running
<1>2. f \in File /\ (f = RoutesFile => Current.text = ToSet(run.api.routes))
  BY <1>1, CurrentJob
<1>3. /\ run'.at = "job" /\ run'.api = run.api
      /\ RunType' /\ \A g : Pending(g) <=> Pending(g)' \/ g = f
  <2>1. run' = [run EXCEPT !.at = "job", !.todo = Tail(@)]
    BY DEF Write
  <2> QED
    BY <1>1, <2>1, WentOn
<1>4. files' = [files EXCEPT ![f] = Generated(Current.text)] /\ torn' = torn /\ api' = api
  BY DEF Write
<1>5. AtFile' /\ Readable'
  BY <1>3, <1>4 DEF RunInv, AtFile, Readable
<1>6. \A g \in File : files'[g] = IF g = f THEN Generated(Current.text) ELSE files[g]
  BY <1>4 DEF RunInv, AtFile
<1>7. EmptyIsTorn'
  <2>1. \A g \in File : files'[g] = Empty => g \in torn'
    BY <1>1, <1>4, <1>6 DEF RunInv, EmptyIsTorn, Empty, Generated
  <2> QED
    BY <2>1 DEF EmptyIsTorn, File, TypesFiles, TypesFile, Scaffold, RoutesFile, RouteFile, Empty
<1>8. \A g : Later(g) => Later(g)' \/ g = f
  BY <1>3 DEF Later, Running
<1>9. Served'
  <2>1. files'[f] # Absent
    BY <1>2, <1>6 DEF Generated, Absent
  <2>2. Later(RoutesFile)' \/ files'[RoutesFile] = Generated(ToSet(run.api.routes))
    BY <1>1, <1>2, <1>6, <1>8, NoScaffold DEF RunInv, Served
  <2>3. \A kind \in {"handler", "logic"}, r \in ToSet(run.api.routes) :
          Later(RouteFile(kind, r))' \/ files'[RouteFile(kind, r)] # Absent
    BY <1>1, <1>6, <1>8, <2>1, RouteFiles DEF RunInv, Served, RunType, File
  <2> QED
    BY <1>3, <2>2, <2>3 DEF Served, RoutesFile, RouteFile, Generated, Absent
<1> QED
  BY <1>5, <1>7, <1>9 DEF RunInv

\* A run that ends early, or gets through.
LEMMA EndStep ==
    ASSUME RunInv, Refuse \/ Die \/ Finish PROVE RunInv'
<1>1. files' = files /\ api' = api
  BY DEF Refuse, Die, Finish
<1>2. run'.at \in {"idle", "done"} /\ ~Running' /\ (Done' => Finish)
  BY DEF Refuse, Die, Finish, Idle, Running, Done, RunInv, AtFile, RunType
<1>3. EmptyIsTorn'
  <2>1. \A g \in File : files[g] = Empty => g \in torn'
    <3>1. CASE Die
      BY <3>1 DEF Die, RunInv, EmptyIsTorn
    <3>2. CASE Refuse \/ Finish
      BY <3>2 DEF Refuse, Finish, RunInv, EmptyIsTorn
    <3> QED
      BY <3>1, <3>2
  <2> QED
    BY <1>1, <2>1 DEF EmptyIsTorn, File, TypesFiles, TypesFile, Scaffold, RoutesFile, RouteFile, Empty
<1>4. ASSUME Finish
      PROVE  /\ RunType' /\ run'.api = run.api
             /\ files[RoutesFile] = Generated(ToSet(run.api.routes))
             /\ \A kind \in {"handler", "logic"}, r \in ToSet(run.api.routes) :
                  files[RouteFile(kind, r)] # Absent
  <2>1. RunType /\ Running /\ run.todo = <<>>
    BY <1>4 DEF Finish, RunInv, AtFile, Running
  <2>2. RunType' /\ run'.api = run.api
    <3>1. run' = [run EXCEPT !.at = "done"]
      BY <1>4 DEF Finish
    <3> QED
      BY <2>1, <3>1, MovedOn
  <2>3. \A g : ~Later(g)
    BY <2>1 DEF Later, Pending
  <2> QED
    BY <2>1, <2>2, <2>3 DEF RunInv, Served
<1>5. AtFile' /\ Readable' /\ Served'
  BY <1>1, <1>2, <1>4 DEF RunInv, AtFile, Readable, Served, RoutesFile, RouteFile, Generated, Absent
<1> QED
  BY <1>3, <1>5 DEF RunInv

\* A step that leaves the run, the files and torn alone.
LEMMA QuietStep ==
    ASSUME RunInv, api' \in Api, UNCHANGED <<files, run, torn>> PROVE RunInv'
<1>1. files' = files /\ run' = run /\ torn' = torn
  OBVIOUS
<1>2. /\ Current' = Current /\ RunType' = RunType /\ Running' = Running /\ Done' = Done
      /\ \A g : Later(g)' = Later(g)
  BY <1>1 DEF Current, RunType, ProperJob, Later, Pending, Running, Done
<1>3. AtFile' /\ Readable'
  BY <1>1, <1>2 DEF RunInv, AtFile, Readable
<1>4. EmptyIsTorn'
  <2>1. \A g \in File : files'[g] = Empty => g \in torn' \/ (run'.at = "created" /\ Current.file' = g)
    BY <1>1, <1>2 DEF RunInv, EmptyIsTorn
  <2> QED
    BY <2>1 DEF EmptyIsTorn
<1>5. Served'
  BY <1>1, <1>2 DEF RunInv, Served, RoutesFile, RouteFile, Generated, Absent
<1> QED
  BY <1>3, <1>4, <1>5 DEF RunInv

LEMMA EditStep ==
    ASSUME RunInv, NEW f \in Touched, Edit(f) PROVE RunInv'
<1>1. f \in Scaffold /\ f \in File /\ f # RoutesFile /\ files[f] # Absent
  BY TouchedAssumption, NoScaffold DEF Edit, File
<1>2. /\ run' = run /\ api' = api /\ torn' = torn \ {f}
      /\ ~(run.at = "created" /\ Current.file = f)
  BY DEF Edit
<1>3. \A g \in File : files'[g] = IF g = f THEN Edited ELSE files[g]
  BY DEF Edit, RunInv, AtFile
<1>4. Current' = Current /\ RunType' = RunType /\ \A g : Later(g)' = Later(g)
  BY <1>2 DEF Current, RunType, ProperJob, Later, Pending, Running
<1>5. AtFile'
  <2>1. api' \in Api /\ DOMAIN files' = File /\ (Running' \/ Done' => RunType')
    BY <1>2, <1>4 DEF RunInv, AtFile, Edit, Running, Done
  <2>2. run.at \in {"removed", "created"} => Current.file \in File /\ run.todo # <<>>
    BY CurrentJob DEF RunInv, AtFile, Running
  <2>3. run.at = "removed" => files'[Current.file] = Absent
    BY <1>1, <1>3, <2>2 DEF RunInv, AtFile
  <2>4. run.at = "created" => files'[Current.file] = Empty
    BY <1>2, <1>3, <2>2 DEF RunInv, AtFile
  <2> QED
    BY <1>2, <1>4, <2>1, <2>2, <2>3, <2>4 DEF AtFile, Empty, Absent
<1>6. Readable'
  BY <1>2, <1>4 DEF RunInv, Readable, RoutesFile
<1>7. EmptyIsTorn'
  <2>1. \A g \in File : files'[g] = Empty => g \in torn' \/ (run'.at = "created" /\ Current.file' = g)
    BY <1>2, <1>3, <1>4 DEF RunInv, EmptyIsTorn, Empty, Edited
  <2> QED
    BY <2>1 DEF EmptyIsTorn, File, TypesFiles, TypesFile, Scaffold, RoutesFile, RouteFile, Empty
<1>8. Served'
  <2>1. Running' \/ Done' <=> Running \/ Done
    BY <1>2 DEF Running, Done
  <2>2. files'[RoutesFile] = files[RoutesFile]
    BY <1>1, <1>3, NoScaffold
  <2>3. Running \/ Done => \A kind \in {"handler", "logic"}, r \in ToSet(run.api.routes) :
          RouteFile(kind, r) \in File
    BY RouteFiles DEF RunInv, AtFile, RunType, File
  <2>4. Edited # Absent
    BY DEF Edited, Absent
  <2> QED
    BY <1>2, <1>3, <1>4, <2>1, <2>2, <2>3, <2>4
      DEF RunInv, Served, RoutesFile, RouteFile, Generated, Absent
<1> QED
  BY <1>5, <1>6, <1>7, <1>8 DEF RunInv

LEMMA DeleteFileStep ==
    ASSUME RunInv, NEW f \in Touched, DeleteFile(f) PROVE RunInv'
<1>1. run' = Idle /\ ~Running /\ api' = api /\ torn' = torn \ {f}
  BY DEF DeleteFile
<1>2. DOMAIN files' = File /\ \A g \in File : files'[g] = IF g = f THEN Absent ELSE files[g]
  BY DEF DeleteFile, RunInv, AtFile
<1>3. EmptyIsTorn'
  <2>1. \A g \in File : files'[g] = Empty => g \in torn'
    BY <1>1, <1>2 DEF RunInv, EmptyIsTorn, Running, Empty, Absent
  <2> QED
    BY <2>1 DEF EmptyIsTorn, File, TypesFiles, TypesFile, Scaffold, RoutesFile, RouteFile, Empty
<1>4. run'.at = "idle" /\ ~Running' /\ ~Done'
  BY <1>1 DEF Idle, Running, Done
<1> QED
  BY <1>1, <1>2, <1>3, <1>4 DEF RunInv, AtFile, Readable, Served, File, TypesFiles, TypesFile,
                                Scaffold, RoutesFile, RouteFile

LEMMA RunStep == ASSUME RunInv, [Next]_vars PROVE RunInv'
<1>1. CASE UNCHANGED vars
  BY <1>1, QuietStep DEF vars, RunInv, AtFile
<1>2. ASSUME NEW grouped \in BOOLEAN, NEW withTest \in WithTest, Start(grouped, withTest)
      PROVE  RunInv'
  BY <1>2, StartStep
<1>3. ASSUME NEW a \in Api, ChangeApi(a) PROVE RunInv'
  BY <1>3, QuietStep DEF ChangeApi
<1>4. ASSUME NEW f \in Touched, Edit(f) \/ DeleteFile(f) PROVE RunInv'
  BY <1>4, EditStep, DeleteFileStep
<1> QED
  BY <1>1, <1>2, <1>3, <1>4, RemoveOldStep, SkipStep, CreateStep, WriteStep, EndStep DEF Next
-----------------------------------------------------------------------------
\* Whatever happens, a run is at a file in a way that suits the file, only a
\* run that died leaves an empty file, and what a run has dealt with is served.
THEOREM RunInvariant == Spec => []RunInv
<1>1. Init => RunInv
  BY RunInit
<1>2. RunInv /\ [Next]_vars => RunInv'
  BY RunStep
<1> QED
  BY <1>1, <1>2, PTL DEF Spec

\* After a run that got through, routes.go serves exactly the routes of the
\* api file, and every route has its handler and its logic, empty only where
\* a run died.
THEOREM RunServesRoutes == Spec => []RoutesAreServed
<1>1. RunInv => RoutesAreServed
  <2> SUFFICES ASSUME RunInv, Done PROVE RoutesAreServed
    BY DEF RoutesAreServed
  <2>1. run.at # "created" /\ \A f : ~Later(f)
    BY DEF Done, Later, Running
  <2>2. files[RoutesFile] = Generated(ToSet(run.api.routes))
    BY <2>1 DEF RunInv, Served
  <2>3. ASSUME NEW r \in ToSet(run.api.routes), NEW kind \in {"handler", "logic"}
        PROVE  /\ files[RouteFile(kind, r)] # Absent
               /\ files[RouteFile(kind, r)] = Empty => RouteFile(kind, r) \in torn
    <3>1. RouteFile(kind, r) \in File
      BY RouteFiles DEF RunInv, AtFile, RunType, File
    <3> QED
      BY <2>1, <3>1 DEF RunInv, Served, EmptyIsTorn
  <2> QED
    BY <2>2, <2>3 DEF RoutesAreServed
<1> QED
  BY <1>1, RunInvariant, PTL

\* No run changes what the user wrote into a file headed "Safe to edit".
THEOREM RunKeepsEdits == Spec => EditsKept
<1> DEFINE Kept == Running => \A f \in Scaffold : files[f] = Edited => files'[f] = Edited
<1>1. RunInv /\ [Next]_vars => Kept
  <2> SUFFICES ASSUME RunInv, [Next]_vars, Running, NEW f \in Scaffold, files[f] = Edited
               PROVE  files'[f] = Edited
    OBVIOUS
  <2>1. f \in File /\ DOMAIN files = File /\ RunType
    BY DEF File, RunInv, AtFile
  <2>2. Edited # Absent /\ Edited # Empty
    BY DEF Edited, Absent, Empty
  <2>3. CASE RemoveOld
    <3>1. Current.file # f
      BY <2>1, <2>3, CurrentJob DEF RemoveOld
    <3> QED
      BY <2>1, <2>3, <3>1 DEF RemoveOld
  <2>4. CASE Create
    BY <2>1, <2>2, <2>4 DEF Create
  <2>5. CASE Write
    <3>1. Current.file # f
      BY <2>2, <2>5 DEF Write, RunInv, AtFile
    <3> QED
      BY <2>1, <2>5, <3>1 DEF Write
  <2>6. ASSUME NEW g \in Touched, Edit(g) PROVE files'[f] = Edited
    BY <2>1, <2>6 DEF Edit
  <2>7. CASE Refuse \/ Skip \/ Finish \/ Die \/ UNCHANGED vars
    BY <2>7 DEF Refuse, Skip, Finish, Die, vars
  <2> QED
    BY <2>3, <2>4, <2>5, <2>6, <2>7 DEF Next, Start, ChangeApi, DeleteFile
<1>2. RunInv /\ [Next]_vars => [Kept]_vars
  BY <1>1
<1> QED
  BY <1>2, RunInvariant, PTL DEF Spec, EditsKept

\* A run that finds a timeout or maxBytes it cannot read leaves routes.go as
\* it is.
THEOREM RunRefuses == Spec => RefusalKeepsRoutes
<1> DEFINE Left == Running /\ ~run.api.routesFit => files'[RoutesFile] = files[RoutesFile]
<1>1. RunInv /\ [Next]_vars => Left
  <2> SUFFICES ASSUME RunInv, [Next]_vars, Running, ~run.api.routesFit
               PROVE  files'[RoutesFile] = files[RoutesFile]
    OBVIOUS
  <2>1. RoutesFile \in File \ Scaffold /\ DOMAIN files = File /\ RunType
    BY NoScaffold DEF RunInv, AtFile
  <2>2. CASE RemoveOld
    BY <2>1, <2>2 DEF RemoveOld, Refuses
  <2>3. CASE Create
    <3>1. Current.file # RoutesFile
      BY <2>1, <2>3, CurrentJob DEF Create, AtCreate, RunInv, Readable, AtFile
    <3> QED
      BY <2>1, <2>3, <3>1 DEF Create
  <2>4. CASE Write
    <3>1. Current.file # RoutesFile
      BY <2>4 DEF Write, RunInv, Readable
    <3> QED
      BY <2>1, <2>4, <3>1 DEF Write
  <2>5. ASSUME NEW g \in Touched, Edit(g) PROVE files'[RoutesFile] = files[RoutesFile]
    BY <2>1, <2>5, TouchedAssumption DEF Edit
  <2>6. CASE Refuse \/ Skip \/ Finish \/ Die \/ UNCHANGED vars
    BY <2>6 DEF Refuse, Skip, Finish, Die, vars
  <2> QED
    BY <2>2, <2>3, <2>4, <2>5, <2>6 DEF Next, Start, ChangeApi, DeleteFile
<1>2. RunInv /\ [Next]_vars => [Left]_vars
  BY <1>1
<1> QED
  BY <1>2, RunInvariant, PTL DEF Spec, RefusalKeepsRoutes
-----------------------------------------------------------------------------
\* The types file of a key is still on the list of the run, or holds the types
\* of this api file for that key, or for another one whose file has its name.
Declared ==
    Running \/ Done =>
      \A k \in KeysOf(run.api, run.grouped) :
        \/ Later(TypesFile(k))
        \/ \E j \in KeysOf(run.api, run.grouped) :
             /\ TypesFile(j) = TypesFile(k)
             /\ files[TypesFile(k)] = Generated(TypesOf(run.api, j, run.grouped))

\* Keys are of those that have a file.
LEMMA KeysHaveFiles == \A a, grouped : KeysOf(a, grouped) \subseteq Key
BY DEF KeysOf, KeyOf, Key

\* Whether a run has a file before it is all that Declared asks of the state
\* but for what the file holds.
LEMMA DeclaredNext ==
    ASSUME run'.api = run.api, run'.grouped = run.grouped,
           \A k \in KeysOf(run.api, run.grouped) :
             \/ Later(TypesFile(k))'
             \/ \E j \in KeysOf(run.api, run.grouped) :
                  /\ TypesFile(j) = TypesFile(k)
                  /\ files'[TypesFile(k)] = Generated(TypesOf(run.api, j, run.grouped))
    PROVE  Declared'
<1>1. KeysOf(run.api, run.grouped)' = KeysOf(run.api, run.grouped)
  BY DEF KeysOf, KeyOf
<1>2. \A j : TypesOf(run.api, j, run.grouped)' = TypesOf(run.api, j, run.grouped)
  BY DEF TypesOf, KeyOf
<1> QED
  BY <1>1, <1>2 DEF Declared, Generated, TypesFile

\* A step that takes no types file off the list and changes none that is not on
\* it keeps what is declared.
LEMMA DeclaredStays ==
    ASSUME Declared, Running \/ Done, run'.api = run.api, run'.grouped = run.grouped,
           \A f \in TypesFiles : Later(f) => Later(f)',
           \A f \in TypesFiles : ~Later(f) => files'[f] = files[f]
    PROVE  Declared'
<1> SUFFICES ASSUME NEW k \in KeysOf(run.api, run.grouped), ~Later(TypesFile(k))'
             PROVE  \E j \in KeysOf(run.api, run.grouped) :
                      /\ TypesFile(j) = TypesFile(k)
                      /\ files'[TypesFile(k)] = Generated(TypesOf(run.api, j, run.grouped))
  BY DeclaredNext
<1>1. TypesFile(k) \in TypesFiles
  BY KeysHaveFiles DEF TypesFiles
<1>2. ~Later(TypesFile(k)) /\ files'[TypesFile(k)] = files[TypesFile(k)]
  BY <1>1
<1> QED
  BY <1>2 DEF Declared

LEMMA StartDeclares ==
    ASSUME RunInv, NEW grouped \in BOOLEAN, NEW withTest, Start(grouped, withTest)
    PROVE  Declared'
<1>1. PICK keys \in SetToSeqs(KeysOf(api, grouped)) :
        run' = [at |-> "job", api |-> api, grouped |-> grouped,
                todo |-> Plan(api, keys, grouped, withTest)]
  BY DEF Start
<1>2. \A k \in KeysOf(api, grouped) :
        Listed(Job(TypesFile(k), TypesOf(api, k, grouped), TRUE), Plan(api, keys, grouped, withTest))
  BY PlanJobs DEF RunInv, AtFile
<1>3. /\ run'.at = "job" /\ run'.api = api /\ run'.grouped = grouped
      /\ run'.todo = Plan(api, keys, grouped, withTest)
  BY <1>1
<1>4. \A x, f : Listed(x, Plan(api, keys, grouped, withTest)) /\ x.file = f => Later(f)'
  BY <1>3 DEF Later, Pending, Running, Listed
<1>5. \A k \in KeysOf(api, grouped) : Later(TypesFile(k))'
  <2> TAKE k \in KeysOf(api, grouped)
  <2>1. Job(TypesFile(k), TypesOf(api, k, grouped), TRUE).file = TypesFile(k)
    BY DEF Job
  <2> QED
    BY <1>2, <1>4, <2>1
<1>6. KeysOf(run.api, run.grouped)' = KeysOf(api, grouped)
  BY <1>3 DEF KeysOf, KeyOf
<1> QED
  BY <1>5, <1>6 DEF Declared

\* What a run is at is on its list until it has been written.
LEMMA WithinFileDeclares ==
    ASSUME RunInv, Declared, RemoveOld \/ Create PROVE Declared'
<1>1. RunType /\ run.todo # <<>> /\ Running
  BY DEF RunInv, AtFile, RemoveOld, Create, AtCreate, Running
<1>2. PICK s \in {"removed", "created"} : run' = [run EXCEPT !.at = s]
  BY DEF RemoveOld, Create
<1>3. /\ run'.at = s /\ run'.api = run.api /\ run'.grouped = run.grouped
      /\ \A g : Pending(g)' <=> Pending(g)
  BY <1>1, <1>2, MovedOn
<1>4. \A g : Later(g) => Later(g)'
  BY <1>3 DEF Later, Running
<1>5. Later(Current.file)
  BY <1>1, CurrentJob DEF Later
<1>6. \A g \in TypesFiles : ~Later(g) => files'[g] = files[g]
  <2>1. \A g \in TypesFiles : g \in File
    BY DEF File
  <2> QED
    BY <1>5, <2>1 DEF RemoveOld, Create, RunInv, AtFile
<1> QED
  BY <1>1, <1>3, <1>4, <1>6, DeclaredStays

LEMMA SkipDeclares ==
    ASSUME RunInv, Declared, Skip PROVE Declared'
<1>1. RunType /\ run.todo # <<>> /\ Running
  BY DEF RunInv, AtFile, Skip, AtCreate, Running
<1>2. Current.file \in Scaffold
  BY <1>1, CurrentJob DEF RunInv, AtFile, Skip, AtCreate
<1>3. /\ run'.at = "job" /\ run'.api = run.api /\ run'.grouped = run.grouped
      /\ \A g : Pending(g) <=> Pending(g)' \/ g = Current.file
  <2>1. run' = [run EXCEPT !.at = "job", !.todo = Tail(@)]
    BY DEF Skip
  <2> QED
    BY <1>1, <2>1, WentOn
<1>4. \A g \in TypesFiles : Later(g) => Later(g)'
  BY <1>2, <1>3, NoScaffold DEF Later, Running
<1>5. files' = files
  BY DEF Skip
<1> QED
  BY <1>1, <1>3, <1>4, <1>5, DeclaredStays

LEMMA WriteDeclares ==
    ASSUME RunInv, Declared, Write PROVE Declared'
<1> DEFINE f == Current.file
<1>1. RunType /\ run.todo # <<>> /\ Running
  BY DEF RunInv, AtFile, Write, Running
<1>2. /\ f \in File
      /\ f \in TypesFiles => \E k \in KeysOf(run.api, run.grouped) :
           f = TypesFile(k) /\ Current.text = TypesOf(run.api, k, run.grouped)
  BY <1>1, CurrentJob
<1>3. /\ run'.at = "job" /\ run'.api = run.api /\ run'.grouped = run.grouped
      /\ \A g : Pending(g) <=> Pending(g)' \/ g = f
  <2>1. run' = [run EXCEPT !.at = "job", !.todo = Tail(@)]
    BY DEF Write
  <2> QED
    BY <1>1, <2>1, WentOn
<1>4. \A g \in File : files'[g] = IF g = f THEN Generated(Current.text) ELSE files[g]
  BY DEF Write, RunInv, AtFile
<1>5. \A g : Later(g) => Later(g)' \/ g = f
  BY <1>3 DEF Later, Running
<1> SUFFICES ASSUME NEW k \in KeysOf(run.api, run.grouped), ~Later(TypesFile(k))'
             PROVE  \E j \in KeysOf(run.api, run.grouped) :
                      /\ TypesFile(j) = TypesFile(k)
                      /\ files'[TypesFile(k)] = Generated(TypesOf(run.api, j, run.grouped))
  BY <1>3, DeclaredNext
<1>6. TypesFile(k) \in TypesFiles /\ TypesFile(k) \in File
  BY KeysHaveFiles DEF TypesFiles, File
<1>7. CASE TypesFile(k) = f
  BY <1>2, <1>4, <1>6, <1>7
<1>8. CASE TypesFile(k) # f
  BY <1>1, <1>4, <1>5, <1>6, <1>8 DEF Declared
<1> QED
  BY <1>7, <1>8

\* Outside the run, types files stay as they are.
LEMMA OutsideDeclares ==
    ASSUME RunInv, Declared, NEW f \in Touched, Edit(f) PROVE Declared'
<1>1. run' = run /\ \A g : Later(g)' <=> Later(g)
  BY DEF Edit, Later, Running, Pending
<1>2. \A g \in TypesFiles : files'[g] = files[g]
  BY TouchedAssumption, NoScaffold DEF Edit, RunInv, AtFile, File
<1>3. CASE Running \/ Done
  BY <1>1, <1>2, <1>3, DeclaredStays
<1>4. CASE ~(Running \/ Done)
  BY <1>1, <1>4 DEF Declared, Running, Done
<1> QED
  BY <1>3, <1>4

LEMMA EndDeclares ==
    ASSUME RunInv, Declared, Refuse \/ Die \/ Finish PROVE Declared'
<1>1. CASE Refuse \/ Die
  BY <1>1 DEF Refuse, Die, Idle, Declared, Running, Done
<1>2. CASE Finish
  <2>1. RunType /\ Running /\ run.todo = <<>> /\ files' = files
    BY <1>2 DEF Finish, RunInv, AtFile, Running
  <2>2. run'.api = run.api /\ run'.grouped = run.grouped
    BY <1>2, <2>1, MovedOn DEF Finish
  <2>3. \A g : ~Later(g)
    BY <2>1 DEF Later, Pending
  <2> QED
    BY <2>1, <2>2, <2>3, DeclaredStays
<1> QED
  BY <1>1, <1>2

LEMMA DeclaredStep == ASSUME RunInv, Declared, [Next]_vars PROVE Declared'
<1>1. CASE UNCHANGED vars \/ \E a \in Api : ChangeApi(a)
  <2>1. run' = run /\ files' = files /\ \A g : Later(g)' <=> Later(g)
    BY <1>1 DEF vars, ChangeApi, Later, Running, Pending
  <2>2. CASE Running \/ Done
    BY <2>1, <2>2, DeclaredStays
  <2>3. CASE ~(Running \/ Done)
    BY <2>1, <2>3 DEF Declared, Running, Done
  <2> QED
    BY <2>2, <2>3
<1>2. ASSUME NEW f \in Touched, DeleteFile(f) PROVE Declared'
  BY <1>2 DEF DeleteFile, Idle, Declared, Running, Done
<1>3. ASSUME NEW f \in Touched, Edit(f) PROVE Declared'
  BY <1>3, OutsideDeclares
<1> QED
  BY <1>1, <1>2, <1>3, StartDeclares, WithinFileDeclares, SkipDeclares, WriteDeclares, EndDeclares DEF Next

\* After a run that got through, the types of each key are in its file, unless
\* two keys have files of one name, and what is declared twice stands in a file
\* that no type belongs to any more.
THEOREM RunDeclaresTypes == Spec => []TypesAreDeclared
<1>1. Init => RunInv /\ Declared
  BY RunInit DEF Init, Idle, Declared, Running, Done
<1>2. RunInv /\ Declared /\ [Next]_vars => (RunInv /\ Declared)'
  BY RunStep, DeclaredStep
<1>3. RunInv /\ Declared => TypesAreDeclared
  <2> SUFFICES ASSUME RunInv, Declared, Done PROVE TypesAreDeclared
    BY DEF TypesAreDeclared
  <2> DEFINE Keys == KeysOf(run.api, run.grouped)
             Text(j) == TypesOf(run.api, j, run.grouped)
  <2>1. \A k \in Keys : \E j \in Keys :
          TypesFile(j) = TypesFile(k) /\ files[TypesFile(k)] = Generated(Text(j))
    BY DEF Declared, Done, Later, Running
  <2>2. \A t \in run.api.types : KeyOf(run.api, t, run.grouped) \in Keys
    BY DEF KeysOf
  <2>3. ASSUME NEW t \in run.api.types
        PROVE  LET k == KeyOf(run.api, t, run.grouped)
               IN  \/ Clash(run.api, k, run.grouped)
                   \/ files[TypesFile(k)] = Generated(TypesOf(run.api, k, run.grouped))
    <3> DEFINE k == KeyOf(run.api, t, run.grouped)
    <3>1. PICK j \in Keys : TypesFile(j) = TypesFile(k) /\ files[TypesFile(k)] = Generated(Text(j))
      BY <2>1, <2>2
    <3>2. FileName[j] = FileName[k]
      BY <3>1 DEF TypesFile
    <3> QED
      BY <3>1, <3>2 DEF Clash
  <2>4. ASSUME NEW f \in TypesFiles, NEW g \in TypesFiles, f # g,
               f \in {TypesFile(k) : k \in Keys}, g \in {TypesFile(k) : k \in Keys}
        PROVE  files[f].text \cap files[g].text = {}
    <3>1. PICK i \in Keys : TypesFile(i) = f /\ files[f] = Generated(Text(i))
      BY <2>1, <2>4
    <3>2. PICK j \in Keys : TypesFile(j) = g /\ files[g] = Generated(Text(j))
      BY <2>1, <2>4
    <3>3. i # j
      BY <2>4, <3>1, <3>2
    <3>4. files[f].text = Text(i) /\ files[g].text = Text(j)
      BY <3>1, <3>2 DEF Generated
    <3> QED
      BY <3>3, <3>4 DEF TypesOf
  <2> QED
    BY <2>3, <2>4 DEF TypesAreDeclared
<1> QED
  BY <1>1, <1>2, <1>3, PTL DEF Spec
=============================================================================
