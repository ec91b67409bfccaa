-------------------------- MODULE ApiAnalyzeProofs --------------------------
(***************************************************************************)
(* What ApiImport and ApiAnalyze guarantee for every set of files, finite  *)
(* or not, every import graph, every order in which the imports are        *)
(* visited and whatever the files declare: what loading and merging keep,  *)
(* the safety part of the refinement of ApiParse, and what an accepted     *)
(* spec is like.                                                           *)
(***************************************************************************)
EXTENDS ApiAnalyze, SequenceTheorems, FiniteSetTheorems, TLAPS

(***************************************************************************)
(* Part I: loading and merging                                             *)
(***************************************************************************)
\* What a file imports are files.
LEMMA ImportsType ==
  ASSUME TypeOK, NEW p \in Path
  PROVE  Imports(p) \subseteq Path /\ disk[p].status \in Status
<1>1. disk[p] \in File
  BY DEF TypeOK
<1>2. QED
  BY <1>1 DEF File, Imports

\* While a file is being loaded the top of the stack is a file.
LEMMA TopType ==
  ASSUME TypeOK, StackChain, phase = "loading"
  PROVE  /\ importManager \in Seq(Path) /\ Len(importManager) \in Nat
         /\ Len(importManager) >= 1
         /\ Top \in Path
         /\ Top = importManager[Len(importManager)]
BY DEF TypeOK, StackChain, Top, Last

\* Opening a file that is in order keeps the shape of what it writes.
LEMMA OpenType ==
  ASSUME TypeOK, phase \in {"start", "loading"}, NEW p \in Path,
         NEW pending \in [Path -> SUBSET Path], Open(p, pending) \/ OpenFails(p)
  PROVE  /\ phase' \in Phase /\ failure' \in Failure
         /\ todo' \in [Path -> SUBSET Path]
         /\ list' \in [Path -> Seq(Path)]
         /\ content' \in [Path -> Seq(Path)]
         /\ phase' = "failed" <=> failure' # "none"
<1>1. CASE Open(p, pending)
  <2>1. failure' = "none" /\ failure = "none"
    BY <1>1 DEF Open, TypeOK, Failure
  <2>2. todo' \in [Path -> SUBSET Path]
    BY <1>1, ImportsType DEF Open
  <2>3. content' \in [Path -> Seq(Path)]
    BY <1>1 DEF Open, TypeOK
  <2>4. QED
    BY <1>1, <2>1, <2>2, <2>3 DEF Open, TypeOK, Phase, Failure
<1>2. CASE OpenFails(p)
  BY <1>2 DEF OpenFails, TypeOK, Phase, Failure
<1>3. QED
  BY <1>1, <1>2

\* The shape of the variables is kept by every step.
LEMMA TypeStep ==
  ASSUME TypeOK, StackChain, [LoadNext]_vars
  PROVE  TypeOK'
<1>1. CASE ParseRoot
  <2>1. todo \in [Path -> SUBSET Path] /\ phase \in {"start", "loading"}
    BY <1>1 DEF ParseRoot, TypeOK
  <2>2. importManager' \in Seq(Path)
    BY <1>1, RootAssumption DEF ParseRoot, TypeOK
  <2>3. QED
    BY <1>1, <2>1, <2>2, OpenType, RootAssumption DEF ParseRoot, TypeOK
<1>2. ASSUME NEW p \in Path, ImportCycle(p) PROVE TypeOK'
  BY <1>2 DEF ImportCycle, Visit, TypeOK, Phase, Failure
<1>3. ASSUME NEW p \in Path, SkipImported(p) PROVE TypeOK'
  BY <1>3 DEF SkipImported, Visit, TypeOK
<1>4. ASSUME NEW p \in Path, OpenImport(p) PROVE TypeOK'
  <2> DEFINE pending == [todo EXCEPT ![Top] = @ \ {p}]
  <2>1. pending \in [Path -> SUBSET Path] /\ phase \in {"start", "loading"}
    BY <1>4 DEF OpenImport, Visit, TypeOK
  <2>2. importManager' \in Seq(Path)
    BY <1>4 DEF OpenImport, TypeOK
  <2>3. Open(p, pending) \/ OpenFails(p)
    BY <1>4 DEF OpenImport
  <2> HIDE DEF pending
  <2>4. QED
    BY <1>4, <2>1, <2>2, <2>3, OpenType DEF OpenImport, TypeOK
<1>5. CASE MergeMismatch
  BY <1>5 DEF MergeMismatch, TypeOK, Phase, Failure
<1>6. CASE MergeNested
  <2>1. Top \in Path
    BY <1>6, TopType DEF MergeNested
  <2>2. Head(list[Top]) \in Path /\ Tail(list[Top]) \in Seq(Path)
    BY <1>6, <2>1 DEF MergeNested, TypeOK
  <2>3. content' \in [Path -> Seq(Path)] /\ list' \in [Path -> Seq(Path)]
    BY <1>6, <2>1, <2>2 DEF MergeNested, TypeOK
  <2>4. QED
    BY <1>6, <2>3 DEF MergeNested, TypeOK
<1>7. CASE ReturnNested
  <2>1. Top \in Path /\ Front(importManager) \in Seq(Path)
    BY <1>7, TopType DEF ReturnNested, Front
  <2>2. Last(Front(importManager)) \in Path
    BY <1>7, TopType DEF ReturnNested, Front, Last
  <2>3. list' \in [Path -> Seq(Path)]
    BY <1>7, <2>1, <2>2 DEF ReturnNested, TypeOK
  <2>4. QED
    BY <1>7, <2>1, <2>3 DEF ReturnNested, TypeOK
<1>8. CASE ReturnRoot
  BY <1>8 DEF ReturnRoot, TypeOK, Phase
<1>9. CASE Stop \/ UNCHANGED vars
  BY <1>9 DEF Stop, vars, TypeOK
<1>10. QED
  BY <1>1, <1>2, <1>3, <1>4, <1>5, <1>6, <1>7, <1>8, <1>9 DEF LoadNext

\* The root is reachable, and so is whatever a reachable file imports.
LEMMA ReachableClosed ==
  ASSUME TypeOK
  PROVE  /\ Root \in Reachable
         /\ \A p \in Reachable : Imports(p) \subseteq Reachable
<1>1. Root \in Reachable
  BY RootAssumption DEF Reachable
<1>2. ASSUME NEW p \in Reachable, NEW q \in Imports(p) PROVE q \in Reachable
  <2>1. p \in Path /\ q \in Path
    BY ImportsType DEF Reachable
  <2>2. ASSUME NEW S \in SUBSET Path, Root \in S, Closed(S) PROVE q \in S
    <3>1. p \in S
      BY <2>2 DEF Reachable
    <3>2. QED
      BY <2>2, <3>1 DEF Closed
  <2>3. QED
    BY <2>1, <2>2 DEF Reachable
<1>3. QED
  BY <1>1, <1>2

\* A closed set of files that holds the root holds every reachable file.
LEMMA ReachableLeast ==
  ASSUME NEW S \in SUBSET Path, Root \in S, Closed(S)
  PROVE  Reachable \subseteq S
BY DEF Reachable

\* A file all of whose imports lie in an acyclic set it is not in extends it.
LEMMA AcyclicExtends ==
  ASSUME NEW F, NEW p, Acyclic(F), Closed(F), p \notin F, Imports(p) \subseteq F
  PROVE  Acyclic(F \cup {p})
<1> SUFFICES ASSUME NEW C \in SUBSET (F \cup {p}), C # {}
             PROVE  \E q \in C : Imports(q) \cap C = {}
  BY DEF Acyclic
<1>1. CASE C \ {p} = {}
  BY <1>1
<1>2. CASE C \ {p} # {}
  <2>1. PICK q \in C \ {p} : Imports(q) \cap (C \ {p}) = {}
    BY <1>2 DEF Acyclic
  <2>2. p \notin Imports(q)
    BY <2>1 DEF Closed
  <2>3. QED
    BY <2>1, <2>2
<1>3. QED
  BY <1>1, <1>2

\* The notions of ApiImport that depend on the files alone keep their value.
LEMMA DiskFrame ==
  ASSUME disk' = disk
  PROVE  /\ \A p : Imports(p)' = Imports(p)
         /\ Reachable' = Reachable
         /\ \A S : Closed(S)' = Closed(S) /\ Acyclic(S)' = Acyclic(S)
BY DEF Imports, Reachable, Closed, Acyclic

\* A step that leaves the files, the stack and importSet alone and does not
\* reach a phase the invariant speaks of keeps the invariant.
LEMMA QuietStep ==
  ASSUME LoadInv, TypeOK', disk' = disk, importSet' = importSet,
         phase' \in {"failed", "exited", "panicked"}, failure' # "cycle"
  PROVE  LoadInv'
<1>1. OnlyReachable'
  BY DiskFrame DEF LoadInv, OnlyReachable, Loaded
<1>2. QED
  BY <1>1 DEF LoadInv, StackChain, FinishedSound, StackProgress, LoadedIsClosed,
              CycleIsReal

LEMMA ParseRootStep ==
  ASSUME LoadInv, TypeOK', ParseRoot
  PROVE  LoadInv'
<1>1. disk' = disk /\ importSet' = {} /\ importSet = {} /\ Reachable' = Reachable
  BY DiskFrame DEF ParseRoot, LoadInv
<1>2. CASE OpenFails(Root)
  BY <1>1, <1>2, QuietStep DEF OpenFails, LoadInv, TypeOK
<1>3. CASE Open(Root, todo)
  <2>1. /\ phase' = "loading" /\ importManager' = <<Root>> /\ failure' = failure
        /\ disk[Root].status = "good"
    BY <1>3 DEF ParseRoot, Open
  <2>2. StackChain'
    BY <1>1, <2>1 DEF StackChain, IsInjective
  <2>3. Finished' = {}
    BY <1>1, <2>1 DEF Finished, Loaded, OnStack
  <2>4. FinishedSound'
    BY <1>1, <2>1, <2>3 DEF FinishedSound, Loaded, Closed, Acyclic
  <2>5. StackProgress'
    <3>1. todo'[Root] = Imports(Root)'
      BY <1>1, <1>3, RootAssumption DEF Open, Imports, LoadInv, TypeOK
    <3>2. QED
      BY <2>1, <3>1 DEF StackProgress
  <2>6. OnlyReachable'
    BY <1>1, ReachableClosed DEF OnlyReachable, Loaded, LoadInv
  <2>7. failure' = "none"
    BY <2>1 DEF ParseRoot, LoadInv, TypeOK, Failure
  <2>8. QED
    BY <2>1, <2>2, <2>4, <2>5, <2>6, <2>7 DEF LoadInv, LoadedIsClosed, CycleIsReal
<1>4. QED
  BY <1>2, <1>3 DEF ParseRoot

\* The files between the two occurrences of p import each other in a circle.
LEMMA ImportCycleStep ==
  ASSUME LoadInv, TypeOK', NEW p \in Path, ImportCycle(p)
  PROVE  LoadInv'
<1>1. /\ disk' = disk /\ importSet' = importSet /\ importManager' = importManager
      /\ phase = "loading" /\ phase' = "failed" /\ Reachable' = Reachable
  BY DiskFrame DEF ImportCycle, Visit
<1>2. OnlyReachable'
  BY <1>1 DEF LoadInv, OnlyReachable, Loaded
<1>3. CycleIsReal
  BY DEF LoadInv
<1> DEFINE n == Len(importManager)
<1>4. /\ n \in Nat /\ n >= 1 /\ Top \in Path /\ Top = importManager[n]
      /\ DOMAIN importManager = 1 .. n
  BY <1>1, TopType DEF LoadInv
<1>5. PICK k \in 1 .. n : importManager[k] = p
  BY <1>4 DEF ImportCycle, OnStack
<1>6. p \in Imports(Top)
  BY <1>1, <1>4 DEF ImportCycle, Visit, LoadInv, StackProgress
<1> DEFINE C == {importManager[i] : i \in k .. n}
<1>7. C \subseteq Reachable /\ C # {}
  <2>1. ASSUME NEW i \in k .. n PROVE importManager[i] \in Reachable
    BY <1>1, <1>4, <1>5 DEF LoadInv, StackChain, OnlyReachable, Loaded
  <2>2. n \in k .. n
    BY <1>4, <1>5
  <2>3. QED
    BY <2>1, <2>2
<1>8. ASSUME NEW i \in k .. n PROVE Imports(importManager[i]) \cap C # {}
  <2>1. CASE i = n
    <3>1. p \in C
      BY <1>4, <1>5
    <3>2. QED
      BY <1>4, <1>6, <2>1, <3>1
  <2>2. CASE i # n
    <3>0. \A N \in Nat : k \in 1 .. N /\ i \in k .. N /\ i # N
            => i + 1 \in k .. N /\ i + 1 \in 1 .. N /\ i + 1 > 1 /\ (i + 1) - 1 = i
      OBVIOUS
    <3>1. i + 1 \in k .. n /\ i + 1 \in DOMAIN importManager /\ i + 1 > 1 /\ (i + 1) - 1 = i
      BY <1>4, <2>2, <3>0
    <3>2. importManager[i + 1] \in Imports(importManager[i])
      BY <1>1, <3>1 DEF LoadInv, StackChain
    <3>3. importManager[i + 1] \in C
      BY <3>1
    <3>4. QED
      BY <3>2, <3>3
  <2>3. QED
    BY <2>1, <2>2
<1>9. CycleIsReal'
  <2>1. \A q \in C : Imports(q)' \cap C # {}
    BY <1>1, <1>8, DiskFrame
  <2>2. QED
    BY <1>1, <1>7, <2>1 DEF CycleIsReal
<1>10. QED
  BY <1>1, <1>2, <1>9 DEF LoadInv, StackChain, FinishedSound, StackProgress, LoadedIsClosed

\* What the path of a step of the loop is: a file the top imports.
LEMMA VisitFacts ==
  ASSUME LoadInv, NEW p \in Path, Visit(p)
  PROVE  p \in Imports(Top) /\ p \in Reachable /\ Top \in Loaded
<1>1. /\ Len(importManager) \in DOMAIN importManager /\ Len(importManager) \in Nat
      /\ Top = importManager[Len(importManager)]
  BY TopType DEF LoadInv, Visit
<1>2. Top \in Loaded
  BY <1>1 DEF LoadInv, Visit, StackChain, Loaded
<1>3. p \in Imports(Top)
  BY <1>1 DEF LoadInv, Visit, StackProgress
<1>4. QED
  BY <1>2, <1>3, ReachableClosed DEF LoadInv, OnlyReachable

LEMMA SkipImportedStep ==
  ASSUME LoadInv, TypeOK', NEW p \in Path, SkipImported(p)
  PROVE  LoadInv'
<1>1. /\ disk' = disk /\ importSet' = importSet /\ importManager' = importManager
      /\ phase = "loading" /\ phase' = phase /\ failure' = failure
  BY DEF SkipImported, Visit
<1>2. /\ Loaded' = Loaded /\ Finished' = Finished /\ Reachable' = Reachable
  BY <1>1, DiskFrame DEF Loaded, Finished, OnStack
<1>3. StackChain' /\ FinishedSound' /\ OnlyReachable'
  <2>1. FinishedSound'
    BY <1>1, <1>2, DiskFrame DEF LoadInv, FinishedSound
  <2>2. StackChain'
    BY <1>1, DiskFrame DEF LoadInv, StackChain, IsInjective
  <2>3. QED
    BY <1>2, <2>1, <2>2 DEF LoadInv, OnlyReachable
<1>4. p \in Finished
  BY DEF SkipImported, Finished, Loaded
<1>5. StackProgress'
  <2>1. todo' = [todo EXCEPT ![Top] = @ \ {p}]
    BY DEF SkipImported
  <2>2. \A q \in Path : todo'[q] = todo[q] \/ todo'[q] = todo[q] \ {p}
    BY <2>1 DEF LoadInv, TypeOK
  <2>3. ASSUME NEW i \in DOMAIN importManager
        PROVE  importManager[i] \in Path
    BY DEF LoadInv, TypeOK
  <2>4. QED
    BY <1>1, <1>2, <1>4, <2>2, <2>3, DiskFrame DEF LoadInv, StackProgress
<1>6. QED
  BY <1>1, <1>3, <1>5 DEF LoadInv, LoadedIsClosed, CycleIsReal, TypeOK

LEMMA OpenImportStep ==
  ASSUME LoadInv, TypeOK', NEW p \in Path, OpenImport(p)
  PROVE  LoadInv'
<1> DEFINE n == Len(importManager)
<1>1. /\ disk' = disk /\ importSet' = importSet \cup {p}
      /\ importManager' = Append(importManager, p)
      /\ phase = "loading" /\ ~OnStack(p) /\ p \notin importSet /\ Visit(p)
      /\ Reachable' = Reachable
  BY DiskFrame DEF OpenImport, Visit
<1>2. /\ importManager \in Seq(Path) /\ n \in Nat /\ n >= 1 /\ Top = importManager[n]
      /\ DOMAIN importManager = 1 .. n /\ importManager[1] = Root /\ Top \in Path
      /\ IsInjective(importManager) /\ Root \notin importSet
  BY <1>1, TopType DEF LoadInv, StackChain
<1>3. /\ DOMAIN importManager' = 1 .. (n + 1) /\ Len(importManager') = n + 1
      /\ importManager'[n + 1] = p
      /\ \A i \in 1 .. n : importManager'[i] = importManager[i]
  BY <1>1, <1>2
<1> HIDE DEF n
<1>4. p # Root /\ p \notin Loaded
  BY <1>1, <1>2 DEF OnStack, Loaded
<1>5. p \in Imports(Top) /\ p \in Reachable
  BY <1>1, VisitFacts
<1>6. OnlyReachable'
  BY <1>1, <1>5 DEF LoadInv, OnlyReachable, Loaded
<1>7. CASE OpenFails(p)
  <2>1. phase' \in {"failed", "exited", "panicked"} /\ failure' # "cycle"
    BY <1>1, <1>7 DEF OpenFails, LoadInv, TypeOK
  <2>2. QED
    BY <1>6, <2>1 DEF LoadInv, StackChain, FinishedSound, StackProgress,
                      LoadedIsClosed, CycleIsReal
<1>8. CASE Open(p, [todo EXCEPT ![Top] = @ \ {p}])
  <2>1. phase' = "loading" /\ failure' = failure /\ disk[p].status = "good"
    BY <1>8 DEF Open
  <2>2. StackChain'
    <3>1. IsInjective(importManager')
      <4>1. \A i \in 1 .. n : importManager[i] # p
        BY <1>1, <1>2 DEF OnStack
      <4>2. \A i \in 1 .. (n + 1) : i \in 1 .. n \/ i = n + 1
        BY <1>2
      <4>3. QED
        BY <1>2, <1>3, <4>1, <4>2 DEF IsInjective
    <3>2. ASSUME NEW i \in DOMAIN importManager', i > 1
          PROVE  /\ importManager'[i] \in Imports(importManager'[i - 1])
                 /\ importManager'[i] \in importSet'
      <4>1. CASE i = n + 1
        <5>1. importManager'[i - 1] = Top
          BY <1>2, <1>3, <4>1
        <5>2. QED
          BY <1>1, <1>3, <1>5, <4>1, <5>1
      <4>2. CASE i # n + 1
        <5>1. i \in 1 .. n /\ i - 1 \in 1 .. n
          BY <1>2, <1>3, <3>2, <4>2
        <5>2. importManager[i] \in Imports(importManager[i - 1]) /\ importManager[i] \in importSet
          BY <1>1, <1>2, <3>2, <5>1 DEF LoadInv, StackChain
        <5>3. QED
          BY <1>1, <1>3, <5>1, <5>2
      <4>3. QED
        BY <4>1, <4>2
    <3>3. importManager' # << >> /\ importManager'[1] = Root /\ Root \notin importSet'
      BY <1>1, <1>2, <1>3, <1>4
    <3>4. QED
      BY <1>1, <3>1, <3>2, <3>3 DEF StackChain, Imports
  <2>3. Finished' = Finished
    <3>1. \A q : OnStack(q)' <=> (OnStack(q) \/ q = p)
      <4>1. \A i \in 1 .. (n + 1) : i \in 1 .. n \/ i = n + 1
        BY <1>2
      <4>2. n + 1 \in 1 .. (n + 1) /\ \A i \in 1 .. n : i \in 1 .. (n + 1)
        BY <1>2
      <4>3. QED
        BY <1>2, <1>3, <4>1, <4>2 DEF OnStack
    <3>2. Loaded' = Loaded \cup {p}
      BY <1>1 DEF Loaded
    <3>3. QED
      BY <1>4, <3>1, <3>2 DEF Finished
  <2>4. FinishedSound'
    BY <1>1, <2>1, <2>3, DiskFrame DEF LoadInv, FinishedSound, Loaded
  <2>5. StackProgress'
    <3> SUFFICES ASSUME NEW i \in DOMAIN importManager'
                 PROVE  /\ todo'[importManager'[i]] \subseteq Imports(importManager'[i])
                        /\ \A q \in Imports(importManager'[i]) \ todo'[importManager'[i]] :
                              \/ q \in Finished
                              \/ i < n + 1 /\ q = importManager'[i + 1]
      BY <1>3, <2>3, DiskFrame, <1>1 DEF StackProgress
    <3>1. CASE i = n + 1
      BY <1>3, <1>8, <3>1 DEF Open, LoadInv, TypeOK
    <3>2. CASE i # n + 1
      <4>1. i \in 1 .. n /\ i < n + 1 /\ i + 1 \in 1 .. (n + 1)
        BY <1>2, <1>3, <3>2
      <4>2. importManager'[i] = importManager[i] /\ importManager[i] \in Path
        BY <1>2, <1>3, <4>1
      <4>3. importManager[i] # p
        BY <1>1, <1>2, <4>1 DEF OnStack
      <4>4. /\ todo[importManager[i]] \subseteq Imports(importManager[i])
            /\ \A q \in Imports(importManager[i]) \ todo[importManager[i]] :
                  q \in Finished \/ (i < n /\ q = importManager[i + 1])
        BY <1>1, <1>2, <4>1 DEF LoadInv, StackProgress, n
      <4>5. CASE i = n
        <5>1. todo'[Top] = todo[Top] \ {p}
          BY <1>2, <1>8, <4>2, <4>3, <4>5 DEF Open, LoadInv, TypeOK
        <5>2. QED
          BY <1>2, <1>3, <4>1, <4>2, <4>4, <4>5, <5>1
      <4>6. CASE i # n
        <5>1. importManager[i] # Top
          BY <1>2, <4>1, <4>6 DEF IsInjective
        <5>2. todo'[importManager[i]] = todo[importManager[i]]
          BY <1>8, <4>2, <4>3, <5>1 DEF Open, LoadInv, TypeOK
        <5>3. importManager'[i + 1] = importManager[i + 1]
          BY <1>2, <1>3, <4>1, <4>6
        <5>4. QED
          BY <4>1, <4>2, <4>4, <5>2, <5>3
      <4>7. QED
        BY <4>5, <4>6
    <3>3. QED
      BY <3>1, <3>2
  <2>6. QED
    BY <1>6, <1>1, <2>1, <2>2, <2>4, <2>5 DEF LoadInv, LoadedIsClosed, CycleIsReal, TypeOK
<1>9. QED
  BY <1>7, <1>8 DEF OpenImport

LEMMA MergeNestedStep ==
  ASSUME LoadInv, TypeOK', MergeNested
  PROVE  LoadInv'
<1>1. /\ disk' = disk /\ importSet' = importSet /\ importManager' = importManager
      /\ phase' = phase /\ failure' = failure /\ todo' = todo /\ phase = "loading"
  BY DEF MergeNested
<1>2. /\ Loaded' = Loaded /\ Finished' = Finished /\ Reachable' = Reachable
  BY <1>1, DiskFrame DEF Loaded, Finished, OnStack
<1>3. StackChain' /\ StackProgress'
  BY <1>1, <1>2, DiskFrame DEF LoadInv, StackChain, StackProgress, IsInjective
<1>4. FinishedSound'
  BY <1>1, <1>2, DiskFrame DEF LoadInv, FinishedSound
<1>5. QED
  BY <1>1, <1>2, <1>3, <1>4 DEF LoadInv, OnlyReachable, LoadedIsClosed, CycleIsReal, TypeOK

\* The file that leaves the stack has nothing but finished imports, so it
\* closes no cycle.
LEMMA TopFinishes ==
  ASSUME LoadInv, phase = "loading", todo[Top] = {}
  PROVE  /\ Top \in Loaded /\ Top \notin Finished /\ Imports(Top) \subseteq Finished
         /\ Closed(Finished \cup {Top}) /\ Acyclic(Finished \cup {Top})
<1>1. /\ Len(importManager) \in DOMAIN importManager /\ Len(importManager) \in Nat
      /\ Top = importManager[Len(importManager)]
  BY TopType DEF LoadInv
<1>2. Top \in Loaded /\ Top \notin Finished
  BY <1>1 DEF LoadInv, StackChain, Loaded, Finished, OnStack
<1>3. Imports(Top) \subseteq Finished
  BY <1>1 DEF LoadInv, StackProgress
<1>4. Closed(Finished) /\ Acyclic(Finished)
  BY DEF LoadInv, FinishedSound
<1>5. Closed(Finished \cup {Top})
  BY <1>3, <1>4 DEF Closed
<1>6. QED
  BY <1>2, <1>3, <1>4, <1>5, AcyclicExtends

LEMMA ReturnNestedStep ==
  ASSUME LoadInv, TypeOK', ReturnNested
  PROVE  LoadInv'
<1> DEFINE n == Len(importManager)
<1>1. /\ disk' = disk /\ importSet' = importSet /\ importManager' = Front(importManager)
      /\ phase = "loading" /\ phase' = phase /\ failure' = failure /\ todo' = todo
      /\ Reachable' = Reachable /\ Loaded' = Loaded /\ n > 1 /\ todo[Top] = {}
  BY DiskFrame DEF ReturnNested, Loaded
<1>2. /\ importManager \in Seq(Path) /\ n \in Nat /\ Top = importManager[n]
      /\ DOMAIN importManager = 1 .. n /\ importManager[1] = Root
      /\ IsInjective(importManager) /\ Root \notin importSet
  BY <1>1, TopType DEF LoadInv, StackChain
<1>3. /\ DOMAIN importManager' = 1 .. (n - 1) /\ Len(importManager') = n - 1
      /\ \A i \in 1 .. (n - 1) : importManager'[i] = importManager[i]
  BY <1>1, <1>2 DEF Front
<1> HIDE DEF n
<1>4. \A i \in 1 .. (n - 1) : i \in 1 .. n /\ i < n /\ (i > 1 => i - 1 \in 1 .. (n - 1))
  BY <1>2
<1>5. StackChain'
  <2>1. importManager' # << >> /\ importManager'[1] = Root
    BY <1>1, <1>2, <1>3
  <2>2. IsInjective(importManager')
    BY <1>2, <1>3, <1>4 DEF IsInjective
  <2>3. ASSUME NEW i \in 1 .. (n - 1), i > 1
        PROVE  importManager'[i] \in Imports(importManager'[i - 1]) /\ importManager'[i] \in importSet
    BY <1>1, <1>2, <1>3, <1>4, <2>3 DEF LoadInv, StackChain
  <2>4. QED
    BY <1>1, <1>2, <1>3, <2>1, <2>2, <2>3 DEF StackChain, Imports
<1>6. Finished' = Finished \cup {Top}
  <2>1. \A q : OnStack(q)' <=> (OnStack(q) /\ q # Top)
    <3>1. \A i \in 1 .. n : i \in 1 .. (n - 1) \/ i = n
      BY <1>2
    <3>2. n \in 1 .. n /\ \A i \in 1 .. (n - 1) : i # n
      BY <1>1, <1>2
    <3>3. QED
      BY <1>2, <1>3, <1>4, <3>1, <3>2 DEF OnStack, IsInjective
  <2>2. QED
    BY <1>1, <2>1, TopFinishes DEF Finished
<1>7. FinishedSound'
  <2>1. \A p \in Loaded : disk[p].status = "good"
    BY <1>1 DEF LoadInv, FinishedSound
  <2>2. QED
    BY <1>1, <1>6, <2>1, TopFinishes, DiskFrame DEF FinishedSound
<1>8. StackProgress'
  <2> SUFFICES ASSUME NEW i \in 1 .. (n - 1)
               PROVE  /\ todo[importManager[i]] \subseteq Imports(importManager[i])
                      /\ \A q \in Imports(importManager[i]) \ todo[importManager[i]] :
                            \/ q \in Finished \cup {Top}
                            \/ i < n - 1 /\ q = importManager'[i + 1]
    BY <1>1, <1>3, <1>6 DEF StackProgress, Imports
  <2>1. /\ todo[importManager[i]] \subseteq Imports(importManager[i])
        /\ \A q \in Imports(importManager[i]) \ todo[importManager[i]] :
              q \in Finished \/ (i < n /\ q = importManager[i + 1])
    BY <1>1, <1>2, <1>4 DEF LoadInv, StackProgress, n
  <2>2. CASE i = n - 1
    BY <1>2, <2>1, <2>2
  <2>3. CASE i # n - 1
    <3>1. i + 1 \in 1 .. (n - 1) /\ i < n - 1
      BY <1>2, <2>3
    <3>2. QED
      BY <1>3, <2>1, <3>1
  <2>4. QED
    BY <2>2, <2>3
<1>9. QED
  BY <1>1, <1>5, <1>7, <1>8 DEF LoadInv, OnlyReachable, LoadedIsClosed, CycleIsReal, TypeOK

LEMMA ReturnRootStep ==
  ASSUME LoadInv, TypeOK', ReturnRoot
  PROVE  LoadInv'
<1>1. /\ disk' = disk /\ importSet' = importSet /\ phase' = "loaded" /\ phase = "loading"
      /\ failure' = failure /\ Reachable' = Reachable /\ Loaded' = Loaded /\ todo[Top] = {}
  BY DiskFrame DEF ReturnRoot, Loaded
<1>2. Finished \cup {Top} = Loaded
  <2>1. Top = Root /\ \A q : OnStack(q) <=> q = Root
    BY <1>1, TopType DEF ReturnRoot, LoadInv, StackChain, OnStack
  <2>2. QED
    BY <2>1 DEF Finished, Loaded
<1>3. Loaded = Reachable
  <2>1. Loaded \subseteq Path /\ Root \in Loaded
    BY RootAssumption DEF LoadInv, TypeOK, Loaded
  <2>2. Closed(Loaded)
    BY <1>1, <1>2, TopFinishes
  <2>3. QED
    BY <2>1, <2>2, ReachableLeast DEF LoadInv, OnlyReachable
<1>4. Acyclic(Loaded) /\ \A p \in Loaded : disk[p].status = "good"
  BY <1>1, <1>2, TopFinishes DEF LoadInv, FinishedSound
<1>5. LoadedIsClosed'
  BY <1>1, <1>3, <1>4, DiskFrame DEF LoadedIsClosed
<1>6. failure # "cycle"
  BY <1>1 DEF LoadInv, TypeOK
<1>7. QED
  BY <1>1, <1>5, <1>6 DEF LoadInv, StackChain, FinishedSound, StackProgress, OnlyReachable,
                          CycleIsReal

----------------------------------------------------------------------------
LEMMA LoadInvInit == Init => LoadInv
<1> SUFFICES ASSUME Init PROVE LoadInv
  OBVIOUS
<1>1. TypeOK
  BY DiskAssumption DEF Init, TypeOK, Phase, Failure
<1>2. OnlyReachable
  BY <1>1, ReachableClosed DEF Init, OnlyReachable, Loaded
<1>3. QED
  BY <1>1, <1>2 DEF Init, LoadInv, StackChain, FinishedSound, StackProgress,
                    LoadedIsClosed, CycleIsReal

LEMMA LoadInvStep == LoadInv /\ [LoadNext]_vars => LoadInv'
<1> SUFFICES ASSUME LoadInv, [LoadNext]_vars PROVE LoadInv'
  OBVIOUS
<1>1. TypeOK'
  BY TypeStep DEF LoadInv
<1>2. CASE ParseRoot
  BY <1>1, <1>2, ParseRootStep
<1>3. CASE \E p \in Path : ImportCycle(p) \/ SkipImported(p) \/ OpenImport(p)
  BY <1>1, <1>3, ImportCycleStep, SkipImportedStep, OpenImportStep
<1>4. CASE MergeMismatch
  BY <1>1, <1>4, QuietStep DEF MergeMismatch
<1>5. CASE MergeNested \/ ReturnNested \/ ReturnRoot
  BY <1>1, <1>5, MergeNestedStep, ReturnNestedStep, ReturnRootStep
<1>6. CASE Stop \/ UNCHANGED vars
  <2>1. /\ disk' = disk /\ phase' = phase /\ failure' = failure /\ todo' = todo
        /\ importManager' = importManager /\ importSet' = importSet
        /\ Reachable' = Reachable /\ Loaded' = Loaded /\ Finished' = Finished
    BY <1>6, DiskFrame DEF Stop, vars, Loaded, Finished, OnStack
  <2>2. StackChain' /\ StackProgress'
    BY <2>1, DiskFrame DEF LoadInv, StackChain, StackProgress, IsInjective
  <2>3. FinishedSound' /\ LoadedIsClosed'
    BY <2>1, DiskFrame DEF LoadInv, FinishedSound, LoadedIsClosed
  <2>4. CycleIsReal'
    BY <2>1, DiskFrame DEF LoadInv, CycleIsReal
  <2>5. QED
    BY <1>1, <2>1, <2>2, <2>3, <2>4 DEF LoadInv, OnlyReachable
<1>7. QED
  BY <1>2, <1>3, <1>4, <1>5, <1>6 DEF LoadNext

\* The inductive invariant of loading holds in every state.
THEOREM LoadInvariant == LoadSpec => []LoadInv
BY LoadInvInit, LoadInvStep, PTL DEF LoadSpec

\* Every variable of the loader keeps its shape, and an error is recorded
\* exactly when Parse failed.
THEOREM LoadTypes == LoadSpec => []TypeOK
<1>1. LoadInv => TypeOK
  BY DEF LoadInv
<1>2. QED
  BY <1>1, LoadInvariant, PTL

\* When SelfCheck gets past parseReverse, exactly the files the root reaches
\* were loaded, all of them in order, and no import cycle is among them: the
\* stack check of parseImportedAPI misses no cycle although files found in
\* importSet are skipped.
THEOREM LoadSuccess == LoadSpec => []LoadedIsClosed
<1>1. LoadInv => LoadedIsClosed
  BY DEF LoadInv
<1>2. QED
  BY <1>1, LoadInvariant, PTL

\* "import cycle not allowed" is only ever reported for files that import each
\* other in a circle.
THEOREM CycleErrorsAreReal == LoadSpec => []CycleIsReal
<1>1. LoadInv => CycleIsReal
  BY DEF LoadInv
<1>2. QED
  BY <1>1, LoadInvariant, PTL

----------------------------------------------------------------------------
\* The API values that are still to be merged into another, or are the root's:
\* those of the files on the stack, and those in their lists.
Pending == {p \in Path : OnStack(p) \/ \E q \in Path : p \in ToSet(list[q])}

\* A finished file is in one list, once, and only calls in progress have one.
ListsApart ==
  /\ \A q \in Path : /\ list[q] # << >> => OnStack(q)
                     /\ IsInjective(list[q]) /\ ToSet(list[q]) \subseteq Finished
  /\ \A q, r \in Path : q # r => ToSet(list[q]) \cap ToSet(list[r]) = {}

\* Every loaded file's statements are in one of these values, and once.
ContentsApart ==
  /\ \A p \in Pending : IsInjective(content[p])
  /\ \A p, q \in Pending : p # q => ToSet(content[p]) \cap ToSet(content[q]) = {}
  /\ UNION {ToSet(content[p]) : p \in Pending} = Loaded

\* mergeAPI has compared the syntax of whatever a value holds.
SyntaxKept ==
  \A p \in Pending : \A f \in ToSet(content[p]) : disk[f].syntax = disk[p].syntax

\* The root's value when loading is over.
RootWhole ==
  /\ IsInjective(content[Root]) /\ ToSet(content[Root]) = Loaded
  /\ \A f \in Loaded : disk[f].syntax = disk[Root].syntax

\* Where Parse stops without a result, the files are at fault.
FailuresJustified == phase \in {"failed", "exited", "panicked"} => ~Loadable

\* The invariant of merging; what merging does rests on that of loading.
MergeInv ==
  /\ LoadInv
  /\ phase = "start" => \A p \in Path : list[p] = << >>
  /\ phase = "loading" => ListsApart /\ ContentsApart /\ SyntaxKept
  /\ phase = "loaded" => RootWhole
  /\ FailuresJustified

\* The elements of a sequence joined to another, and of one without its head.
LEMMA JoinedElements ==
  ASSUME NEW S, NEW s \in Seq(S), NEW t \in Seq(S), IsInjective(s), IsInjective(t),
         ToSet(s) \cap ToSet(t) = {}
  PROVE  IsInjective(s \o t) /\ ToSet(s \o t) = ToSet(s) \cup ToSet(t)
<1>1. /\ Len(s) \in Nat /\ Len(t) \in Nat /\ DOMAIN s = 1 .. Len(s) /\ DOMAIN t = 1 .. Len(t)
      /\ DOMAIN (s \o t) = 1 .. Len(s) + Len(t)
      /\ \A i \in 1 .. Len(s) : (s \o t)[i] = s[i]
      /\ \A i \in 1 .. Len(t) : (s \o t)[Len(s) + i] = t[i]
  BY ConcatProperties, LenProperties
<1>2. \A i \in DOMAIN s : s[i] \in ToSet(s) /\ i \in DOMAIN (s \o t)
  BY <1>1 DEF ToSet
<1>3. \A j \in DOMAIN t : t[j] \in ToSet(t) /\ Len(s) + j \in DOMAIN (s \o t)
  BY <1>1 DEF ToSet
<1>4. \A i \in DOMAIN (s \o t) : i \in DOMAIN s \/ \E j \in DOMAIN t : i = Len(s) + j
  <2>1. ASSUME NEW i \in DOMAIN (s \o t), i \notin DOMAIN s
        PROVE  i - Len(s) \in DOMAIN t /\ i = Len(s) + (i - Len(s))
    BY <1>1, <2>1
  <2>2. QED
    BY <2>1
<1>5. \A i \in DOMAIN s : (s \o t)[i] = s[i]
  BY <1>1
<1>6. \A j \in DOMAIN t : (s \o t)[Len(s) + j] = t[j]
  BY <1>1
<1>7. ToSet(s \o t) = ToSet(s) \cup ToSet(t)
  <2>1. ASSUME NEW i \in DOMAIN (s \o t) PROVE (s \o t)[i] \in ToSet(s) \cup ToSet(t)
    BY <1>2, <1>3, <1>4, <1>5, <1>6
  <2>2. \A i \in DOMAIN s : s[i] \in ToSet(s \o t)
    BY <1>2, <1>5 DEF ToSet
  <2>3. \A j \in DOMAIN t : t[j] \in ToSet(s \o t)
    BY <1>3, <1>6 DEF ToSet
  <2>4. QED
    BY <2>1, <2>2, <2>3 DEF ToSet
<1>8. ASSUME NEW i \in DOMAIN (s \o t), NEW j \in DOMAIN (s \o t), (s \o t)[i] = (s \o t)[j]
      PROVE  i = j
  <2>1. CASE i \in DOMAIN s /\ j \in DOMAIN s
    BY <1>5, <1>8, <2>1 DEF IsInjective
  <2>2. CASE i \in DOMAIN s /\ j \notin DOMAIN s
    BY <1>2, <1>3, <1>4, <1>5, <1>6, <1>8, <2>2
  <2>3. CASE i \notin DOMAIN s /\ j \in DOMAIN s
    BY <1>2, <1>3, <1>4, <1>5, <1>6, <1>8, <2>3
  <2>4. CASE i \notin DOMAIN s /\ j \notin DOMAIN s
    BY <1>4, <1>6, <1>8, <2>4 DEF IsInjective
  <2>5. QED
    BY <2>1, <2>2, <2>3, <2>4
<1>9. QED
  BY <1>7, <1>8 DEF IsInjective

LEMMA TailElements ==
  ASSUME NEW S, NEW s \in Seq(S), s # << >>, IsInjective(s)
  PROVE  /\ IsInjective(Tail(s)) /\ Head(s) \in ToSet(s)
         /\ ToSet(Tail(s)) = ToSet(s) \ {Head(s)}
<1>1. /\ Len(s) \in Nat \ {0} /\ DOMAIN s = 1 .. Len(s) /\ Head(s) = s[1]
      /\ DOMAIN Tail(s) = 1 .. Len(s) - 1
      /\ \A i \in 1 .. Len(s) - 1 : Tail(s)[i] = s[i + 1]
  BY HeadTailProperties, LenProperties, EmptySeq
<1>2. 1 \in DOMAIN s /\ \A i \in DOMAIN Tail(s) : i + 1 \in DOMAIN s /\ i + 1 # 1 /\ Tail(s)[i] = s[i + 1]
  BY <1>1
<1>3. \A i \in DOMAIN s : i = 1 \/ (i - 1 \in DOMAIN Tail(s) /\ Tail(s)[i - 1] = s[i])
  BY <1>1
<1>4. IsInjective(Tail(s))
  <2>1. \A i, j \in DOMAIN Tail(s) : Tail(s)[i] = Tail(s)[j] => i + 1 = j + 1
    BY <1>2 DEF IsInjective
  <2>2. \A i, j \in DOMAIN Tail(s) : i + 1 = j + 1 => i = j
    BY <1>1
  <2>3. QED
    BY <2>1, <2>2 DEF IsInjective
<1>5. ToSet(Tail(s)) \subseteq ToSet(s) \ {Head(s)}
  <2>1. \A i \in DOMAIN Tail(s) : Tail(s)[i] \in ToSet(s)
    BY <1>2 DEF ToSet
  <2>2. \A i \in DOMAIN Tail(s) : Tail(s)[i] # s[1]
    BY <1>2 DEF IsInjective
  <2>3. QED
    BY <1>1, <2>1, <2>2 DEF ToSet
<1>6. ToSet(s) \ {Head(s)} \subseteq ToSet(Tail(s))
  <2>1. \A i \in DOMAIN Tail(s) : Tail(s)[i] \in ToSet(Tail(s))
    BY DEF ToSet
  <2>2. \A i \in DOMAIN s : s[i] = Head(s) \/ s[i] \in ToSet(Tail(s))
    BY <1>1, <1>3, <2>1
  <2>3. QED
    BY <2>2 DEF ToSet
<1>7. QED
  BY <1>1, <1>2, <1>4, <1>5, <1>6 DEF ToSet

\* A sequence without repetition is as long as the set of its elements is large.
LEMMA InjectiveLength ==
  ASSUME NEW S, NEW s \in Seq(S), IsInjective(s)
  PROVE  Len(s) = Cardinality(ToSet(s))
<1>1. Len(s) \in Nat /\ DOMAIN s = 1 .. Len(s) /\ s = [i \in 1 .. Len(s) |-> s[i]]
  BY LenProperties
<1>2. s \in Bijection(1 .. Len(s), ToSet(s))
  BY <1>1 DEF IsInjective, ToSet, Bijection, Injection, Surjection
<1>3. ExistsBijection(1 .. Len(s), ToSet(s))
  BY <1>2 DEF ExistsBijection
<1>4. QED
  BY <1>1, <1>3, FS_CountingElements

\* What is pending has been opened.
LEMMA PendingLoaded ==
  ASSUME LoadInv, phase = "loading", ListsApart
  PROVE  /\ Pending \subseteq Loaded /\ Loaded \subseteq Path
         /\ \A q : OnStack(q) => q \in Loaded /\ q \notin Finished
         /\ Finished \subseteq Loaded /\ OnStack(Top) /\ Top \in Path
         /\ list \in [Path -> Seq(Path)] /\ content \in [Path -> Seq(Path)]
<1>1. \A q : OnStack(q) => q \in Loaded /\ q \notin Finished
  <2>1. \A i \in DOMAIN importManager : i = 1 \/ i > 1
    BY DEF LoadInv, TypeOK
  <2>2. QED
    BY <2>1 DEF LoadInv, StackChain, Loaded, Finished, OnStack
<1>2. Finished \subseteq Loaded
  BY DEF Finished
<1>3. OnStack(Top) /\ Top \in Path
  BY TopType DEF LoadInv, OnStack
<1>4. Pending \subseteq Loaded
  BY <1>1, <1>2 DEF Pending, ListsApart
<1>5. QED
  BY <1>1, <1>2, <1>3, <1>4, RootAssumption DEF LoadInv, TypeOK, Loaded

LEMMA MergeParseRoot ==
  ASSUME MergeInv, LoadInv', ParseRoot
  PROVE  MergeInv'
<1>1. /\ disk' = disk /\ importSet' = {} /\ phase = "start" /\ Reachable' = Reachable
      /\ Loadable' = Loadable
  BY DiskFrame DEF ParseRoot, MergeInv, LoadInv, Loadable
<1>2. CASE OpenFails(Root)
  <2>1. phase' \in {"failed", "exited", "panicked"} /\ disk[Root].status # "good"
    BY <1>2 DEF OpenFails
  <2>2. ~Loadable
    BY <2>1, ReachableClosed DEF Loadable, MergeInv, LoadInv
  <2>3. QED
    BY <1>1, <2>1, <2>2 DEF MergeInv, FailuresJustified
<1>3. CASE Open(Root, todo)
  <2>1. /\ phase' = "loading" /\ importManager' = <<Root>> /\ list' = list
        /\ \A p \in Path : list[p] = << >>
        /\ content'[Root] = <<Root>>
    BY <1>3, RootAssumption DEF ParseRoot, Open, MergeInv, LoadInv, TypeOK
  <2>2. \A q : OnStack(q)' <=> q = Root
    BY <2>1 DEF OnStack
  <2>3. ToSet(<< >>) = {} /\ IsInjective(<< >>)
    BY DEF ToSet, IsInjective
  <2>4. Pending' = {Root}
    BY <2>1, <2>2, <2>3, RootAssumption DEF Pending
  <2>5. Loaded' = {Root}
    BY <1>1 DEF Loaded
  <2>6. ToSet(<<Root>>) = {Root} /\ IsInjective(<<Root>>)
    BY DEF ToSet, IsInjective
  <2>7. ListsApart'
    BY <2>1, <2>3 DEF ListsApart
  <2>8. ContentsApart'
    BY <2>1, <2>4, <2>5, <2>6 DEF ContentsApart
  <2>9. SyntaxKept'
    BY <2>1, <2>4, <2>6 DEF SyntaxKept
  <2>10. QED
    BY <2>1, <2>7, <2>8, <2>9 DEF MergeInv, FailuresJustified
<1>4. QED
  BY <1>2, <1>3 DEF ParseRoot

LEMMA MergeOpenImport ==
  ASSUME MergeInv, LoadInv', NEW p \in Path, OpenImport(p)
  PROVE  MergeInv'
<1>1. /\ disk' = disk /\ importSet' = importSet \cup {p}
      /\ importManager' = Append(importManager, p) /\ importManager \in Seq(Path)
      /\ phase = "loading" /\ ~OnStack(p) /\ p \notin importSet /\ Visit(p)
      /\ Loadable' = Loadable
  BY DiskFrame DEF OpenImport, Visit, Loadable, MergeInv, LoadInv, TypeOK
<1>2. ListsApart /\ ContentsApart /\ SyntaxKept /\ LoadInv
  BY <1>1 DEF MergeInv
<1>3. p \notin Loaded
  BY <1>1, TopType DEF Loaded, LoadInv, MergeInv, StackChain, OnStack
<1>4. CASE OpenFails(p)
  <2>1. phase' \in {"failed", "exited", "panicked"} /\ disk[p].status # "good"
    BY <1>4 DEF OpenFails
  <2>2. p \in Reachable
    BY <1>1, <1>2, VisitFacts
  <2>3. QED
    BY <1>1, <2>1, <2>2 DEF MergeInv, FailuresJustified, Loadable
<1>5. CASE Open(p, [todo EXCEPT ![Top] = @ \ {p}])
  <2>1. /\ phase' = "loading" /\ list' = list /\ content'[p] = <<p>>
        /\ \A q \in Path \ {p} : content'[q] = content[q]
    BY <1>2, <1>5 DEF Open, LoadInv, TypeOK
  <2>2. \A q : OnStack(q)' <=> OnStack(q) \/ q = p
    <3>1. /\ Len(importManager) \in Nat
          /\ DOMAIN importManager = 1 .. Len(importManager)
          /\ DOMAIN importManager' = 1 .. (Len(importManager) + 1)
          /\ importManager'[Len(importManager) + 1] = p
          /\ \A i \in 1 .. Len(importManager) : importManager'[i] = importManager[i]
      BY <1>1
    <3>2. \A i \in DOMAIN importManager' : i \in DOMAIN importManager \/ i = Len(importManager) + 1
      BY <3>1
    <3>3. /\ Len(importManager) + 1 \in DOMAIN importManager'
          /\ \A i \in DOMAIN importManager : i \in DOMAIN importManager'
      BY <3>1
    <3>4. QED
      BY <3>1, <3>2, <3>3 DEF OnStack
  <2>3. Pending' = Pending \cup {p}
    BY <2>1, <2>2 DEF Pending
  <2>4. Loaded' = Loaded \cup {p}
    BY <1>1 DEF Loaded
  <2>5. Finished' = Finished
    BY <1>3, <2>2, <2>4 DEF Finished
  <2>6. ToSet(<<p>>) = {p} /\ IsInjective(<<p>>)
    BY DEF ToSet, IsInjective
  <2>7. \A q \in Pending : /\ q \in Path /\ q # p /\ content'[q] = content[q]
                           /\ ToSet(content[q]) \subseteq Loaded
    BY <1>1, <1>2, <1>3, <2>1, PendingLoaded DEF ContentsApart
  <2>8. ListsApart'
    BY <1>2, <2>1, <2>2, <2>5 DEF ListsApart
  <2>9. ContentsApart'
    <3>1. \A q, r \in Pending' : q # r => ToSet(content'[q]) \cap ToSet(content'[r]) = {}
      BY <1>2, <1>3, <2>1, <2>3, <2>6, <2>7 DEF ContentsApart
    <3>2. UNION {ToSet(content'[q]) : q \in Pending'} = Loaded'
      BY <1>2, <2>1, <2>3, <2>4, <2>6, <2>7 DEF ContentsApart
    <3>3. \A q \in Pending' : IsInjective(content'[q])
      BY <1>2, <2>1, <2>3, <2>6, <2>7 DEF ContentsApart
    <3>4. QED
      BY <3>1, <3>2, <3>3 DEF ContentsApart
  <2>10. SyntaxKept'
    BY <1>1, <1>2, <2>1, <2>3, <2>6, <2>7 DEF SyntaxKept
  <2>11. QED
    BY <2>1, <2>8, <2>9, <2>10 DEF MergeInv, FailuresJustified
<1>6. QED
  BY <1>4, <1>5 DEF OpenImport

LEMMA MergeMergeNested ==
  ASSUME MergeInv, LoadInv', MergeNested
  PROVE  MergeInv'
<1> DEFINE h == Head(list[Top])
<1>1. /\ disk' = disk /\ importSet' = importSet /\ importManager' = importManager
      /\ phase = "loading" /\ phase' = "loading" /\ list[Top] # << >>
      /\ disk[h].syntax = disk[Top].syntax
      /\ content' = [content EXCEPT ![Top] = @ \o content[h]]
      /\ list' = [list EXCEPT ![Top] = Tail(@)]
  BY DEF MergeNested
<1>2. ListsApart /\ ContentsApart /\ SyntaxKept /\ LoadInv
  BY <1>1 DEF MergeInv
<1>3. /\ OnStack(Top) /\ Top \in Path /\ Top \notin Finished
      /\ list \in [Path -> Seq(Path)] /\ content \in [Path -> Seq(Path)]
      /\ Pending \subseteq Path
  BY <1>1, <1>2, PendingLoaded
<1>4. /\ IsInjective(list[Top]) /\ IsInjective(Tail(list[Top]))
      /\ h \in ToSet(list[Top]) /\ ToSet(Tail(list[Top])) = ToSet(list[Top]) \ {h}
  BY <1>1, <1>2, <1>3, TailElements DEF ListsApart
<1>5. /\ h \in Finished /\ h # Top /\ ~OnStack(h) /\ h \in Path
      /\ h \in Pending /\ Top \in Pending
  BY <1>2, <1>3, <1>4, PendingLoaded, <1>1 DEF ListsApart, Finished, Pending
<1>6. \A q \in Path : ToSet(list'[q]) = ToSet(list[q]) \ {h}
  BY <1>1, <1>2, <1>3, <1>4 DEF ListsApart
<1>7. Loaded' = Loaded /\ Finished' = Finished /\ \A q : OnStack(q)' <=> OnStack(q)
  BY <1>1 DEF Loaded, Finished, OnStack
<1>8. Pending' = Pending \ {h}
  BY <1>5, <1>6, <1>7 DEF Pending
<1>9. ListsApart'
  <2>1. \A q \in Path : list'[q] # << >> => OnStack(q)
    BY <1>1, <1>2, <1>3 DEF ListsApart
  <2>2. \A q \in Path : IsInjective(list'[q])
    BY <1>1, <1>2, <1>3, <1>4 DEF ListsApart
  <2>3. QED
    BY <1>2, <1>6, <1>7, <2>1, <2>2 DEF ListsApart
<1> HIDE DEF h
<1>10. /\ IsInjective(content'[Top])
       /\ ToSet(content'[Top]) = ToSet(content[Top]) \cup ToSet(content[h])
       /\ \A q \in Path \ {Top} : content'[q] = content[q]
  <2>1. /\ content'[Top] = content[Top] \o content[h]
        /\ \A q \in Path \ {Top} : content'[q] = content[q]
    BY <1>1, <1>3
  <2>2. /\ content[Top] \in Seq(Path) /\ content[h] \in Seq(Path)
        /\ IsInjective(content[Top]) /\ IsInjective(content[h])
        /\ ToSet(content[Top]) \cap ToSet(content[h]) = {}
    BY <1>2, <1>3, <1>5 DEF ContentsApart
  <2>3. QED
    BY <2>1, <2>2, JoinedElements
<1>11. ContentsApart'
  <2>1. \A q, r \in Pending' : q # r => ToSet(content'[q]) \cap ToSet(content'[r]) = {}
    <3>1. \A q, r \in Pending : q # r => ToSet(content[q]) \cap ToSet(content[r]) = {}
      BY <1>2 DEF ContentsApart
    <3>2. \A q \in Pending' : q = Top \/ content'[q] = content[q]
      BY <1>3, <1>8, <1>10
    <3>3. \A q \in Pending' \ {Top} : ToSet(content'[q]) \cap ToSet(content'[Top]) = {}
      BY <1>5, <1>8, <1>10, <3>1, <3>2
    <3>4. QED
      BY <1>8, <3>1, <3>2, <3>3
  <2>2. UNION {ToSet(content'[q]) : q \in Pending'} = UNION {ToSet(content[q]) : q \in Pending}
    <3>1. \A q \in Pending' : q = Top \/ content'[q] = content[q]
      BY <1>3, <1>8, <1>10
    <3>2. Top \in Pending'
      BY <1>5, <1>8
    <3>3. \A q \in Pending' : ToSet(content'[q]) \subseteq UNION {ToSet(content[r]) : r \in Pending}
      BY <1>5, <1>8, <1>10, <3>1
    <3>4. \A q \in Pending : \E r \in Pending' : ToSet(content[q]) \subseteq ToSet(content'[r])
      BY <1>5, <1>8, <1>10, <3>1, <3>2
    <3>5. QED
      BY <3>3, <3>4
  <2>3. \A q \in Pending' : IsInjective(content'[q])
    BY <1>2, <1>3, <1>8, <1>10 DEF ContentsApart
  <2>4. QED
    BY <1>2, <1>7, <2>1, <2>2, <2>3 DEF ContentsApart
<1>12. SyntaxKept'
  <2>1. \A q \in Pending' \ {Top} : content'[q] = content[q] /\ q \in Pending
    BY <1>3, <1>8, <1>10
  <2>2. \A q \in Pending : \A g \in ToSet(content[q]) : disk[g].syntax = disk[q].syntax
    BY <1>2 DEF SyntaxKept
  <2>3. \A g \in ToSet(content'[Top]) : disk[g].syntax = disk[Top].syntax
    BY <1>1, <1>5, <1>10, <2>2
  <2>4. \A q \in Pending' : \A g \in ToSet(content'[q]) : disk[g].syntax = disk[q].syntax
    BY <2>1, <2>2, <2>3
  <2>5. QED
    BY <1>1, <2>4 DEF SyntaxKept
<1>13. QED
  BY <1>1, <1>9, <1>11, <1>12 DEF MergeInv, FailuresJustified

LEMMA MergeReturnNested ==
  ASSUME MergeInv, LoadInv', ReturnNested
  PROVE  MergeInv'
<1> DEFINE n == Len(importManager)
           importer == Last(Front(importManager))
<1>1. /\ disk' = disk /\ importSet' = importSet /\ importManager' = Front(importManager)
      /\ phase = "loading" /\ phase' = "loading" /\ list[Top] = << >> /\ n > 1
      /\ list' = [list EXCEPT ![importer] = Append(@, Top)] /\ content' = content
  BY DEF ReturnNested
<1>2. ListsApart /\ ContentsApart /\ SyntaxKept /\ LoadInv
  BY <1>1 DEF MergeInv
<1>3. /\ OnStack(Top) /\ Top \in Path /\ Top \in Loaded /\ Top \notin Finished
      /\ list \in [Path -> Seq(Path)]
  BY <1>1, <1>2, PendingLoaded
<1>4. /\ importManager \in Seq(Path) /\ n \in Nat /\ Top = importManager[n]
      /\ DOMAIN importManager = 1 .. n /\ IsInjective(importManager)
  BY <1>1, <1>2, TopType DEF LoadInv, StackChain
<1>5. /\ DOMAIN importManager' = 1 .. (n - 1) /\ Len(importManager') = n - 1
      /\ \A i \in 1 .. (n - 1) : importManager'[i] = importManager[i]
  BY <1>1, <1>4 DEF Front
<1>6. importer = importManager[n - 1]
  BY <1>1, <1>4, <1>5 DEF Last
<1> HIDE DEF n, importer
<1>7. n - 1 \in 1 .. n /\ n - 1 # n /\ n - 1 \in 1 .. (n - 1) /\ n \in 1 .. n
  BY <1>1, <1>4
<1>8. importer \in Path /\ importer # Top /\ importer = importManager'[n - 1]
  BY <1>4, <1>5, <1>6, <1>7 DEF IsInjective
<1>9. \A q : OnStack(q)' <=> (OnStack(q) /\ q # Top)
  <2>1. \A i \in 1 .. n : i \in 1 .. (n - 1) \/ i = n
    BY <1>4
  <2>2. \A i \in 1 .. (n - 1) : i # n /\ i \in 1 .. n
    BY <1>1, <1>4
  <2>3. QED
    BY <1>4, <1>5, <1>7, <2>1, <2>2 DEF OnStack, IsInjective
<1>10. Loaded' = Loaded /\ Finished' = Finished \cup {Top}
  <2>1. Loaded' = Loaded
    BY <1>1 DEF Loaded
  <2>2. QED
    BY <1>3, <1>9, <2>1 DEF Finished
<1>11. /\ list[importer] \in Seq(Path) /\ IsInjective(list[importer])
       /\ Top \notin ToSet(list[importer])
  BY <1>2, <1>3, <1>8 DEF ListsApart
<1>12. /\ IsInjective(list'[importer])
       /\ ToSet(list'[importer]) = ToSet(list[importer]) \cup {Top}
  <2> DEFINE top == <<Top>>
  <2>1. top \in Seq(Path) /\ IsInjective(top) /\ ToSet(top) = {Top}
    BY <1>3 DEF IsInjective, ToSet
  <2>2. list'[importer] = list[importer] \o top
    BY <1>1, <1>3, <1>8, <1>11, AppendIsConcat
  <2> HIDE DEF top
  <2>3. ToSet(list[importer]) \cap ToSet(top) = {}
    BY <1>11, <2>1
  <2>4. QED
    BY <1>11, <2>1, <2>2, <2>3, JoinedElements
<1>13. \A q \in Path \ {importer} : list'[q] = list[q]
  BY <1>1, <1>3
<1>14. Pending' = Pending
  <2>1. \A q \in Path : ToSet(list[q]) \subseteq ToSet(list'[q])
    BY <1>12, <1>13
  <2>2. \A q \in Path : ToSet(list'[q]) \subseteq ToSet(list[q]) \cup {Top}
    BY <1>12, <1>13
  <2>3. Top \in ToSet(list'[importer])
    BY <1>12
  <2>4. Top \in Pending /\ Top \in Pending'
    BY <1>3, <1>8, <2>3 DEF Pending
  <2>5. \A q \in Pending : q \in Pending'
    BY <1>9, <2>1, <2>4 DEF Pending
  <2>6. \A q \in Pending' : q \in Pending
    BY <1>9, <2>2, <2>4 DEF Pending
  <2>7. QED
    BY <2>5, <2>6
<1>15. ListsApart'
  <2>1. OnStack(importer)
    BY <1>4, <1>6, <1>7 DEF OnStack
  <2>2. \A q \in Path : list[q] # << >> => q # Top /\ OnStack(q)
    BY <1>1, <1>2 DEF ListsApart
  <2>3. \A q \in Path : list'[q] # << >> => OnStack(q)'
    BY <1>8, <1>9, <1>13, <2>1, <2>2
  <2>4. \A q \in Path : IsInjective(list'[q]) /\ ToSet(list'[q]) \subseteq Finished'
    BY <1>2, <1>10, <1>12, <1>13 DEF ListsApart
  <2>5. \A q \in Path : Top \notin ToSet(list[q])
    BY <1>2, <1>3 DEF ListsApart
  <2>6. \A q, r \in Path : q # r => ToSet(list'[q]) \cap ToSet(list'[r]) = {}
    BY <1>2, <1>12, <1>13, <2>5 DEF ListsApart
  <2>7. QED
    BY <2>3, <2>4, <2>6 DEF ListsApart
<1>16. ContentsApart' /\ SyntaxKept'
  BY <1>1, <1>2, <1>10, <1>14 DEF ContentsApart, SyntaxKept
<1>17. QED
  BY <1>1, <1>15, <1>16 DEF MergeInv, FailuresJustified

\* When the root returns, only its own value is left.
LEMMA MergeReturnRoot ==
  ASSUME MergeInv, LoadInv', ReturnRoot
  PROVE  MergeInv'
<1>1. /\ disk' = disk /\ importSet' = importSet /\ phase' = "loaded" /\ phase = "loading"
      /\ list[Top] = << >> /\ content' = content /\ Loaded' = Loaded
      /\ Len(importManager) = 1
  BY DEF ReturnRoot, Loaded
<1>2. ListsApart /\ ContentsApart /\ SyntaxKept /\ LoadInv
  BY <1>1 DEF MergeInv
<1>3. Top = Root /\ \A q : OnStack(q) <=> q = Root
  BY <1>1, <1>2, TopType DEF LoadInv, StackChain, OnStack
<1>4. \A q \in Path : list[q] = << >>
  BY <1>1, <1>2, <1>3 DEF ListsApart
<1>5. Pending = {Root}
  <2>1. ToSet(<< >>) = {}
    BY DEF ToSet
  <2>2. QED
    BY <1>3, <1>4, <2>1, RootAssumption DEF Pending
<1>6. RootWhole
  BY <1>2, <1>5 DEF ContentsApart, SyntaxKept, RootWhole
<1>7. RootWhole'
  BY <1>1, <1>6 DEF RootWhole
<1>8. QED
  BY <1>1, <1>7 DEF MergeInv, FailuresJustified

\* The file at the head of a list and the one it is merged into are both
\* reachable: they cannot both have the root's syntax if theirs differ.
LEMMA MergeMergeMismatch ==
  ASSUME MergeInv, LoadInv', MergeMismatch
  PROVE  MergeInv'
<1> DEFINE h == Head(list[Top])
<1>1. /\ disk' = disk /\ phase = "loading" /\ phase' = "failed" /\ list[Top] # << >>
      /\ disk[h].syntax # disk[Top].syntax /\ Loadable' = Loadable
  BY DiskFrame DEF MergeMismatch, Loadable
<1>2. ListsApart /\ LoadInv
  BY <1>1 DEF MergeInv
<1>3. Top \in Path /\ Top \in Loaded /\ list \in [Path -> Seq(Path)] /\ Finished \subseteq Loaded
  BY <1>1, <1>2, PendingLoaded
<1>4. h \in Loaded
  BY <1>1, <1>2, <1>3, TailElements DEF ListsApart
<1>5. h \in Reachable /\ Top \in Reachable
  BY <1>2, <1>3, <1>4 DEF LoadInv, OnlyReachable
<1>6. ~Loadable
  BY <1>1, <1>5 DEF Loadable
<1>7. QED
  BY <1>1, <1>6 DEF MergeInv, FailuresJustified

LEMMA MergeImportCycle ==
  ASSUME MergeInv, LoadInv', NEW p \in Path, ImportCycle(p)
  PROVE  MergeInv'
<1>1. phase' = "failed" /\ failure' = "cycle"
  BY DEF ImportCycle
<1>2. ~Loadable'
  BY <1>1 DEF LoadInv, CycleIsReal, Loadable, Acyclic
<1>3. QED
  BY <1>1, <1>2 DEF MergeInv, FailuresJustified

LEMMA MergeSkipImported ==
  ASSUME MergeInv, LoadInv', NEW p \in Path, SkipImported(p)
  PROVE  MergeInv'
<1>1. /\ disk' = disk /\ importSet' = importSet /\ importManager' = importManager
      /\ phase = "loading" /\ phase' = phase /\ list' = list /\ content' = content
  BY DEF SkipImported, Visit
<1>2. /\ Loaded' = Loaded /\ Finished' = Finished /\ Pending' = Pending
  BY <1>1 DEF Loaded, Finished, Pending, OnStack
<1>3. ListsApart'
  BY <1>1, <1>2 DEF MergeInv, ListsApart, OnStack
<1>4. QED
  BY <1>1, <1>2, <1>3 DEF MergeInv, ContentsApart, SyntaxKept, FailuresJustified

LEMMA MergeInvStep == MergeInv /\ [LoadNext]_vars => MergeInv'
<1> SUFFICES ASSUME MergeInv, [LoadNext]_vars PROVE MergeInv'
  OBVIOUS
<1>1. LoadInv'
  BY LoadInvStep DEF MergeInv
<1>2. CASE ParseRoot
  BY <1>1, <1>2, MergeParseRoot
<1>3. CASE \E p \in Path : ImportCycle(p) \/ SkipImported(p) \/ OpenImport(p)
  BY <1>1, <1>3, MergeImportCycle, MergeSkipImported, MergeOpenImport
<1>4. CASE MergeMismatch \/ MergeNested
  BY <1>1, <1>4, MergeMergeMismatch, MergeMergeNested
<1>5. CASE ReturnNested \/ ReturnRoot
  BY <1>1, <1>5, MergeReturnNested, MergeReturnRoot
<1>6. CASE Stop \/ UNCHANGED vars
  <2>1. /\ disk' = disk /\ phase' = phase /\ importManager' = importManager
        /\ importSet' = importSet /\ list' = list /\ content' = content
    BY <1>6 DEF Stop, vars
  <2>2. /\ Loaded' = Loaded /\ Finished' = Finished /\ Pending' = Pending
        /\ Loadable' = Loadable
    BY <2>1, DiskFrame DEF Loaded, Finished, Pending, OnStack, Loadable
  <2>3. ListsApart' = ListsApart
    BY <2>1, <2>2 DEF ListsApart, OnStack
  <2>4. ContentsApart' = ContentsApart /\ SyntaxKept' = SyntaxKept /\ RootWhole' = RootWhole
    BY <2>1, <2>2 DEF ContentsApart, SyntaxKept, RootWhole
  <2>5. QED
    BY <1>1, <2>1, <2>2, <2>3, <2>4 DEF MergeInv, FailuresJustified
<1>7. QED
  BY <1>2, <1>3, <1>4, <1>5, <1>6 DEF LoadNext

\* In every state the values still to be merged hold the loaded files' statements,
\* each once, and whatever made Parse give up is the fault of the files.
THEOREM MergeInvariant == LoadSpec => []MergeInv
<1>1. Init => MergeInv
  BY LoadInvInit DEF Init, MergeInv, FailuresJustified
<1>2. QED
  BY <1>1, MergeInvStep, PTL DEF LoadSpec

\* The API value that Parse returns holds the statements of every file the
\* root reaches once, along however many paths the file is imported.
THEOREM LoadMergesOnce == LoadSpec => []MergedOnce
<1>1. MergeInv => MergedOnce
  <2> SUFFICES ASSUME MergeInv, phase = "loaded"
               PROVE  /\ Len(content[Root]) = Cardinality(Loaded)
                      /\ ToSet(content[Root]) = Loaded
    BY DEF MergedOnce
  <2>1. content[Root] \in Seq(Path) /\ RootWhole
    BY RootAssumption DEF MergeInv, LoadInv, TypeOK
  <2>2. QED
    BY <2>1, InjectiveLength DEF RootWhole
<1>2. QED
  BY <1>1, MergeInvariant, PTL

\* Whether loading succeeds depends on the files and not on the order in which
\* Go ranges over the imports: if and only if every reachable file is in order
\* and of the root's syntax, and none of them import each other in a circle.
THEOREM LoadIsDetermined == LoadSpec => []OutcomeDetermined
<1>1. MergeInv => OutcomeDetermined
  <2> SUFFICES ASSUME MergeInv, phase \in Terminal
               PROVE  phase = "loaded" <=> Loadable
    BY DEF OutcomeDetermined
  <2>1. CASE phase = "loaded"
    BY <2>1 DEF MergeInv, LoadInv, LoadedIsClosed, RootWhole, Loadable
  <2>2. CASE phase # "loaded"
    BY <2>2 DEF MergeInv, FailuresJustified, Terminal
  <2>3. QED
    BY <2>1, <2>2
<1>2. QED
  BY <1>1, MergeInvariant, PTL

(***************************************************************************)
(* Part II: the checks and the conversion                                  *)
(***************************************************************************)

(***************************************************************************)
(* Numbers                                                                 *)
(***************************************************************************)
\* Every set of numbers has a least one.
LEMMA LeastNumber ==
  ASSUME NEW S, S \subseteq Nat, S # {}
  PROVE  \E i \in S : \A j \in S : i <= j
<1> DEFINE Up == {1 .. i : i \in S}
           Below == StrictSubsetOrdering(Nat)
<1>1. IsWellFoundedOn(Below, FiniteSubsetsOf(Nat))
  BY FS_StrictSubsetOrderingWellFounded
<1>2. Up \subseteq FiniteSubsetsOf(Nat) /\ Up # {}
  <2>1. \A i \in S : 1 .. i \in SUBSET Nat /\ IsFiniteSet(1 .. i)
    BY FS_Interval
  <2>2. QED
    BY <2>1 DEF FiniteSubsetsOf
<1>3. PICK u \in Up : \A v \in Up : ~(<<v, u>> \in Below)
  <2> HIDE DEF Up, Below
  <2>1. QED
    BY <1>1, <1>2, WFMin
<1>4. PICK i \in S : u = 1 .. i
  BY <1>3
<1>5. ASSUME NEW j \in S, j < i PROVE FALSE
  <2>1. 1 .. j \subseteq 1 .. i /\ i \in 1 .. i /\ i \notin 1 .. j
    BY <1>5
  <2>2. <<1 .. j, u>> \in Below
    BY <1>4, <2>1 DEF StrictSubsetOrdering
  <2>3. QED
    BY <1>3, <2>2
<1>6. QED
  BY <1>5

\* Induction over the numbers, for a set of them.
LEMMA SetInduction ==
  ASSUME NEW S, 0 \in S, \A n \in Nat : n \in S => n + 1 \in S
  PROVE  Nat \subseteq S
<1> SUFFICES ASSUME Nat \ S # {} PROVE FALSE
  OBVIOUS
<1>1. PICK m \in Nat \ S : \A n \in Nat \ S : m <= n
  BY LeastNumber
<1>2. m # 0 /\ m - 1 \in Nat /\ (m - 1) + 1 = m
  BY <1>1
<1>3. m - 1 \in S
  BY <1>1, <1>2
<1>4. QED
  BY <1>1, <1>2, <1>3

(***************************************************************************)
(* Sequences of sequences                                                  *)
(***************************************************************************)
\* What the function in FlattenSeq has at i, if it has f at the numbers below i.
Flattened(ss, f, i) == IF i = 1 THEN ss[i] ELSE f[i - 1] \o ss[i]

\* There is such a function.
LEMMA FlattenExists ==
  ASSUME NEW S, NEW ss \in Seq(Seq(S)), NEW n \in Nat
  PROVE  \E f : f = [i \in 1 .. n |-> Flattened(ss, f, i)]
<1> DEFINE Some == {m \in Nat : \E f : f = [i \in 1 .. m |-> Flattened(ss, f, i)]}
<1>1. 0 \in Some
  <2> DEFINE f == [i \in 1 .. 0 |-> {}]
  <2>1. f = [i \in 1 .. 0 |-> Flattened(ss, f, i)]
    OBVIOUS
  <2>2. QED
    BY <2>1
<1>2. ASSUME NEW m \in Nat, m \in Some PROVE m + 1 \in Some
  <2>1. PICK f : f = [i \in 1 .. m |-> Flattened(ss, f, i)]
    BY <1>2
  <2> DEFINE g == [i \in 1 .. m + 1 |-> IF i = m + 1 THEN Flattened(ss, f, i) ELSE f[i]]
  <2>2. \A i \in 1 .. m : i \in 1 .. m + 1 /\ i # m + 1 /\ g[i] = f[i]
    OBVIOUS
  <2>3. ASSUME NEW i \in 1 .. m + 1 PROVE g[i] = Flattened(ss, g, i)
    <3>1. i # 1 => i - 1 \in 1 .. m
      OBVIOUS
    <3>2. Flattened(ss, g, i) = Flattened(ss, f, i)
      BY <2>2, <3>1 DEF Flattened
    <3>3. CASE i = m + 1
      BY <3>2, <3>3
    <3>4. CASE i # m + 1
      <4>1. i \in 1 .. m
        BY <3>4
      <4>2. QED
        BY <2>1, <2>2, <3>2, <4>1
    <3>5. QED
      BY <3>3, <3>4
  <2>4. g = [i \in 1 .. m + 1 |-> Flattened(ss, g, i)]
    BY <2>3
  <2> HIDE DEF g
  <2>5. QED
    BY <2>4
<1>3. Nat \subseteq Some
  <2> HIDE DEF Some
  <2>1. QED
    BY <1>1, <1>2, SetInduction
<1>4. QED
  BY <1>3

\* The elements of s are those of the first n sequences of ss, each at one place:
\* row and col say for a place in s which element it is.
Places(s, ss, n, row, col) ==
  /\ row \in [DOMAIN s -> 1 .. n] /\ col \in [DOMAIN s -> Nat]
  /\ \A k \in DOMAIN s : col[k] \in DOMAIN ss[row[k]] /\ s[k] = ss[row[k]][col[k]]
  /\ \A k, l \in DOMAIN s : row[k] = row[l] /\ col[k] = col[l] => k = l
  /\ \A i \in 1 .. n : \A a \in DOMAIN ss[i] : \E k \in DOMAIN s : row[k] = i /\ col[k] = a

LEMMA PlacesJoin ==
  ASSUME NEW S, NEW ss \in Seq(Seq(S)), NEW n \in Nat, n + 1 \in DOMAIN ss,
         NEW s \in Seq(S), NEW row, NEW col, Places(s, ss, n, row, col)
  PROVE  \E r, c : Places(s \o ss[n + 1], ss, n + 1, r, c)
<1> DEFINE t == ss[n + 1]
           r == [k \in DOMAIN (s \o t) |-> IF k \in DOMAIN s THEN row[k] ELSE n + 1]
           c == [k \in DOMAIN (s \o t) |-> IF k \in DOMAIN s THEN col[k] ELSE k - Len(s)]
<1>1. t \in Seq(S)
  BY ElementOfSeq, LenProperties
<1>2. /\ Len(s) \in Nat /\ Len(t) \in Nat /\ DOMAIN s = 1 .. Len(s) /\ DOMAIN t = 1 .. Len(t)
      /\ DOMAIN (s \o t) = 1 .. Len(s) + Len(t)
      /\ \A i \in 1 .. Len(s) : (s \o t)[i] = s[i]
      /\ \A i \in 1 .. Len(t) : (s \o t)[Len(s) + i] = t[i]
  BY <1>1, ConcatProperties, LenProperties
<1> HIDE DEF t
<1>3. ASSUME NEW k \in DOMAIN (s \o t)
      PROVE  /\ k \in DOMAIN s =>
                  /\ r[k] = row[k] /\ r[k] \in 1 .. n /\ c[k] = col[k] /\ (s \o t)[k] = s[k]
             /\ k \notin DOMAIN s =>
                  /\ r[k] = n + 1 /\ c[k] = k - Len(s) /\ c[k] \in DOMAIN t
                  /\ Len(s) + c[k] = k /\ (s \o t)[k] = t[c[k]]
  <2>1. CASE k \in DOMAIN s
    BY <1>2, <2>1 DEF Places
  <2>2. CASE k \notin DOMAIN s
    <3>1. k - Len(s) \in 1 .. Len(t) /\ Len(s) + (k - Len(s)) = k
      BY <1>2, <2>2
    <3>2. QED
      BY <1>2, <2>2, <3>1
  <2>3. QED
    BY <2>1, <2>2
<1>4. DOMAIN s \subseteq DOMAIN (s \o t) /\ 1 .. n \subseteq 1 .. n + 1 /\ n + 1 \in 1 .. n + 1 /\ n + 1 \notin 1 .. n
  BY <1>2
<1>5. r \in [DOMAIN (s \o t) -> 1 .. n + 1]
  <2>1. \A k \in DOMAIN (s \o t) : r[k] \in 1 .. n + 1
    BY <1>3, <1>4
  <2>2. QED
    BY <2>1
<1>6. c \in [DOMAIN (s \o t) -> Nat]
  <2>1. \A k \in DOMAIN (s \o t) : c[k] \in Nat
    BY <1>2, <1>3 DEF Places
  <2>2. QED
    BY <2>1
<1> HIDE DEF r, c
<1>7. ASSUME NEW k \in DOMAIN (s \o t)
      PROVE  c[k] \in DOMAIN ss[r[k]] /\ (s \o t)[k] = ss[r[k]][c[k]]
  BY <1>3 DEF Places, t
<1>8. ASSUME NEW k \in DOMAIN (s \o t), NEW l \in DOMAIN (s \o t), r[k] = r[l], c[k] = c[l]
      PROVE  k = l
  <2>1. k \in DOMAIN s <=> l \in DOMAIN s
    BY <1>3, <1>4, <1>8
  <2>2. CASE k \in DOMAIN s
    BY <1>3, <1>8, <2>1, <2>2 DEF Places
  <2>3. CASE k \notin DOMAIN s
    BY <1>3, <1>8, <2>1, <2>3
  <2>4. QED
    BY <2>2, <2>3
<1>9. ASSUME NEW i \in 1 .. n + 1, NEW a \in DOMAIN ss[i]
      PROVE  \E k \in DOMAIN (s \o t) : r[k] = i /\ c[k] = a
  <2>1. CASE i = n + 1
    <3>1. a \in 1 .. Len(t) /\ Len(s) + a \in DOMAIN (s \o t) /\ Len(s) + a \notin DOMAIN s
          /\ (Len(s) + a) - Len(s) = a
      BY <1>2, <1>9, <2>1 DEF t
    <3>2. QED
      BY <1>3, <2>1, <3>1
  <2>2. CASE i # n + 1
    <3>1. i \in 1 .. n
      BY <2>2
    <3>2. PICK k \in DOMAIN s : row[k] = i /\ col[k] = a
      BY <1>9, <3>1 DEF Places
    <3>3. QED
      BY <1>3, <1>4, <3>2
  <2>3. QED
    BY <2>1, <2>2
<1>10. Places(s \o t, ss, n + 1, r, c)
  BY <1>5, <1>6, <1>7, <1>8, <1>9 DEF Places
<1>11. QED
  BY <1>10 DEF t

\* FlattenSeq puts the elements of all sequences into one, each at one place.
LEMMA FlattenPlaces ==
  ASSUME NEW S, NEW ss \in Seq(Seq(S))
  PROVE  /\ FlattenSeq(ss) \in Seq(S)
         /\ \E row, col : Places(FlattenSeq(ss), ss, Len(ss), row, col)
<1> DEFINE n == Len(ss)
           f == CHOOSE g : g = [i \in 1 .. n |-> Flattened(ss, g, i)]
<1>1. n \in Nat /\ DOMAIN ss = 1 .. n /\ \A i \in 1 .. n : ss[i] \in Seq(S)
  BY LenProperties, ElementOfSeq
<1>2. CASE n = 0
  <2>1. FlattenSeq(ss) = ss /\ ss = << >> /\ ss \in Seq(S)
    BY <1>2, EmptySeq DEF FlattenSeq
  <2>2. Places(ss, ss, n, << >>, << >>)
    <3>1. 1 .. n = {} /\ DOMAIN ss = {} /\ DOMAIN << >> = {}
      BY <1>1, <1>2
    <3>2. << >> \in [{} -> 1 .. n] /\ << >> \in [{} -> Nat]
      OBVIOUS
    <3>3. QED
      BY <3>1, <3>2 DEF Places
  <2>3. QED
    BY <2>1, <2>2
<1>3. CASE n # 0
  <2>1. f = [i \in 1 .. n |-> Flattened(ss, f, i)]
    BY <1>1, FlattenExists
  <2>2. FlattenSeq(ss) = f[n]
    BY <1>3 DEF FlattenSeq, Flattened
  <2> DEFINE Done(m) == f[m] \in Seq(S) /\ \E r, c : Places(f[m], ss, m, r, c)
             Good == {m \in Nat : m \in 1 .. n => Done(m)}
  <2> HIDE DEF f
  <2>3. 0 \in Good
    OBVIOUS
  <2>4. ASSUME NEW m \in Nat, m \in Good, m + 1 \in 1 .. n
        PROVE  Done(m + 1)
    <3>1. f[m + 1] = Flattened(ss, f, m + 1) /\ ss[m + 1] \in Seq(S)
      BY <1>1, <2>1, <2>4
    <3>2. CASE m = 0
      <4>1. f[1] = ss[1] /\ 1 .. 1 = {1} /\ m + 1 = 1 /\ f[1] \in Seq(S)
        BY <3>1, <3>2 DEF Flattened
      <4> DEFINE r == [k \in DOMAIN f[1] |-> 1]
                 c == [k \in DOMAIN f[1] |-> k]
      <4>2. DOMAIN f[1] \subseteq Nat
        BY <4>1, LenProperties
      <4>3. Places(f[1], ss, 1, r, c)
        BY <4>1, <4>2 DEF Places
      <4>4. QED
        BY <4>1, <4>3
    <3>3. CASE m # 0
      <4>1. m \in 1 .. n /\ (m + 1) - 1 = m /\ m + 1 # 1
        BY <1>1, <2>4, <3>3
      <4>2. f[m] \in Seq(S) /\ f[m + 1] = f[m] \o ss[m + 1]
        BY <2>4, <3>1, <4>1 DEF Flattened
      <4>3. PICK r, c : Places(f[m], ss, m, r, c)
        BY <2>4, <4>1
      <4>4. \E q, d : Places(f[m] \o ss[m + 1], ss, m + 1, q, d)
        BY <1>1, <2>4, <4>2, <4>3, PlacesJoin
      <4>5. QED
        BY <3>1, <4>2, <4>4, ConcatProperties
    <3>4. QED
      BY <3>2, <3>3
  <2> HIDE DEF Done
  <2>5. ASSUME NEW m \in Nat, m \in Good PROVE m + 1 \in Good
    <3>1. CASE m + 1 \in 1 .. n
      <4>1. Done(m + 1)
        BY <2>4, <2>5, <3>1
      <4>2. QED
        BY <4>1
    <3>2. CASE m + 1 \notin 1 .. n
      BY <3>2
    <3>3. QED
      BY <3>1, <3>2
  <2>6. n \in Good /\ n \in 1 .. n
    <3> HIDE DEF Good
    <3>1. n \in Good
      BY <1>1, <2>3, <2>5, SetInduction
    <3>2. QED
      BY <1>1, <1>3, <3>1
  <2>7. QED
    BY <2>2, <2>6 DEF Done
<1>4. QED
  BY <1>2, <1>3

LEMMA FlattenElements ==
  ASSUME NEW S, NEW ss \in Seq(Seq(S))
  PROVE  /\ FlattenSeq(ss) \in Seq(S)
         /\ ToSet(FlattenSeq(ss)) = UNION {ToSet(ss[i]) : i \in DOMAIN ss}
<1>1. PICK row, col : Places(FlattenSeq(ss), ss, Len(ss), row, col)
  BY FlattenPlaces
<1>2. DOMAIN ss = 1 .. Len(ss)
  BY LenProperties
<1>3. \A k \in DOMAIN FlattenSeq(ss) :
        row[k] \in DOMAIN ss /\ col[k] \in DOMAIN ss[row[k]] /\ FlattenSeq(ss)[k] = ss[row[k]][col[k]]
  BY <1>1, <1>2 DEF Places
<1>4. \A i \in DOMAIN ss : \A a \in DOMAIN ss[i] : \E k \in DOMAIN FlattenSeq(ss) : FlattenSeq(ss)[k] = ss[i][a]
  BY <1>1, <1>2 DEF Places
<1>5. \A k \in DOMAIN FlattenSeq(ss) : \E i \in DOMAIN ss : FlattenSeq(ss)[k] \in ToSet(ss[i])
  BY <1>3 DEF ToSet
<1>6. \A i \in DOMAIN ss : ToSet(ss[i]) \subseteq ToSet(FlattenSeq(ss))
  BY <1>4 DEF ToSet
<1>7. ToSet(FlattenSeq(ss)) \subseteq UNION {ToSet(ss[i]) : i \in DOMAIN ss}
  BY <1>5 DEF ToSet
<1>8. QED
  BY <1>6, <1>7, FlattenPlaces

(***************************************************************************)
(* Orders                                                                  *)
(***************************************************************************)
\* R is a strict total order of D.
Orders(R, D) ==
  /\ \A i, j \in D : i = j \/ <<i, j>> \in R \/ <<j, i>> \in R
  /\ \A i \in D : <<i, i>> \notin R
  /\ \A i, j, k \in D : <<i, j>> \in R /\ <<j, k>> \in R => <<i, k>> \in R

\* The elements of D before i, and how many.
Before(R, D, i) == {j \in D : <<j, i>> \in R}
Rank(R, D, i) == Cardinality(Before(R, D, i))

\* Every number below the size of a finite set is how many elements one of the
\* set has before it, and only one.
LEMMA Ranks ==
  ASSUME NEW D, IsFiniteSet(D), NEW R, Orders(R, D)
  PROVE  /\ Cardinality(D) \in Nat
         /\ \A i \in D : Rank(R, D, i) \in 0 .. Cardinality(D) - 1
         /\ \A i, j \in D : <<i, j>> \in R => Rank(R, D, i) < Rank(R, D, j)
         /\ \A i, j \in D : Rank(R, D, i) = Rank(R, D, j) => i = j
         /\ \A n \in 1 .. Cardinality(D) : \E i \in D : Rank(R, D, i) = n - 1
<1>1. Cardinality(D) \in Nat
  BY FS_CardinalityType
<1>2. ASSUME NEW i \in D
      PROVE  /\ Before(R, D, i) \subseteq D /\ IsFiniteSet(Before(R, D, i))
             /\ Rank(R, D, i) \in Nat /\ Rank(R, D, i) <= Cardinality(D) - 1
  <2>1. Before(R, D, i) \in SUBSET D
    BY DEF Before
  <2>2. IsFiniteSet(Before(R, D, i)) /\ Rank(R, D, i) \in Nat
    BY <2>1, FS_Subset, FS_CardinalityType DEF Rank
  <2>3. Rank(R, D, i) <= Cardinality(D) /\ Rank(R, D, i) # Cardinality(D)
    BY <2>1, FS_Subset DEF Rank, Before, Orders
  <2>4. QED
    BY <1>1, <2>1, <2>2, <2>3
<1>3. ASSUME NEW i \in D, NEW j \in D, <<i, j>> \in R PROVE Rank(R, D, i) < Rank(R, D, j)
  <2>1. /\ Before(R, D, i) \in SUBSET Before(R, D, j)
        /\ i \in Before(R, D, j) /\ i \notin Before(R, D, i)
    BY <1>3 DEF Before, Orders
  <2>2. Rank(R, D, i) <= Rank(R, D, j) /\ Rank(R, D, i) # Rank(R, D, j)
    BY <1>2, <2>1, FS_Subset DEF Rank
  <2>3. QED
    BY <1>2, <2>2
<1>4. ASSUME NEW i \in D, NEW j \in D, Rank(R, D, i) = Rank(R, D, j) PROVE i = j
  <2>1. i = j \/ <<i, j>> \in R \/ <<j, i>> \in R
    BY DEF Orders
  <2>2. ~(<<i, j>> \in R) /\ ~(<<j, i>> \in R)
    BY <1>2, <1>3, <1>4
  <2>3. QED
    BY <2>1, <2>2
<1>5. ASSUME NEW n \in 1 .. Cardinality(D) PROVE \E i \in D : Rank(R, D, i) = n - 1
  <2> DEFINE N == 1 .. Cardinality(D)
             f == [i \in D |-> Rank(R, D, i) + 1]
  <2>1. \A i \in D : Rank(R, D, i) + 1 \in N
    BY <1>1, <1>2
  <2>2. \A i, j \in D : Rank(R, D, i) + 1 = Rank(R, D, j) + 1 => i = j
    BY <1>2, <1>4
  <2>3. f \in Injection(D, N)
    BY <2>1, <2>2 DEF Injection, IsInjective
  <2>4. IsFiniteSet(N) /\ Cardinality(N) = Cardinality(D)
    BY <1>1, FS_Interval
  <2> HIDE DEF f, N
  <2>5. f \in Surjection(D, N)
    BY <2>3, <2>4, FS_Injection
  <2>6. PICK i \in D : f[i] = n
    BY <1>5, <2>5 DEF Surjection, N
  <2>7. QED
    BY <1>2, <2>6 DEF f
<1>6. QED
  BY <1>1, <1>2, <1>3, <1>4, <1>5

\* The order in which StableSort puts the places of s.
Precedes(key, j, i) == key[j] < key[i] \/ (key[j] = key[i] /\ j < i)
SortOrder(D, key) == {q \in D \X D : Precedes(key, q[1], q[2])}

LEMMA SortOrderPairs ==
  ASSUME NEW D, NEW key, NEW i \in D, NEW j \in D
  PROVE  <<j, i>> \in SortOrder(D, key) <=> key[j] < key[i] \/ (key[j] = key[i] /\ j < i)
<1> DEFINE q == <<j, i>>
<1>1. q[1] = j /\ q[2] = i /\ q \in D \X D
  OBVIOUS
<1> HIDE DEF q
<1>2. q \in SortOrder(D, key) <=> Precedes(key, q[1], q[2])
  BY <1>1 DEF SortOrder
<1>3. QED
  BY <1>1, <1>2 DEF q, Precedes

\* Places have an order by keys.
LEMMA OrderByKey ==
  ASSUME NEW D, D \subseteq Nat, NEW key \in [D -> Nat]
  PROVE  Orders(SortOrder(D, key), D)
<1> DEFINE R == SortOrder(D, key)
<1>1. \A i, j \in D : <<j, i>> \in R <=> key[j] < key[i] \/ (key[j] = key[i] /\ j < i)
  BY SortOrderPairs
<1>2. \A i \in D : key[i] \in Nat /\ i \in Nat
  OBVIOUS
<1> HIDE DEF R
<1>3. ASSUME NEW i \in D, NEW j \in D PROVE i = j \/ <<i, j>> \in R \/ <<j, i>> \in R
  <2>1. key[i] \in Nat /\ key[j] \in Nat /\ i \in Nat /\ j \in Nat
    BY <1>2
  <2>2. i = j \/ (key[i] < key[j] \/ (key[i] = key[j] /\ i < j))
        \/ (key[j] < key[i] \/ (key[j] = key[i] /\ j < i))
    BY <2>1
  <2>3. QED
    BY <1>1, <2>2
<1>4. ASSUME NEW i \in D PROVE <<i, i>> \notin R
  <2>1. key[i] \in Nat /\ i \in Nat
    BY <1>2
  <2>2. ~(key[i] < key[i] \/ (key[i] = key[i] /\ i < i))
    BY <2>1
  <2>3. QED
    BY <1>1, <2>2
<1>5. ASSUME NEW i \in D, NEW j \in D, NEW k \in D, <<i, j>> \in R, <<j, k>> \in R PROVE <<i, k>> \in R
  <2>1. /\ key[i] \in Nat /\ key[j] \in Nat /\ key[k] \in Nat
        /\ i \in Nat /\ j \in Nat /\ k \in Nat
    BY <1>2
  <2>2. /\ key[i] < key[j] \/ (key[i] = key[j] /\ i < j)
        /\ key[j] < key[k] \/ (key[j] = key[k] /\ j < k)
    BY <1>1, <1>5
  <2>3. key[i] < key[k] \/ (key[i] = key[k] /\ i < k)
    BY <2>1, <2>2
  <2>4. QED
    BY <1>1, <2>3
<1>6. QED
  BY <1>3, <1>4, <1>5 DEF Orders, R

\* StableSort puts every place of s at one place of the result, in the order of
\* the keys.
Sorts(s, key, p) ==
  /\ p \in Bijection(DOMAIN s, DOMAIN s)
  /\ StableSort(s, key) = [n \in DOMAIN s |-> s[p[n]]]
  /\ \A n \in DOMAIN s : Rank(SortOrder(DOMAIN s, key), DOMAIN s, p[n]) = n - 1
  /\ \A m, n \in DOMAIN s : m < n => key[p[m]] <= key[p[n]]

LEMMA SortPlaces ==
  ASSUME NEW S, NEW s \in Seq(S), NEW key \in [DOMAIN s -> Nat]
  PROVE  \E p : Sorts(s, key, p)
<1> DEFINE D == DOMAIN s
           R == SortOrder(D, key)
           p == [n \in D |-> CHOOSE i \in D : Rank(R, D, i) = n - 1]
<1> HIDE DEF p, R
<1>1. Len(s) \in Nat /\ D = 1 .. Len(s)
  <2>1. Len(s) \in Nat /\ DOMAIN s = 1 .. Len(s)
    BY LenProperties
  <2>2. QED
    BY <2>1
<1>2. IsFiniteSet(D) /\ Cardinality(D) = Len(s)
  <2>1. IsFiniteSet(1 .. Len(s)) /\ Cardinality(1 .. Len(s)) = IF 1 > Len(s) THEN 0 ELSE (Len(s) - 1) + 1
    BY <1>1, FS_Interval
  <2>2. QED
    BY <1>1, <2>1
<1>3. \A i, j \in D : <<j, i>> \in R <=> key[j] < key[i] \/ (key[j] = key[i] /\ j < i)
  BY SortOrderPairs DEF R
<1>4. \A i \in D : key[i] \in Nat /\ i \in Nat
  BY <1>1
<1> HIDE DEF D
<1>5. Orders(R, D)
  <2>1. D \subseteq Nat /\ key \in [D -> Nat]
    BY <1>1 DEF D
  <2>2. QED
    BY <2>1, OrderByKey DEF R
<1>6. \A n \in D : p[n] \in D /\ Rank(R, D, p[n]) = n - 1
  <2>1. \A n \in D : \E i \in D : Rank(R, D, i) = n - 1
    BY <1>1, <1>2, <1>5, Ranks
  <2>2. QED
    BY <2>1 DEF p
<1>7. \A i \in D : Rank(R, D, i) + 1 \in D /\ Rank(R, D, i) \in Nat
  BY <1>1, <1>2, <1>5, Ranks
<1>8. \A i \in D : p[Rank(R, D, i) + 1] = i
  <2>1. ASSUME NEW i \in D PROVE p[Rank(R, D, i) + 1] = i
    <3>1. (Rank(R, D, i) + 1) - 1 = Rank(R, D, i)
      BY <1>7
    <3>2. Rank(R, D, p[Rank(R, D, i) + 1]) = Rank(R, D, i) /\ p[Rank(R, D, i) + 1] \in D
      BY <1>6, <1>7, <3>1
    <3>3. QED
      BY <1>2, <1>5, <3>2, Ranks
  <2>2. QED
    BY <2>1
<1>9. p \in Bijection(D, D)
  <2>1. p \in [D -> D]
    BY <1>6 DEF p
  <2>2. \A m, n \in D : p[m] = p[n] => m = n
    BY <1>4, <1>6
  <2>3. QED
    BY <1>7, <1>8, <2>1, <2>2 DEF Bijection, Injection, Surjection, IsInjective
<1>10. StableSort(s, key) = [n \in D |-> s[p[n]]]
  <2>1. \A i \in D : {j \in D : key[j] < key[i] \/ (key[j] = key[i] /\ j < i)} = Before(R, D, i)
    BY <1>3 DEF Before
  <2> DEFINE size(i) == Cardinality({j \in D : key[j] < key[i] \/ (key[j] = key[i] /\ j < i)})
  <2>2. \A i \in D : size(i) = Rank(R, D, i)
    BY <2>1 DEF Rank
  <2>3. StableSort(s, key) = [n \in D |-> s[CHOOSE i \in D : size(i) = n - 1]]
    BY DEF StableSort, D
  <2> HIDE DEF size
  <2>4. \A n \in D : (CHOOSE i \in D : size(i) = n - 1) = (CHOOSE i \in D : Rank(R, D, i) = n - 1)
    BY <2>2
  <2>5. QED
    BY <2>3, <2>4 DEF p
<1>11. ASSUME NEW m \in D, NEW n \in D, m < n PROVE key[p[m]] <= key[p[n]]
  <2>1. ~(<<p[n], p[m]>> \in R)
    <3>1. Rank(R, D, p[m]) = m - 1 /\ Rank(R, D, p[n]) = n - 1 /\ p[m] \in D /\ p[n] \in D
      BY <1>6
    <3>2. ~(n - 1 < m - 1)
      BY <1>4, <1>11
    <3>3. QED
      BY <1>2, <1>5, <3>1, <3>2, Ranks
  <2>2. QED
    BY <1>3, <1>4, <1>6, <2>1
<1>12. Sorts(s, key, p)
  BY <1>6, <1>9, <1>10, <1>11 DEF Sorts, D, R
<1>13. QED
  BY <1>12

\* The operators of ApiParse say the same of the same arguments.
LEMMA AbstractBijection == \A S, T : Abstract!Bijection(S, T) = Bijection(S, T)
BY DEF Abstract!Bijection, Bijection, Abstract!Injection, Injection, Abstract!Surjection, Surjection,
       Abstract!IsInjective, IsInjective

LEMMA AbstractToSet == \A s : Abstract!ToSet(s) = ToSet(s)
BY DEF Abstract!ToSet, ToSet

LEMMA AbstractBaseType == \A n : Abstract!IsBaseType(n) <=> IsBaseType(n)
BY DEF Abstract!IsBaseType, IsBaseType

LEMMA AbstractUnresolved == \A t, declared : Abstract!Unresolved(t, declared) = Unresolved(t, declared)
BY DEF Abstract!Unresolved, Unresolved, Abstract!IsBaseType, IsBaseType

LEMMA AbstractUnsupported == Abstract!Unsupported = Unsupported
<1>1. Abstract!ContainsStruct = ContainsStruct
  BY DEF Abstract!ContainsStruct, ContainsStruct
<1>2. Abstract!CanEqual = CanEqual
  BY DEF Abstract!CanEqual, CanEqual
<1>3. QED
  BY <1>1, <1>2
  DEF Abstract!Unsupported, Unsupported, Abstract!RawIsBaseType, RawIsBaseType,
      Abstract!IsBaseType, IsBaseType, Abstract!Commented, Commented

LEMMA AbstractReachable == Abstract!Reachable = Reachable
BY DEF Abstract!Reachable, Reachable, Imports, Closed

LEMMA AbstractFilesLoad == Abstract!FilesLoad(Reachable) <=> Loadable
BY DEF Abstract!FilesLoad, Loadable, Acyclic, Imports

(***************************************************************************)
(* Data types                                                              *)
(***************************************************************************)
\* A data type is written down in finitely many tokens: whatever it is built
\* from is less deep.
PartsSmaller ==
  \E depth \in [DataType -> Nat] :
    \A t \in DataType : \A i \in DOMAIN t.d : depth[t.d[i]] < depth[t]

LEMMA PartsType ==
  ASSUME NEW t \in DataType
  PROVE  /\ t.k \in Kind
         /\ \A i \in DOMAIN t.d : t.d[i] \in DataType
         /\ t.k \in {"ptr", "array", "dynarray", "slice"} => 1 \in DOMAIN t.d
         /\ t.k = "map" => 2 \in DOMAIN t.d
<1>1. t.k \in Kind /\ t.d \in Seq(DataType)
  BY DataTypeAssumption
<1>2. DOMAIN t.d = 1 .. Len(t.d) /\ Len(t.d) \in Nat
  BY <1>1, LenProperties
<1>3. \A i \in DOMAIN t.d : t.d[i] \in DataType
  BY <1>1, <1>2, ElementOfSeq
<1>4. t.k \in {"ptr", "array", "dynarray", "slice"} => 1 \in DOMAIN t.d
  <2>1. t.k \in {"ptr", "array", "dynarray", "slice"} => Len(t.d) = 1
    BY DataTypeAssumption
  <2>2. QED
    BY <1>2, <2>1
<1>5. ASSUME t.k = "map" PROVE 2 \in DOMAIN t.d
  <2>1. Len(t.d) = 2
    BY <1>5, DataTypeAssumption
  <2>2. 2 \in 1 .. 2
    OBVIOUS
  <2>3. QED
    BY <1>2, <2>1, <2>2
<1>6. QED
  BY <1>1, <1>3, <1>4, <1>5

LEMMA ConvertedSame ==
  ASSUME NEW t \in DataType, NEW f, NEW g, \A i \in DOMAIN t.d : f[t.d[i]] = g[t.d[i]]
  PROVE  Converted(f, t) = Converted(g, t)
<1>1. CASE t.k = "struct"
  <2>1. [i \in DOMAIN t.d |-> f[t.d[i]]] = [i \in DOMAIN t.d |-> g[t.d[i]]]
    OBVIOUS
  <2>2. QED
    BY <1>1, <2>1 DEF Converted
<1>2. CASE t.k = "map"
  BY <1>2, PartsType DEF Converted
<1>3. CASE t.k \in {"ptr", "array", "dynarray", "slice"}
  BY <1>3, PartsType DEF Converted
<1>4. CASE t.k \in {"base", "any", "interface"}
  BY <1>4 DEF Converted
<1>5. QED
  BY <1>1, <1>2, <1>3, <1>4, PartsType DEF Kind

\* f is ToSpec as far as the types of a depth below n go.
Shallow(depth, n) == {t \in DataType : depth[t] < n}
Partly(depth, n, f) == f = [t \in Shallow(depth, n) |-> Converted(f, t)]
Deepens(depth) ==
  /\ depth \in [DataType -> Nat]
  /\ \A t \in DataType : \A i \in DOMAIN t.d : depth[t.d[i]] < depth[t]

LEMMA PartlyAgree ==
  ASSUME NEW depth, Deepens(depth), NEW m \in Nat, NEW n \in Nat,
         NEW f, NEW g, Partly(depth, m, f), Partly(depth, n, g),
         NEW t \in Shallow(depth, m) \cap Shallow(depth, n)
  PROVE  f[t] = g[t]
<1> DEFINE Differ == {u \in Shallow(depth, m) \cap Shallow(depth, n) : f[u] # g[u]}
           Depths == {depth[u] : u \in Differ}
<1> SUFFICES ASSUME Differ # {} PROVE FALSE
  OBVIOUS
<1>1. \A u \in Differ : u \in DataType /\ depth[u] \in Nat /\ depth[u] < m /\ depth[u] < n
  BY DEF Deepens, Shallow
<1>2. Depths \subseteq Nat /\ Depths # {}
  BY <1>1
<1>3. PICK u \in Differ : \A v \in Differ : depth[u] <= depth[v]
  <2>1. \E i \in Depths : \A j \in Depths : i <= j
    <3> HIDE DEF Depths
    <3>1. QED
      BY <1>2, LeastNumber
  <2>2. QED
    BY <2>1
<1>4. \A i \in DOMAIN u.d : f[u.d[i]] = g[u.d[i]]
  <2>1. ASSUME NEW i \in DOMAIN u.d PROVE f[u.d[i]] = g[u.d[i]]
    <3>1. u.d[i] \in DataType /\ depth[u.d[i]] < depth[u] /\ depth[u.d[i]] \in Nat
      BY <1>1, PartsType DEF Deepens
    <3>2. u.d[i] \in Shallow(depth, m) \cap Shallow(depth, n)
      BY <1>1, <3>1 DEF Shallow
    <3>3. u.d[i] \notin Differ
      BY <1>1, <1>3, <3>1
    <3>4. QED
      BY <3>2, <3>3
  <2>2. QED
    BY <2>1
<1>5. Converted(f, u) = Converted(g, u)
  BY <1>1, <1>4, ConvertedSame
<1>6. u \in Shallow(depth, m) /\ u \in Shallow(depth, n) /\ f[u] # g[u]
  OBVIOUS
<1>7. f[u] = Converted(f, u) /\ g[u] = Converted(g, u)
  BY <1>6 DEF Partly
<1>8. QED
  BY <1>5, <1>6, <1>7

LEMMA PartlyExists ==
  ASSUME NEW depth, Deepens(depth), NEW n \in Nat
  PROVE  \E f : Partly(depth, n, f)
<1> DEFINE Some == {m \in Nat : \E f : Partly(depth, m, f)}
<1>1. 0 \in Some
  <2> DEFINE f == [t \in {} |-> t]
  <2>1. Shallow(depth, 0) = {}
    BY DEF Deepens, Shallow
  <2>2. f = [t \in {} |-> Converted(f, t)]
    OBVIOUS
  <2>3. Partly(depth, 0, f)
    BY <2>1, <2>2 DEF Partly
  <2>4. QED
    BY <2>3
<1>2. ASSUME NEW m \in Nat, m \in Some PROVE m + 1 \in Some
  <2>1. PICK f : Partly(depth, m, f)
    BY <1>2
  <2> DEFINE g == [t \in Shallow(depth, m + 1) |-> Converted(f, t)]
  <2>2. \A t \in Shallow(depth, m) : t \in Shallow(depth, m + 1)
    BY DEF Deepens, Shallow
  <2>3. \A t \in Shallow(depth, m) : g[t] = f[t]
    BY <2>1, <2>2 DEF Partly
  <2>4. ASSUME NEW t \in Shallow(depth, m + 1) PROVE Converted(f, t) = Converted(g, t)
    <3>1. \A i \in DOMAIN t.d : t.d[i] \in Shallow(depth, m)
      BY PartsType DEF Deepens, Shallow
    <3>2. t \in DataType
      BY DEF Shallow
    <3> HIDE DEF g
    <3>3. QED
      BY <2>3, <3>1, <3>2, ConvertedSame
  <2>5. g = [t \in Shallow(depth, m + 1) |-> Converted(g, t)]
    BY <2>4
  <2> HIDE DEF g
  <2>6. Partly(depth, m + 1, g)
    BY <2>5 DEF Partly
  <2>7. QED
    BY <2>6
<1>3. Nat \subseteq Some
  <2> HIDE DEF Some
  <2>1. QED
    BY <1>1, <1>2, SetInduction
<1>4. QED
  BY <1>3

\* ToSpec is what its definition says.
LEMMA ToSpecUnfolds ==
  ASSUME PartsSmaller, NEW t \in DataType
  PROVE  ToSpec[t] = Converted(ToSpec, t)
<1>1. PICK depth : Deepens(depth)
  BY DEF PartsSmaller, Deepens
<1> DEFINE part == [n \in Nat |-> CHOOSE f : Partly(depth, n, f)]
           whole == [u \in DataType |-> part[depth[u] + 1][u]]
<1>2. \A n \in Nat : Partly(depth, n, part[n])
  BY <1>1, PartlyExists
<1>3. \A u \in DataType : depth[u] \in Nat /\ depth[u] + 1 \in Nat /\ depth[u] < depth[u] + 1
  BY <1>1 DEF Deepens
<1>4. ASSUME NEW u \in DataType PROVE whole[u] = Converted(whole, u)
  <2> DEFINE n == depth[u] + 1
  <2>1. n \in Nat /\ u \in Shallow(depth, n) /\ whole[u] = part[n][u]
    BY <1>3 DEF Shallow
  <2> HIDE DEF part
  <2>2. part[n][u] = Converted(part[n], u)
    BY <1>2, <2>1 DEF Partly
  <2>3. ASSUME NEW i \in DOMAIN u.d PROVE part[n][u.d[i]] = whole[u.d[i]]
    <3> DEFINE v == u.d[i]
               m == depth[v] + 1
    <3>1. v \in DataType /\ depth[v] < depth[u]
      BY <1>1, PartsType DEF Deepens
    <3>2. v \in Shallow(depth, m) \cap Shallow(depth, n) /\ m \in Nat /\ whole[v] = part[m][v]
      BY <1>3, <3>1 DEF Shallow
    <3> HIDE DEF m, n, v, whole
    <3>3. part[n][v] = part[m][v]
      BY <1>1, <1>2, <2>1, <3>2, PartlyAgree
    <3>4. QED
      BY <3>2, <3>3 DEF v
  <2> HIDE DEF n, whole
  <2>4. Converted(part[n], u) = Converted(whole, u)
    BY <2>3, ConvertedSame
  <2>5. QED
    BY <2>1, <2>2, <2>4
<1>5. whole = [u \in DataType |-> Converted(whole, u)]
  BY <1>4
<1> HIDE DEF whole
<1>6. \E f : f = [u \in DataType |-> Converted(f, u)]
  BY <1>5
<1>7. ToSpec = CHOOSE f : f = [u \in DataType |-> Converted(f, u)]
  BY DEF ToSpec
<1>8. ToSpec = [u \in DataType |-> Converted(ToSpec, u)]
  BY <1>6, <1>7
<1>9. QED
  BY <1>8

\* What spreads from the terms of U to every term of D that is built from one: the
\* least set that has them all gives such a function.
HasParts(D) == \A u \in D : \A i \in DOMAIN u.d : u.d[i] \in D
Spreads(f, D, U) == f = [u \in D |-> u \in U \/ \E i \in DOMAIN u.d : f[u.d[i]]]

LEMMA SpreadExists ==
  ASSUME NEW D, HasParts(D), NEW U
  PROVE  \E f : Spreads(f, D, U)
<1> DEFINE Fits1(S) == \A u \in D : u \in U \/ (\E i \in DOMAIN u.d : u.d[i] \in S) => u \in S
           Least == {u \in D : \A S \in SUBSET D : Fits1(S) => u \in S}
           f == [u \in D |-> u \in Least]
<1>1. Least \in SUBSET D /\ \A S \in SUBSET D : Fits1(S) => Least \subseteq S
  OBVIOUS
<1>2. Fits1(Least)
  <2>1. ASSUME NEW u \in D, u \in U \/ (\E i \in DOMAIN u.d : u.d[i] \in Least),
               NEW S \in SUBSET D, Fits1(S)
        PROVE  u \in S
    BY <1>1, <2>1
  <2>2. QED
    BY <2>1
<1>3. ASSUME NEW u \in Least PROVE u \in U \/ \E i \in DOMAIN u.d : u.d[i] \in Least
  <2> SUFFICES ASSUME u \notin U, \A i \in DOMAIN u.d : u.d[i] \notin Least PROVE FALSE
    OBVIOUS
  <2> DEFINE Rest == Least \ {u}
  <2>1. Fits1(Rest)
    <3> HIDE DEF Least
    <3>1. QED
      BY <1>1, <1>2
  <2>2. Least \subseteq Rest
    <3> HIDE DEF Least, Fits1
    <3>1. QED
      BY <1>1, <2>1
  <2>3. QED
    BY <2>2
<1>4. \A u \in D : u \in Least <=> u \in U \/ \E i \in DOMAIN u.d : u.d[i] \in Least
  <2> HIDE DEF Least
  <2>1. QED
    BY <1>1, <1>2, <1>3
<1>5. \A u \in D : \A i \in DOMAIN u.d : f[u.d[i]] <=> u.d[i] \in Least
  BY DEF HasParts
<1>6. f = [u \in D |-> u \in U \/ \E i \in DOMAIN u.d : f[u.d[i]]]
  <2> HIDE DEF Least
  <2>1. ASSUME NEW u \in D
        PROVE  (u \in Least) = (u \in U \/ \E i \in DOMAIN u.d : f[u.d[i]])
    <3>1. (\E i \in DOMAIN u.d : f[u.d[i]]) <=> \E i \in DOMAIN u.d : u.d[i] \in Least
      BY <1>5
    <3> HIDE DEF f
    <3>2. QED
      BY <1>4, <3>1
  <2>2. QED
    BY <2>1
<1> HIDE DEF f
<1>7. QED
  BY <1>6 DEF Spreads

\* Unresolved is what its definition says.
LEMMA UnresolvedUnfolds ==
  ASSUME NEW declared, NEW t \in DataType
  PROVE  Unresolved(t, declared) <=> \/ t.k = "base" /\ ~IsBaseType(t.n) /\ t.n \notin declared
                                     \/ \E i \in DOMAIN t.d : Unresolved(t.d[i], declared)
<1> DEFINE Unknown(u) == u.k = "base" /\ ~IsBaseType(u.n) /\ u.n \notin declared
           U == {u \in DataType : Unknown(u)}
           unresolved == CHOOSE g : g = [u \in DataType |->
                           Unknown(u) \/ \E i \in DOMAIN u.d : g[u.d[i]]]
<1>1. PICK f : f = [u \in DataType |-> u \in U \/ \E i \in DOMAIN u.d : f[u.d[i]]]
  <2>1. HasParts(DataType)
    BY PartsType DEF HasParts
  <2> HIDE DEF U
  <2>2. \E f : Spreads(f, DataType, U)
    BY <2>1, SpreadExists
  <2>3. QED
    BY <2>2 DEF Spreads
<1>2. \A u \in DataType : (u \in U) = Unknown(u)
  OBVIOUS
<1> HIDE DEF Unknown, U
<1>3. f = [u \in DataType |-> Unknown(u) \/ \E i \in DOMAIN u.d : f[u.d[i]]]
  BY <1>1, <1>2
<1>4. unresolved = [u \in DataType |-> Unknown(u) \/ \E i \in DOMAIN u.d : unresolved[u.d[i]]]
  BY <1>3
<1>5. \A u : Unresolved(u, declared) = unresolved[u]
  BY DEF Unresolved, Unknown
<1> HIDE DEF unresolved
<1>6. QED
  BY <1>4, <1>5, PartsType DEF Unknown

\* The parts of a converted type are those of the type, converted, and it is a
\* reference if the type is a name that is no base type's.
LEMMA SpecParts ==
  ASSUME PartsSmaller, NEW t \in DataType
  PROVE  /\ \A i \in DOMAIN ToSpec[t].d : \E j \in DOMAIN t.d : ToSpec[t].d[i] = ToSpec[t.d[j]]
         /\ ToSpec[t].k = "define" =>
              /\ t.k = "base" /\ ~IsBaseType(t.n) /\ ToSpec[t].n = t.n
              /\ ToSpec[t] = [k |-> "define", n |-> t.n, d |-> << >>]
<1>1. ToSpec[t] = Converted(ToSpec, t)
  BY ToSpecUnfolds
<1>2. \A x : DOMAIN <<x>> = {1} /\ <<x>>[1] = x
  OBVIOUS
<1>3. CASE t.k = "base" \/ t.k = "any" \/ t.k = "interface"
  BY <1>1, <1>3 DEF Converted
<1>4. CASE t.k = "struct"
  BY <1>1, <1>4 DEF Converted
<1>5. CASE t.k = "map"
  <2>1. ToSpec[t].d = <<ToSpec[t.d[2]]>> /\ ToSpec[t].k = "map"
    BY <1>1, <1>5 DEF Converted
  <2>2. QED
    BY <1>2, <1>5, <2>1, PartsType
<1>6. CASE t.k \in {"ptr", "array", "dynarray", "slice"}
  <2>1. ToSpec[t].d = <<ToSpec[t.d[1]]>> /\ ToSpec[t].k \in {"ptr", "array"}
    BY <1>1, <1>6 DEF Converted
  <2>2. QED
    BY <1>2, <1>6, <2>1, PartsType
<1>7. QED
  BY <1>3, <1>4, <1>5, <1>6, PartsType DEF Kind

\* A member whose type is a reference refers to a declared name, if all names
\* in the declaration are known.
LEMMA MemberResolves ==
  ASSUME PartsSmaller, NEW t \in DataType, NEW declared, ~Unresolved(t, declared),
         NEW i \in DOMAIN t.d, ToSpec[t.d[i]].k = "define"
  PROVE  ToSpec[t.d[i]].n \in declared
<1> DEFINE u == t.d[i]
<1>1. u \in DataType
  BY PartsType
<1>2. ~Unresolved(u, declared)
  BY UnresolvedUnfolds
<1>3. ToSpec[u].k = "define"
  OBVIOUS
<1> HIDE DEF u
<1>4. u.k = "base" /\ ~IsBaseType(u.n) /\ ToSpec[u].n = u.n
  BY <1>1, <1>3, SpecParts
<1>5. u.n \in declared
  BY <1>1, <1>2, <1>4, UnresolvedUnfolds
<1>6. QED
  BY <1>4, <1>5 DEF u

\* A reference to a name that is not among names.
Unnamed(m, names) == m.k = "define" /\ m.n \notin names

\* f says of a converted type whether some name in it, at any depth, is not among names.
Dangles(f, names) ==
  /\ \A u \in DataType :
       f[ToSpec[u]] <=> \/ Unnamed(ToSpec[u], names)
                        \/ \E i \in DOMAIN ToSpec[u].d : f[ToSpec[u].d[i]]
  /\ \A m : Dangling(m, names) <=> Unnamed(m, names) \/ \E i \in DOMAIN m.d : f[m.d[i]]

LEMMA DanglesExists ==
  ASSUME PartsSmaller, NEW names
  PROVE  \E f : Dangles(f, names)
<1> DEFINE D == {ToSpec[u] : u \in DataType}
           unnamed(t) == t.k = "define" /\ t.n \notin names
           U == {t \in D : unnamed(t)}
           dangling == CHOOSE g : g = [t \in D |-> unnamed(t) \/ \E i \in DOMAIN t.d : g[t.d[i]]]
<1>1. \A t \in D : \A i \in DOMAIN t.d : t.d[i] \in D
  <2>1. ASSUME NEW u \in DataType, NEW i \in DOMAIN ToSpec[u].d PROVE ToSpec[u].d[i] \in D
    <3>1. PICK j \in DOMAIN u.d : ToSpec[u].d[i] = ToSpec[u.d[j]]
      BY SpecParts
    <3>2. u.d[j] \in DataType
      BY PartsType
    <3>3. QED
      BY <3>1, <3>2
  <2>2. QED
    BY <2>1
<1>2. \A t \in D : (t \in U) = unnamed(t)
  OBVIOUS
<1>3. \A u \in DataType : ToSpec[u] \in D
  OBVIOUS
<1>4. \A m : Dangling(m, names) <=> unnamed(m) \/ \E i \in DOMAIN m.d : dangling[m.d[i]]
  BY DEF Dangling, SpecType
<1>5. \A t : unnamed(t) <=> Unnamed(t, names)
  BY DEF Unnamed
<1> HIDE DEF U, D, unnamed
<1>6. PICK f : f = [t \in D |-> t \in U \/ \E i \in DOMAIN t.d : f[t.d[i]]]
  <2>1. HasParts(D)
    BY <1>1 DEF HasParts
  <2>2. \E f : Spreads(f, D, U)
    BY <2>1, SpreadExists
  <2>3. QED
    BY <2>2 DEF Spreads
<1>7. f = [t \in D |-> unnamed(t) \/ \E i \in DOMAIN t.d : f[t.d[i]]]
  BY <1>2, <1>6
<1>8. dangling = [t \in D |-> unnamed(t) \/ \E i \in DOMAIN t.d : dangling[t.d[i]]]
  BY <1>7
<1> HIDE DEF dangling
<1>9. \A t \in D : dangling[t] <=> unnamed(t) \/ \E i \in DOMAIN t.d : dangling[t.d[i]]
  BY <1>8
<1>10. Dangles(dangling, names)
  BY <1>3, <1>4, <1>5, <1>9 DEF Dangles
<1>11. QED
  BY <1>10

\* A type whose names are all known converts to one without a dangling reference.
LEMMA NothingDangles ==
  ASSUME PartsSmaller, NEW names, NEW f, Dangles(f, names), NEW t \in DataType, ~Unresolved(t, names)
  PROVE  ~f[ToSpec[t]]
<1>1. PICK depth : Deepens(depth)
  BY DEF PartsSmaller, Deepens
<1> DEFINE Bad == {u \in DataType : ~Unresolved(u, names) /\ f[ToSpec[u]]}
           Depths == {depth[u] : u \in Bad}
<1> SUFFICES ASSUME Bad # {} PROVE FALSE
  OBVIOUS
<1>2. Depths \subseteq Nat /\ Depths # {}
  BY <1>1 DEF Deepens
<1>3. PICK u \in Bad : \A v \in Bad : depth[u] <= depth[v]
  <2>1. \E i \in Depths : \A j \in Depths : i <= j
    <3> HIDE DEF Depths
    <3>1. QED
      BY <1>2, LeastNumber
  <2>2. QED
    BY <2>1
<1>4. u \in DataType /\ ~Unresolved(u, names) /\ f[ToSpec[u]]
  OBVIOUS
<1>5. CASE Unnamed(ToSpec[u], names)
  <2>1. u.k = "base" /\ ~IsBaseType(u.n) /\ u.n \notin names
    BY <1>4, <1>5, SpecParts DEF Unnamed
  <2>2. QED
    BY <1>4, <2>1, UnresolvedUnfolds
<1>6. CASE ~Unnamed(ToSpec[u], names)
  <2>1. PICK i \in DOMAIN ToSpec[u].d : f[ToSpec[u].d[i]]
    BY <1>4, <1>6 DEF Dangles
  <2>2. PICK j \in DOMAIN u.d : ToSpec[u].d[i] = ToSpec[u.d[j]]
    BY <1>4, SpecParts
  <2>3. u.d[j] \in DataType /\ depth[u.d[j]] < depth[u] /\ depth[u.d[j]] \in Nat /\ depth[u] \in Nat
    BY <1>1, <1>4, PartsType DEF Deepens
  <2>4. ~Unresolved(u.d[j], names)
    BY <1>4, UnresolvedUnfolds
  <2>5. u.d[j] \in Bad
    BY <2>1, <2>2, <2>3, <2>4
  <2>6. QED
    BY <1>3, <2>3, <2>5
<1>7. QED
  BY <1>5, <1>6

(***************************************************************************)
(* The merged statements                                                   *)
(***************************************************************************)
\* The root's API holds the statements of every reachable file, once.
Merged ==
  /\ body \in Body
  /\ content[Root] \in Seq(Path) /\ IsInjective(content[Root]) /\ ToSet(content[Root]) = Reachable

\* What the files of C contribute, F[p] being file p's part, stands once in joined.
Gathers(joined, C, F, file, place) ==
  /\ \A k \in DOMAIN joined :
       file[k] \in C /\ place[k] \in DOMAIN F[file[k]] /\ joined[k] = F[file[k]][place[k]]
  /\ \A k, l \in DOMAIN joined : file[k] = file[l] /\ place[k] = place[l] => k = l
  /\ \A p \in C : \A a \in DOMAIN F[p] : \E k \in DOMAIN joined : file[k] = p /\ place[k] = a

\* joined is what the files c contribute, in the order of c.
Joins(joined, c, F, S) ==
  /\ IsInjective(c)
  /\ \A p \in ToSet(c) : F[p] \in Seq(S)
  /\ joined = FlattenSeq([i \in DOMAIN c |-> F[c[i]]])

LEMMA JoinedFiles ==
  ASSUME NEW P, NEW c \in Seq(P), NEW F, NEW S, NEW joined, Joins(joined, c, F, S)
  PROVE  /\ joined \in Seq(S)
         /\ ToSet(joined) = UNION {ToSet(F[p]) : p \in ToSet(c)}
         /\ \E file, place : Gathers(joined, ToSet(c), F, file, place)
<1> DEFINE ss == [i \in DOMAIN c |-> F[c[i]]]
<1>1. Len(c) \in Nat /\ DOMAIN c = 1 .. Len(c)
  BY LenProperties
<1>2. \A i \in DOMAIN c : c[i] \in ToSet(c) /\ ss[i] = F[c[i]] /\ ss[i] \in Seq(S)
  BY DEF ToSet, Joins
<1>3. ss \in Seq(Seq(S)) /\ DOMAIN ss = DOMAIN c /\ Len(ss) = Len(c)
  <2>1. ss \in [1 .. Len(c) -> Seq(S)]
    BY <1>1, <1>2
  <2>2. DOMAIN ss = DOMAIN c
    OBVIOUS
  <2> HIDE DEF ss
  <2>3. ss \in Seq(Seq(S))
    BY <1>1, <2>1, SeqDef
  <2>4. DOMAIN ss = 1 .. Len(ss) /\ Len(ss) \in Nat
    BY <2>3, LenProperties
  <2>5. QED
    BY <1>1, <2>2, <2>3, <2>4
<1>4. joined = FlattenSeq(ss)
  BY DEF Joins
<1> HIDE DEF ss
<1>5. joined \in Seq(S) /\ ToSet(joined) = UNION {ToSet(ss[i]) : i \in DOMAIN ss}
  BY <1>3, <1>4, FlattenElements
<1>6. UNION {ToSet(ss[i]) : i \in DOMAIN ss} = UNION {ToSet(F[p]) : p \in ToSet(c)}
  <2>1. \A i \in DOMAIN c : ToSet(ss[i]) = ToSet(F[c[i]]) /\ c[i] \in ToSet(c)
    BY <1>2
  <2>2. \A p \in ToSet(c) : \E i \in DOMAIN c : c[i] = p
    BY DEF ToSet
  <2>3. QED
    BY <1>3, <2>1, <2>2
<1>7. PICK row, col : Places(joined, ss, Len(ss), row, col)
  BY <1>3, <1>4, FlattenPlaces
<1> DEFINE file == [k \in DOMAIN joined |-> c[row[k]]]
<1>8. ASSUME NEW k \in DOMAIN joined
      PROVE  /\ row[k] \in DOMAIN c /\ file[k] = c[row[k]]
             /\ file[k] \in ToSet(c) /\ col[k] \in DOMAIN F[file[k]]
             /\ joined[k] = F[file[k]][col[k]]
  <2>1. row[k] \in DOMAIN c /\ col[k] \in DOMAIN ss[row[k]] /\ joined[k] = ss[row[k]][col[k]]
    BY <1>1, <1>3, <1>7 DEF Places
  <2>2. QED
    BY <1>2, <2>1
<1>9. ASSUME NEW k \in DOMAIN joined, NEW l \in DOMAIN joined, file[k] = file[l], col[k] = col[l]
      PROVE  k = l
  <2>1. row[k] = row[l]
    BY <1>8, <1>9 DEF Joins, IsInjective
  <2>2. QED
    BY <1>7, <1>9, <2>1 DEF Places
<1>10. ASSUME NEW p \in ToSet(c), NEW a \in DOMAIN F[p]
       PROVE  \E k \in DOMAIN joined : file[k] = p /\ col[k] = a
  <2>1. PICK i \in DOMAIN c : c[i] = p
    BY DEF ToSet
  <2>2. i \in 1 .. Len(ss) /\ a \in DOMAIN ss[i]
    BY <1>1, <1>2, <1>3, <1>10, <2>1
  <2>3. PICK k \in DOMAIN joined : row[k] = i /\ col[k] = a
    BY <1>7, <2>2 DEF Places
  <2>4. QED
    BY <1>8, <2>1, <2>3
<1> HIDE DEF file
<1>11. Gathers(joined, ToSet(c), F, file, col)
  BY <1>8, <1>9, <1>10 DEF Gathers
<1>12. QED
  BY <1>5, <1>6, <1>11

\* The merged types are those the files declare, each declaration once.
LEMMA MergedTypes ==
  ASSUME Merged
  PROVE  /\ TypeStmt \in Seq(Abstract!Declared(Reachable))
         /\ ToSet(TypeStmt) = Abstract!Declared(Reachable)
         /\ DeclaredNames = Abstract!TypeNames(Reachable)
         /\ \A i \in DOMAIN TypeStmt : TypeStmt[i].name \in Nat /\ TypeStmt[i].dt \in DataType
         /\ \E f \in Bijection(DOMAIN TypeStmt, Abstract!Declarations(Reachable)) :
              \A n \in DOMAIN TypeStmt : TypeStmt[n] = body[f[n][1]].types[f[n][2]]
<1> DEFINE c == content[Root]
           F == [p \in Path |-> body[p].types]
           S == UNION {ToSet(F[p]) : p \in ToSet(c)}
<1>1. c \in Seq(Path) /\ IsInjective(c) /\ ToSet(c) = Reachable /\ Reachable \subseteq Path
  BY DEF Merged, Reachable
<1>2. \A p \in Path : F[p] = body[p].types /\ F[p] \in Seq(ToSet(F[p]))
  BY BodyAssumption DEF Merged
<1>3. \A p \in Reachable : F[p] \in Seq(S)
  <2>1. ASSUME NEW p \in Reachable PROVE F[p] \in Seq(S)
    <3>1. ToSet(F[p]) \subseteq S /\ F[p] \in Seq(ToSet(F[p]))
      BY <1>1, <1>2
    <3> HIDE DEF F, S
    <3>2. QED
      BY <3>1, SeqMonotonic
  <2>2. QED
    BY <2>1
<1>4. TypeStmt = FlattenSeq([i \in DOMAIN c |-> F[c[i]]])
  <2>1. \A i \in DOMAIN c : F[c[i]] = body[c[i]].types
    BY <1>1, <1>2 DEF ToSet
  <2>2. [i \in DOMAIN c |-> F[c[i]]] = [i \in DOMAIN c |-> body[c[i]].types]
    BY <2>1
  <2>3. QED
    BY <2>2 DEF TypeStmt
<1>5. S = Abstract!Declared(Reachable)
  BY <1>1, <1>2, AbstractToSet DEF Abstract!Declared
<1> HIDE DEF c, F, S
<1>6. /\ TypeStmt \in Seq(S)
      /\ ToSet(TypeStmt) = UNION {ToSet(F[p]) : p \in ToSet(c)}
      /\ \E file, place : Gathers(TypeStmt, ToSet(c), F, file, place)
  <2>1. \A p \in ToSet(c) : F[p] \in Seq(S)
    BY <1>1, <1>3
  <2>2. Joins(TypeStmt, c, F, S)
    BY <1>1, <1>4, <2>1 DEF Joins
  <2>3. QED
    BY <1>1, <2>2, JoinedFiles
<1>7. PICK file, place :
        /\ \A k \in DOMAIN TypeStmt :
             /\ file[k] \in Reachable /\ place[k] \in DOMAIN body[file[k]].types
             /\ TypeStmt[k] = body[file[k]].types[place[k]]
        /\ \A k, l \in DOMAIN TypeStmt : file[k] = file[l] /\ place[k] = place[l] => k = l
        /\ \A p \in Reachable : \A a \in DOMAIN body[p].types :
             \E k \in DOMAIN TypeStmt : file[k] = p /\ place[k] = a
  <2>1. PICK file, place : Gathers(TypeStmt, ToSet(c), F, file, place)
    BY <1>6
  <2>2. ASSUME NEW k \in DOMAIN TypeStmt
        PROVE  /\ file[k] \in Reachable /\ place[k] \in DOMAIN body[file[k]].types
               /\ TypeStmt[k] = body[file[k]].types[place[k]]
    <3>1. file[k] \in Reachable /\ place[k] \in DOMAIN F[file[k]] /\ TypeStmt[k] = F[file[k]][place[k]]
      BY <1>1, <2>1 DEF Gathers
    <3>2. F[file[k]] = body[file[k]].types
      BY <1>1, <1>2, <3>1
    <3>3. QED
      BY <3>1, <3>2
  <2>3. \A k, l \in DOMAIN TypeStmt : file[k] = file[l] /\ place[k] = place[l] => k = l
    BY <2>1 DEF Gathers
  <2>4. ASSUME NEW p \in Reachable, NEW a \in DOMAIN body[p].types
        PROVE  \E k \in DOMAIN TypeStmt : file[k] = p /\ place[k] = a
    <3>1. p \in ToSet(c) /\ a \in DOMAIN F[p]
      BY <1>1, <1>2, <2>4
    <3>2. QED
      BY <2>1, <3>1 DEF Gathers
  <2>5. QED
    BY <2>2, <2>3, <2>4
<1>8. ToSet(TypeStmt) = Abstract!Declared(Reachable)
  BY <1>5, <1>6 DEF S
<1>9. DeclaredNames = Abstract!TypeNames(Reachable)
  BY <1>8 DEF DeclaredNames, Abstract!TypeNames, ToSet
<1>10. \A i \in DOMAIN TypeStmt : TypeStmt[i].name \in Nat /\ TypeStmt[i].dt \in DataType
  <2>1. ASSUME NEW i \in DOMAIN TypeStmt
        PROVE  TypeStmt[i].name \in Nat /\ TypeStmt[i].dt \in DataType
    <3>1. file[i] \in Path /\ TypeStmt[i] \in ToSet(body[file[i]].types)
      BY <1>1, <1>7 DEF ToSet
    <3>2. QED
      BY <3>1, BodyAssumption DEF Merged
  <2>2. QED
    BY <2>1
<1> DEFINE f == [k \in DOMAIN TypeStmt |-> <<file[k], place[k]>>]
           sites == Abstract!Declarations(Reachable)
<1>11. \A x : x \in sites <=> \E p \in Reachable : \E a \in DOMAIN body[p].types : x = <<p, a>>
  <2>1. sites = UNION {{p} \X DOMAIN body[p].types : p \in Reachable}
    BY DEF Abstract!Declarations
  <2> HIDE DEF sites
  <2>2. QED
    BY <2>1
<1> HIDE DEF sites
<1>12. \A k \in DOMAIN TypeStmt : f[k] \in sites /\ f[k][1] = file[k] /\ f[k][2] = place[k]
  BY <1>7, <1>11
<1>13. \A k, l \in DOMAIN TypeStmt : f[k] = f[l] => k = l
  BY <1>7, <1>12
<1>14. ASSUME NEW x \in sites PROVE \E k \in DOMAIN TypeStmt : f[k] = x
  <2>1. PICK p \in Reachable : \E a \in DOMAIN body[p].types : x = <<p, a>>
    BY <1>11
  <2>2. PICK a \in DOMAIN body[p].types : x = <<p, a>>
    BY <2>1
  <2>3. PICK k \in DOMAIN TypeStmt : file[k] = p /\ place[k] = a
    BY <1>7
  <2>4. QED
    BY <2>2, <2>3
<1>15. f \in Bijection(DOMAIN TypeStmt, sites)
  BY <1>12, <1>13, <1>14 DEF Bijection, Injection, Surjection, IsInjective
<1>16. \A n \in DOMAIN TypeStmt : TypeStmt[n] = body[f[n][1]].types[f[n][2]]
  BY <1>7, <1>12
<1>17. QED
  BY <1>5, <1>6, <1>8, <1>9, <1>10, <1>15, <1>16 DEF sites

\* The merged services are those of the files.
LEMMA MergedServices ==
  ASSUME Merged
  PROVE  /\ ServiceStmts \in Seq(ToSet(ServiceStmts))
         /\ ToSet(ServiceStmts) = UNION {ToSet(body[p].services) : p \in Reachable}
         /\ \A i \in DOMAIN ServiceStmts :
              LET s == ServiceStmts[i]
              IN  /\ s \in [name : Nat, group : Nat, prefix : Nat, sse : BOOLEAN, routes : Seq(ToSet(s.routes))]
                  /\ \A r \in ToSet(s.routes) : r.path[2] \in Nat
<1> DEFINE c == content[Root]
           F == [p \in Path |-> body[p].services]
           S == UNION {ToSet(F[p]) : p \in ToSet(c)}
<1>1. c \in Seq(Path) /\ IsInjective(c) /\ ToSet(c) = Reachable /\ Reachable \subseteq Path
  BY DEF Merged, Reachable
<1>2. \A p \in Path : F[p] = body[p].services /\ F[p] \in Seq(ToSet(F[p]))
  BY BodyAssumption DEF Merged
<1>3. \A p \in Reachable : F[p] \in Seq(S)
  <2>1. ASSUME NEW p \in Reachable PROVE F[p] \in Seq(S)
    <3>1. ToSet(F[p]) \subseteq S /\ F[p] \in Seq(ToSet(F[p]))
      BY <1>1, <1>2
    <3> HIDE DEF F, S
    <3>2. QED
      BY <3>1, SeqMonotonic
  <2>2. QED
    BY <2>1
<1>4. ServiceStmts = FlattenSeq([i \in DOMAIN c |-> F[c[i]]])
  <2>1. \A i \in DOMAIN c : F[c[i]] = body[c[i]].services
    BY <1>1, <1>2 DEF ToSet
  <2>2. [i \in DOMAIN c |-> F[c[i]]] = [i \in DOMAIN c |-> body[c[i]].services]
    BY <2>1
  <2>3. QED
    BY <2>2 DEF ServiceStmts
<1>5. S = UNION {ToSet(body[p].services) : p \in Reachable}
  BY <1>1, <1>2
<1> HIDE DEF c, F, S
<1>6. /\ ServiceStmts \in Seq(S)
      /\ ToSet(ServiceStmts) = UNION {ToSet(F[p]) : p \in ToSet(c)}
      /\ \E file, place : Gathers(ServiceStmts, ToSet(c), F, file, place)
  <2>1. \A p \in ToSet(c) : F[p] \in Seq(S)
    BY <1>1, <1>3
  <2>2. Joins(ServiceStmts, c, F, S)
    BY <1>1, <1>4, <2>1 DEF Joins
  <2>3. QED
    BY <1>1, <2>2, JoinedFiles
<1>7. PICK file, place :
           \A k \in DOMAIN ServiceStmts :
             /\ file[k] \in Reachable /\ place[k] \in DOMAIN body[file[k]].services
             /\ ServiceStmts[k] = body[file[k]].services[place[k]]
  <2>1. PICK file, place : Gathers(ServiceStmts, ToSet(c), F, file, place)
    BY <1>6
  <2>2. ASSUME NEW k \in DOMAIN ServiceStmts
        PROVE  /\ file[k] \in Reachable /\ place[k] \in DOMAIN body[file[k]].services
               /\ ServiceStmts[k] = body[file[k]].services[place[k]]
    <3>1. file[k] \in Reachable /\ place[k] \in DOMAIN F[file[k]] /\ ServiceStmts[k] = F[file[k]][place[k]]
      BY <1>1, <2>1 DEF Gathers
    <3>2. F[file[k]] = body[file[k]].services
      BY <1>1, <1>2, <3>1
    <3>3. QED
      BY <3>1, <3>2
  <2>3. QED
    BY <2>2
<1>8. ToSet(ServiceStmts) = S
  BY <1>6 DEF S
<1>9. ASSUME NEW i \in DOMAIN ServiceStmts
      PROVE  LET s == ServiceStmts[i]
             IN  /\ s \in [name : Nat, group : Nat, prefix : Nat, sse : BOOLEAN, routes : Seq(ToSet(s.routes))]
                 /\ \A r \in ToSet(s.routes) : r.path[2] \in Nat
  <2>1. file[i] \in Path /\ ServiceStmts[i] \in ToSet(body[file[i]].services)
    BY <1>1, <1>7 DEF ToSet
  <2>2. QED
    BY <2>1, BodyAssumption DEF Merged
<1>10. QED
  BY <1>5, <1>6, <1>8, <1>9

\* The merged routes are those of the files.
LEMMA MergedRoutes ==
  ASSUME Merged
  PROVE  /\ ToSet(AllRoutes) = Abstract!Routes(Reachable)
         /\ AllRoutes \in Seq(ToSet(AllRoutes))
         /\ \A i \in DOMAIN AllRoutes :
              /\ AllRoutes[i].svc \in ToSet(ServiceStmts)
              /\ AllRoutes[i].route \in ToSet(AllRoutes[i].svc.routes)
         /\ \A s \in DOMAIN ServiceStmts : \A i \in DOMAIN ServiceStmts[s].routes :
              \E k \in DOMAIN AllRoutes :
                AllRoutes[k] = [svc |-> ServiceStmts[s], route |-> ServiceStmts[s].routes[i]]
<1> DEFINE D == DOMAIN ServiceStmts
           ss == [s \in D |-> [r \in DOMAIN ServiceStmts[s].routes |->
                   [svc |-> ServiceStmts[s], route |-> ServiceStmts[s].routes[r]]]]
           S == UNION {{[svc |-> ServiceStmts[s], route |-> ServiceStmts[s].routes[r]] :
                          r \in DOMAIN ServiceStmts[s].routes} : s \in D}
<1>1. Len(ServiceStmts) \in Nat /\ D = 1 .. Len(ServiceStmts)
  <2>1. ServiceStmts \in Seq(ToSet(ServiceStmts))
    BY MergedServices
  <2>2. QED
    BY <2>1, LenProperties
<1>2. ASSUME NEW s \in D PROVE ss[s] \in Seq(S)
  <2> DEFINE R == ServiceStmts[s].routes
             f == [r \in DOMAIN R |-> [svc |-> ServiceStmts[s], route |-> R[r]]]
  <2>1. R \in Seq(ToSet(R))
    BY MergedServices
  <2>2. Len(R) \in Nat /\ DOMAIN R = 1 .. Len(R)
    BY <2>1, LenProperties
  <2>3. \A r \in DOMAIN R : [svc |-> ServiceStmts[s], route |-> R[r]] \in S
    OBVIOUS
  <2> HIDE DEF S
  <2>4. f \in [1 .. Len(R) -> S]
    BY <2>2, <2>3
  <2>5. f = ss[s]
    OBVIOUS
  <2> HIDE DEF f, ss
  <2>6. QED
    BY <2>2, <2>4, <2>5, SeqDef
<1>3. ss \in Seq(Seq(S)) /\ DOMAIN ss = D
  <2> HIDE DEF S
  <2>1. ss \in [1 .. Len(ServiceStmts) -> Seq(S)]
    BY <1>1, <1>2
  <2>2. DOMAIN ss = D
    OBVIOUS
  <2> HIDE DEF ss
  <2>3. QED
    BY <1>1, <2>1, <2>2, SeqDef
<1>4. AllRoutes = FlattenSeq(ss)
  BY DEF AllRoutes
<1>5. AllRoutes \in Seq(S) /\ ToSet(AllRoutes) = UNION {ToSet(ss[s]) : s \in DOMAIN ss}
  <2> HIDE DEF S, ss
  <2>1. QED
    BY <1>3, <1>4, FlattenElements
<1>6. \A s \in D : ToSet(ss[s]) = {[svc |-> ServiceStmts[s], route |-> r] : r \in ToSet(ServiceStmts[s].routes)}
  BY DEF ToSet
<1> HIDE DEF ss, S
<1>7. ToSet(AllRoutes) =
        UNION {{[svc |-> ServiceStmts[s], route |-> r] : r \in ToSet(ServiceStmts[s].routes)} : s \in D}
  BY <1>3, <1>5, <1>6
<1>8. ToSet(AllRoutes) =
        UNION {{[svc |-> s, route |-> r] : r \in ToSet(s.routes)} : s \in ToSet(ServiceStmts)}
  <2>1. ToSet(ServiceStmts) = {ServiceStmts[s] : s \in D}
    BY DEF ToSet
  <2>2. QED
    BY <1>7, <2>1
<1>9. ToSet(AllRoutes) = Abstract!Routes(Reachable)
  <2>1. ToSet(ServiceStmts) = UNION {Abstract!ToSet(body[p].services) : p \in Reachable}
    BY MergedServices, AbstractToSet
  <2>2. Abstract!Routes(Reachable) =
          UNION {{[svc |-> s, route |-> r] : r \in Abstract!ToSet(s.routes)} : s \in ToSet(ServiceStmts)}
    BY <2>1 DEF Abstract!Routes
  <2>3. QED
    BY <1>8, <2>2, AbstractToSet
<1>10. ASSUME NEW i \in DOMAIN AllRoutes
       PROVE  AllRoutes[i].svc \in ToSet(ServiceStmts) /\ AllRoutes[i].route \in ToSet(AllRoutes[i].svc.routes)
  <2>1. AllRoutes[i] \in ToSet(AllRoutes)
    BY DEF ToSet
  <2>2. QED
    BY <1>8, <2>1
<1>11. ASSUME NEW s \in D, NEW i \in DOMAIN ServiceStmts[s].routes
       PROVE  \E k \in DOMAIN AllRoutes :
                AllRoutes[k] = [svc |-> ServiceStmts[s], route |-> ServiceStmts[s].routes[i]]
  <2>1. ServiceStmts[s].routes[i] \in ToSet(ServiceStmts[s].routes)
    BY DEF ToSet
  <2>2. [svc |-> ServiceStmts[s], route |-> ServiceStmts[s].routes[i]] \in ToSet(AllRoutes)
    BY <1>7, <2>1
  <2>3. QED
    BY <2>2 DEF ToSet
<1>12. AllRoutes \in Seq(ToSet(AllRoutes))
  <2>1. S = ToSet(AllRoutes)
    BY <1>7 DEF S, ToSet
  <2>2. QED
    BY <1>5, <2>1
<1>13. QED
  BY <1>9, <1>10, <1>11, <1>12

(***************************************************************************)
(* The inductive invariant of the checks                                   *)
(***************************************************************************)
\* The stages after a check or a conversion that let the files through.
AfterRoutes   == {"sort", "parsed"}
AfterResolve  == AfterRoutes \cup {"fillService"}
AfterFill     == AfterResolve \cup {"resolveTypes"}
AfterDeclared == AfterFill \cup {"fillTypes"}
AfterService  == AfterDeclared \cup {"checkDeclared"}
AfterType     == AfterService \cup {"checkService"}
AfterInfo     == AfterType \cup {"checkType"}
AfterImport   == AfterInfo \cup {"checkInfo"}

\* What each of them has seen of the merged statements.
TypesPlaced ==
  \A i, j \in DOMAIN TypeStmt :
    TypeStmt[i].name = TypeStmt[j].name => TypeStmt[i].pos = TypeStmt[j].pos
RoutesPlaced ==
  /\ \A i \in DOMAIN AllRoutes : AllRoutes[i].route.handler # NoHandler
  /\ ~Duplicated(HandlerNodes) /\ ~Duplicated(PathNodes)
NamesKnown == \A i \in DOMAIN TypeStmt : ~Unresolved(TypeStmt[i].dt, DeclaredNames)
StructsSupported ==
  \A i \in DOMAIN TypeStmt :
    /\ TypeStmt[i].dt.k = "struct"
    /\ \A j \in DOMAIN TypeStmt[i].dt.d : ~Unsupported[TypeStmt[i].dt.d[j]]
Fits(b) == b.form = "none" \/ IsBaseType(b.n) \/ b.n \in DeclaredNames
RoutesKnown ==
  /\ \A i, j \in DOMAIN AllRoutes : AllRoutes[i].svc.name = AllRoutes[j].svc.name
  /\ \A i \in DOMAIN AllRoutes :
       /\ Fits(AllRoutes[i].route.req) /\ Fits(AllRoutes[i].route.resp)
       /\ AllRoutes[i].route.req.form \notin {"list", "ptrlist"}
       /\ AllRoutes[i].svc.sse => AllRoutes[i].route.resp.form # "none"

Passed ==
  /\ stage \in AfterImport => ~body[Root].repeatsImport
  /\ stage \in AfterInfo => ~body[Root].repeatsInfo
  /\ stage \in AfterType => TypesPlaced
  /\ stage \in AfterService => RoutesPlaced
  /\ stage \in AfterDeclared => NamesKnown
  /\ stage \in AfterFill => StructsSupported
  /\ stage \in AfterRoutes => RoutesKnown

\* What they have made of them.
TypesConverted ==
  types = [i \in DOMAIN TypeStmt |->
            [name |-> TypeStmt[i].name,
             members |-> [j \in DOMAIN TypeStmt[i].dt.d |-> ToSpec[TypeStmt[i].dt.d[j]]]]]
TypesNamed ==
  /\ types = [i \in DOMAIN TypeStmt |-> types[i]]
  /\ \A i \in DOMAIN TypeStmt : types[i].name = TypeStmt[i].name

\* The types of the spec are the declared ones in another order.
TypesSorted ==
  \E p \in Bijection(DOMAIN TypeStmt, DOMAIN TypeStmt) :
    /\ DOMAIN types = DOMAIN TypeStmt
    /\ \A n \in DOMAIN TypeStmt : types[n].name = TypeStmt[p[n]].name

\* The routes of a group are those of a service block in another order.
SameRoutes(g, s) ==
  /\ g.group = s.group
  /\ \E q \in Bijection(DOMAIN s.routes, DOMAIN s.routes) :
       DOMAIN g.routes = DOMAIN s.routes /\ \A i \in DOMAIN s.routes : g.routes[i] = s.routes[q[i]]
  /\ g.routes \in Seq(ToSet(s.routes))

\* The groups of the spec are the service blocks in the order of their keys.
GroupsSorted ==
  /\ groups = [n \in DOMAIN ServiceStmts |-> groups[n]]
  /\ \E p \in Bijection(DOMAIN ServiceStmts, DOMAIN ServiceStmts) :
       \A n \in DOMAIN ServiceStmts : SameRoutes(groups[n], ServiceStmts[p[n]])
  /\ \A m, n \in DOMAIN ServiceStmts : m < n => groups[m].group <= groups[n].group

Built ==
  /\ stage = "resolveTypes" => TypesConverted
  /\ stage \in {"fillService", "sort"} => TypesNamed
  /\ stage = "sort" => groups = ServiceStmts
  /\ stage = "parsed" => TypesSorted /\ GroupsSorted
  /\ serviceName # 0 => groups # << >>

AnalyzeInv ==
  /\ MergeInv
  /\ body \in Body
  /\ stage \in Stage
  /\ stage # "checkImport" => phase = "loaded"
  /\ stage = "rejected" <=> problem # "none"
  /\ Passed
  /\ Built

\* Once loading is over, the merged statements are those of the reachable files.
LEMMA LoadedMerged ==
  ASSUME MergeInv, body \in Body, phase = "loaded"
  PROVE  Merged /\ Loadable
<1>1. content[Root] \in Seq(Path)
  BY RootAssumption DEF MergeInv, LoadInv, TypeOK
<1>2. RootWhole /\ Loaded = Reachable /\ Acyclic(Loaded) /\ \A p \in Loaded : disk[p].status = "good"
  BY DEF MergeInv, LoadInv, LoadedIsClosed
<1>3. Loadable
  BY <1>2 DEF RootWhole, Loadable
<1>4. QED
  BY <1>1, <1>2, <1>3 DEF Merged, RootWhole

\* A statement of the files stays what it is while the checks are made.
LEMMA StatementsKept ==
  ASSUME body' = body, content' = content
  PROVE  /\ TypeStmt' = TypeStmt /\ DeclaredNames' = DeclaredNames
         /\ ServiceStmts' = ServiceStmts /\ AllRoutes' = AllRoutes
         /\ TypesPlaced' = TypesPlaced /\ RoutesPlaced' = RoutesPlaced
         /\ NamesKnown' = NamesKnown /\ StructsSupported' = StructsSupported
         /\ RoutesKnown' = RoutesKnown
<1>1. TypeStmt' = TypeStmt /\ ServiceStmts' = ServiceStmts
  BY DEF TypeStmt, ServiceStmts
<1>2. AllRoutes' = AllRoutes /\ DeclaredNames' = DeclaredNames
  BY <1>1 DEF AllRoutes, DeclaredNames
<1>3. HandlerNodes' = HandlerNodes /\ PathNodes' = PathNodes
  BY <1>2 DEF HandlerNodes, PathNodes
<1>4. TypesPlaced' = TypesPlaced /\ NamesKnown' = NamesKnown /\ StructsSupported' = StructsSupported
  BY <1>1, <1>2 DEF TypesPlaced, NamesKnown, StructsSupported
<1>5. RoutesPlaced' = RoutesPlaced
  BY <1>2, <1>3 DEF RoutesPlaced, Duplicated
<1>6. RoutesKnown' = RoutesKnown
  BY <1>2 DEF RoutesKnown, Fits
<1>7. QED
  BY <1>1, <1>2, <1>4, <1>5, <1>6

LEMMA BuiltKept ==
  ASSUME body' = body, content' = content, types' = types, groups' = groups
  PROVE  /\ TypesConverted' = TypesConverted /\ TypesNamed' = TypesNamed
         /\ TypesSorted' = TypesSorted /\ GroupsSorted' = GroupsSorted
<1>1. TypeStmt' = TypeStmt /\ ServiceStmts' = ServiceStmts
  BY StatementsKept
<1>2. TypesConverted' = TypesConverted /\ TypesNamed' = TypesNamed
  BY <1>1 DEF TypesConverted, TypesNamed
<1>3. TypesSorted' = TypesSorted
  BY <1>1 DEF TypesSorted
<1>4. GroupsSorted' = GroupsSorted
  BY <1>1 DEF GroupsSorted, SameRoutes
<1>5. QED
  BY <1>2, <1>3, <1>4

\* Loading does nothing any more when it is over, and never writes the files.
LEMMA LoadEnds ==
  ASSUME LoadNext, phase \in Terminal
  PROVE  UNCHANGED vars
BY DEF LoadNext, Terminal, ParseRoot, ImportCycle, SkipImported, OpenImport, Visit,
       MergeMismatch, MergeNested, ReturnNested, ReturnRoot, Stop

LEMMA DiskKept == [LoadNext]_vars => disk' = disk
BY DEF LoadNext, ParseRoot, ImportCycle, SkipImported, OpenImport,
       MergeMismatch, MergeNested, ReturnNested, ReturnRoot, Stop, vars

\* The stages are in order, the files stay loaded and an error is recorded when
\* a check refuses them.
LEMMA StagesStep ==
  ASSUME AnalyzeInv, [AnalyzeNext]_allVars
  PROVE  /\ MergeInv' /\ body' \in Body /\ disk' = disk /\ body' = body
         /\ stage' \in Stage
         /\ stage' # "checkImport" => phase' = "loaded"
         /\ stage' = "rejected" <=> problem' # "none"
<1>1. CASE LoadNext /\ UNCHANGED analyzeVars
  <2>1. MergeInv' /\ disk' = disk
    BY <1>1, MergeInvStep, DiskKept DEF AnalyzeInv
  <2>2. body' = body /\ stage' = stage /\ problem' = problem
    BY <1>1 DEF analyzeVars
  <2>3. phase = "loaded" => phase' = "loaded"
    BY <1>1, LoadEnds DEF vars, Terminal
  <2>4. QED
    BY <2>1, <2>2, <2>3 DEF AnalyzeInv
<1>2. ASSUME UNCHANGED vars PROVE MergeInv' /\ disk' = disk /\ phase' = phase
  <2>1. MergeInv'
    BY <1>2, MergeInvStep DEF AnalyzeInv
  <2>2. QED
    BY <1>2, <2>1 DEF vars
<1>3. CASE CheckImportStmt \/ CheckInfoStmt
  BY <1>2, <1>3 DEF CheckImportStmt, CheckInfoStmt, Check, AnalyzeInv, Stage
<1>4. CASE CheckTypeStmt
  BY <1>2, <1>4 DEF CheckTypeStmt, Check, AnalyzeInv, Stage
<1>5. CASE CheckServiceStmt \/ CheckServiceCrash
  BY <1>2, <1>5 DEF CheckServiceStmt, CheckServiceCrash, Check, AnalyzeInv, Stage
<1>6. CASE CheckTypeDeclareContext
  BY <1>2, <1>6 DEF CheckTypeDeclareContext, Check, AnalyzeInv, Stage
<1>7. CASE FillTypes
  BY <1>2, <1>7 DEF FillTypes, AnalyzeInv, Stage
<1>8. CASE ResolveTypes
  BY <1>2, <1>8 DEF ResolveTypes, AnalyzeInv, Stage
<1>9. CASE FillService
  BY <1>2, <1>9 DEF FillService, AnalyzeInv, Stage
<1>10. CASE SortSpec
  BY <1>2, <1>10 DEF SortSpec, AnalyzeInv, Stage
<1>11. CASE AnalyzeStop \/ UNCHANGED allVars
  <2>1. UNCHANGED vars /\ UNCHANGED analyzeVars
    BY <1>11 DEF AnalyzeStop, allVars
  <2>2. QED
    BY <1>2, <2>1 DEF analyzeVars, AnalyzeInv
<1>12. QED
  BY <1>1, <1>3, <1>4, <1>5, <1>6, <1>7, <1>8, <1>9, <1>10, <1>11 DEF AnalyzeNext

\* Whether a name is declared is seen from the types of the spec as well.
LEMMA DefinedDeclared ==
  ASSUME TypesNamed
  PROVE  \A n : Defined(n) <=> n \in DeclaredNames
<1>1. DOMAIN types = DOMAIN TypeStmt
  BY DEF TypesNamed
<1>2. QED
  BY <1>1 DEF TypesNamed, Defined, DeclaredNames

LEMMA BadRouteKnown ==
  ASSUME TypesNamed, NEW s, NEW r
  PROVE  ~BadRoute(s, r) <=> /\ Fits(r.req) /\ Fits(r.resp)
                             /\ r.req.form \notin {"list", "ptrlist"}
                             /\ s.sse => r.resp.form # "none"
<1>1. \A n : Defined(n) <=> n \in DeclaredNames
  BY DefinedDeclared
<1>2. ~BadBody(r.req, TRUE) <=> Fits(r.req) /\ r.req.form \notin {"list", "ptrlist"}
  BY <1>1 DEF BadBody, Fits
<1>3. ~BadBody(r.resp, FALSE) <=> Fits(r.resp)
  BY <1>1 DEF BadBody, Fits
<1>4. QED
  BY <1>2, <1>3 DEF BadRoute

\* What a check let through is true of the statements.
LEMMA PassedStep ==
  ASSUME AnalyzeInv, [AnalyzeNext]_allVars
  PROVE  Passed'
<1>1. /\ body' = body
      /\ content' = content =>
           /\ TypesPlaced' = TypesPlaced /\ RoutesPlaced' = RoutesPlaced
           /\ NamesKnown' = NamesKnown /\ StructsSupported' = StructsSupported
           /\ RoutesKnown' = RoutesKnown
  BY StagesStep, StatementsKept
<1> DEFINE After == /\ AfterImport = {"checkInfo", "checkType", "checkService", "checkDeclared",
                         "fillTypes", "resolveTypes", "fillService", "sort", "parsed"}
                    /\ AfterInfo = AfterImport \ {"checkInfo"}
                    /\ AfterType = AfterInfo \ {"checkType"}
                    /\ AfterService = AfterType \ {"checkService"}
                    /\ AfterDeclared = AfterService \ {"checkDeclared"}
                    /\ AfterFill = AfterDeclared \ {"fillTypes"}
                    /\ AfterResolve = AfterFill \ {"resolveTypes"}
                    /\ AfterRoutes = AfterResolve \ {"fillService"}
<1>2. After
  BY DEF AfterImport, AfterInfo, AfterType, AfterService, AfterDeclared, AfterFill, AfterResolve, AfterRoutes
<1>3. ASSUME content' = content, stage' = stage PROVE Passed'
  BY <1>1, <1>3 DEF AnalyzeInv, Passed
<1>4. ASSUME content' = content, stage' \notin AfterImport PROVE Passed'
  BY <1>2, <1>4 DEF Passed
<1>5. CASE LoadNext /\ UNCHANGED analyzeVars
  <2>1. stage' = stage
    BY <1>5 DEF analyzeVars
  <2>2. CASE stage = "checkImport"
    BY <1>2, <2>1, <2>2 DEF Passed
  <2>3. CASE stage # "checkImport"
    <3>1. content' = content
      BY <1>5, <2>3, LoadEnds DEF AnalyzeInv, vars, Terminal
    <3>2. QED
      BY <1>3, <2>1, <3>1
  <2>4. QED
    BY <2>2, <2>3
<1>6. CASE CheckImportStmt
  BY <1>1, <1>2, <1>6 DEF CheckImportStmt, Check, AnalyzeInv, Passed, vars
<1>7. CASE CheckInfoStmt
  BY <1>1, <1>2, <1>7 DEF CheckInfoStmt, Check, AnalyzeInv, Passed, vars
<1>8. CASE CheckTypeStmt
  <2> DEFINE nodes == [i \in DOMAIN TypeStmt |-> [text |-> TypeStmt[i].name, pos |-> TypeStmt[i].pos]]
  <2>1. content' = content /\ stage = "checkType" /\
        (stage' = "rejected" \/ (stage' = "checkService" /\ ~Duplicated(nodes)))
    BY <1>8 DEF CheckTypeStmt, Check, vars
  <2>2. ~Duplicated(nodes) => TypesPlaced
    BY DEF Duplicated, TypesPlaced
  <2> HIDE DEF nodes
  <2>3. QED
    BY <1>1, <1>2, <2>1, <2>2 DEF AnalyzeInv, Passed
<1>9. CASE CheckServiceStmt
  <2>1. content' = content /\ stage = "checkService" /\
        (stage' = "rejected" \/ (stage' = "checkDeclared" /\ RoutesPlaced))
    BY <1>9 DEF CheckServiceStmt, Check, vars, RoutesPlaced
  <2>2. QED
    BY <1>1, <1>2, <2>1 DEF AnalyzeInv, Passed
<1>10. CASE CheckServiceCrash
  BY <1>2, <1>4, <1>10 DEF CheckServiceCrash, vars
<1>11. CASE CheckTypeDeclareContext
  <2>1. content' = content /\ stage = "checkDeclared" /\
        (stage' = "rejected" \/ (stage' = "fillTypes" /\ NamesKnown))
    BY <1>11 DEF CheckTypeDeclareContext, Check, vars, NamesKnown
  <2>2. QED
    BY <1>1, <1>2, <2>1 DEF AnalyzeInv, Passed
<1>12. CASE FillTypes
  <2>1. content' = content /\ stage = "fillTypes" /\
        (stage' = "rejected" \/ (stage' = "resolveTypes" /\ StructsSupported))
    BY <1>12 DEF FillTypes, vars, StructsSupported
  <2>2. QED
    BY <1>1, <1>2, <2>1 DEF AnalyzeInv, Passed
<1>13. CASE ResolveTypes
  <2>1. content' = content /\ stage = "resolveTypes" /\ stage' \in {"rejected", "fillService"}
    BY <1>13 DEF ResolveTypes, vars
  <2>2. QED
    BY <1>1, <1>2, <2>1 DEF AnalyzeInv, Passed
<1>14. CASE FillService
  <2>1. /\ content' = content /\ stage = "fillService"
        /\ \/ stage' = "rejected"
           \/ /\ stage' = "sort" /\ ~NamesDiffer
              /\ \A i \in DOMAIN AllRoutes : ~BadRoute(AllRoutes[i].svc, AllRoutes[i].route)
    BY <1>14 DEF FillService, vars
  <2>2. TypesNamed
    BY <2>1 DEF AnalyzeInv, Built
  <2>3. stage' = "sort" => RoutesKnown
    BY <2>1, <2>2, BadRouteKnown DEF NamesDiffer, RoutesKnown
  <2>4. QED
    BY <1>1, <1>2, <2>1, <2>3 DEF AnalyzeInv, Passed
<1>15. CASE SortSpec
  <2>1. content' = content /\ stage = "sort" /\ stage' = "parsed"
    BY <1>15 DEF SortSpec, vars
  <2>2. QED
    BY <1>1, <1>2, <2>1 DEF AnalyzeInv, Passed
<1>16. CASE AnalyzeStop \/ UNCHANGED allVars
  BY <1>3, <1>16 DEF AnalyzeStop, allVars, vars, analyzeVars
<1>17. QED
  BY <1>5, <1>6, <1>7, <1>8, <1>9, <1>10, <1>11, <1>12, <1>13, <1>14, <1>15, <1>16 DEF AnalyzeNext

\* Sorting puts the types of the spec, and their names, in order.
LEMMA TypesInOrder ==
  ASSUME Merged, TypesNamed
  PROVE  /\ \E p \in Bijection(DOMAIN TypeStmt, DOMAIN TypeStmt) :
              ByName(types) = [n \in DOMAIN TypeStmt |-> types[p[n]]]
         /\ Abstract!NamesInOrder([n \in DOMAIN ByName(types) |-> ByName(types)[n].name],
                                  Abstract!Declarations(Reachable))
<1> DEFINE D == DOMAIN TypeStmt
           key == [i \in DOMAIN types |-> types[i].name]
           S == {types[i] : i \in D}
<1>1. DOMAIN types = D /\ types = [i \in D |-> types[i]] /\ \A i \in D : types[i].name = TypeStmt[i].name
  BY DEF TypesNamed
<1>2. \A i \in D : TypeStmt[i].name \in Nat
  BY MergedTypes
<1>3. types \in Seq(S)
  <2>1. TypeStmt \in Seq(Abstract!Declared(Reachable))
    BY MergedTypes
  <2>2. Len(TypeStmt) \in Nat /\ D = 1 .. Len(TypeStmt)
    BY <2>1, LenProperties
  <2>3. types \in [D -> S]
    BY <1>1
  <2> HIDE DEF D, S
  <2>4. QED
    BY <2>2, <2>3, SeqDef
<1>4. key \in [DOMAIN types -> Nat] /\ \A i \in D : key[i] = TypeStmt[i].name
  BY <1>1, <1>2
<1>5. ByName(types) = StableSort(types, key)
  BY DEF ByName
<1> HIDE DEF key, S, D
<1>6. PICK p : Sorts(types, key, p)
  BY <1>3, <1>4, SortPlaces
<1>7. p \in Bijection(D, D) /\ ByName(types) = [n \in D |-> types[p[n]]] /\ \A n \in D : p[n] \in D
  BY <1>1, <1>5, <1>6 DEF Sorts, Bijection, Injection
<1> DEFINE ns == [n \in DOMAIN ByName(types) |-> ByName(types)[n].name]
           sites == Abstract!Declarations(Reachable)
<1>8. DOMAIN ns = D /\ \A n \in D : ns[n] = TypeStmt[p[n]].name
  BY <1>1, <1>7
<1>9. \A m, n \in D : m < n => ns[m] <= ns[n]
  <2> HIDE DEF ns
  <2>1. \A m, n \in D : m < n => key[p[m]] <= key[p[n]]
    BY <1>1, <1>6 DEF Sorts
  <2>2. \A n \in D : key[p[n]] = ns[n]
    BY <1>4, <1>7, <1>8
  <2>3. QED
    BY <2>1, <2>2
<1>10. PICK f \in Bijection(D, sites) : \A n \in D : TypeStmt[n] = body[f[n][1]].types[f[n][2]]
  BY MergedTypes DEF D
<1> DEFINE h == [n \in D |-> f[p[n]]]
<1> HIDE DEF sites, ns
<1>11. h \in Bijection(D, sites)
  BY <1>7, <1>10 DEF Bijection, Injection, Surjection, IsInjective
<1>12. \A n \in D : ns[n] = body[h[n][1]].types[h[n][2]].name
  BY <1>7, <1>8, <1>10
<1> HIDE DEF h
<1>13. Abstract!NamesInOrder(ns, sites)
  BY <1>8, <1>9, <1>11, <1>12, AbstractBijection DEF Abstract!NamesInOrder
<1>14. QED
  BY <1>7, <1>13 DEF D, ns, sites

\* Sorting leaves the routes of a group what they are, and puts the groups in order.
LEMMA RoutesInOrder ==
  ASSUME NEW s,
         s \in [name : Nat, group : Nat, prefix : Nat, sse : BOOLEAN, routes : Seq(ToSet(s.routes))],
         \A r \in ToSet(s.routes) : r.path[2] \in Nat
  PROVE  SameRoutes([s EXCEPT !.routes = ByPath(@)], s)
<1> DEFINE R == s.routes
           key == [i \in DOMAIN R |-> R[i].path[2]]
<1>1. R \in Seq(ToSet(R))
  OBVIOUS
<1>2. key \in [DOMAIN R -> Nat]
  BY DEF ToSet
<1>3. ByPath(R) = StableSort(R, key)
  BY DEF ByPath
<1> HIDE DEF key
<1>4. PICK q : Sorts(R, key, q)
  <2> HIDE DEF R
  <2>1. QED
    BY <1>1, <1>2, SortPlaces
<1>5. q \in Bijection(DOMAIN R, DOMAIN R) /\ ByPath(R) = [i \in DOMAIN R |-> R[q[i]]]
  BY <1>3, <1>4 DEF Sorts
<1>6. [s EXCEPT !.routes = ByPath(@)].group = s.group /\ [s EXCEPT !.routes = ByPath(@)].routes = ByPath(R)
  OBVIOUS
<1>7. ByPath(R) \in Seq(ToSet(R))
  <2>1. Len(R) \in Nat /\ DOMAIN R = 1 .. Len(R) /\ \A i \in DOMAIN R : R[i] \in ToSet(R)
    BY <1>1, LenProperties DEF ToSet
  <2>2. ByPath(R) \in [1 .. Len(R) -> ToSet(R)]
    BY <1>5, <2>1 DEF Bijection, Injection
  <2>3. QED
    BY <2>1, <2>2, SeqDef
<1>8. QED
  BY <1>5, <1>6, <1>7 DEF SameRoutes

SortedGroups == ByGroup([i \in DOMAIN groups |-> [groups[i] EXCEPT !.routes = ByPath(@)]])

LEMMA GroupsInOrder ==
  ASSUME Merged, groups = ServiceStmts
  PROVE  /\ SortedGroups = [n \in DOMAIN ServiceStmts |-> SortedGroups[n]]
         /\ \E p \in Bijection(DOMAIN ServiceStmts, DOMAIN ServiceStmts) :
              \A n \in DOMAIN ServiceStmts : SameRoutes(SortedGroups[n], ServiceStmts[p[n]])
         /\ \A m, n \in DOMAIN ServiceStmts : m < n => SortedGroups[m].group <= SortedGroups[n].group
<1> DEFINE D == DOMAIN ServiceStmts
           gs == [i \in D |-> [ServiceStmts[i] EXCEPT !.routes = ByPath(@)]]
           key == [i \in DOMAIN gs |-> gs[i].group]
           S == {gs[i] : i \in D}
<1>1. \A i \in D : SameRoutes(gs[i], ServiceStmts[i]) /\ ServiceStmts[i].group \in Nat
  <2>1. ASSUME NEW i \in D PROVE SameRoutes(gs[i], ServiceStmts[i]) /\ ServiceStmts[i].group \in Nat
    <3> DEFINE s == ServiceStmts[i]
    <3>1. /\ s \in [name : Nat, group : Nat, prefix : Nat, sse : BOOLEAN, routes : Seq(ToSet(s.routes))]
          /\ \A r \in ToSet(s.routes) : r.path[2] \in Nat
      BY MergedServices
    <3>2. gs[i] = [s EXCEPT !.routes = ByPath(@)]
      OBVIOUS
    <3> HIDE DEF s, gs
    <3>3. SameRoutes([s EXCEPT !.routes = ByPath(@)], s)
      BY <3>1, RoutesInOrder
    <3>4. QED
      BY <3>1, <3>2, <3>3 DEF s
  <2>2. QED
    BY <2>1
<1>2. gs \in Seq(S) /\ DOMAIN gs = D
  <2>1. ServiceStmts \in Seq(ToSet(ServiceStmts))
    BY MergedServices
  <2>2. Len(ServiceStmts) \in Nat /\ D = 1 .. Len(ServiceStmts)
    BY <2>1, LenProperties
  <2>3. gs \in [D -> S] /\ DOMAIN gs = D
    OBVIOUS
  <2> HIDE DEF D, S, gs
  <2>4. QED
    BY <2>2, <2>3, SeqDef
<1>3. SortedGroups = StableSort(gs, key)
  BY DEF SortedGroups, ByGroup
<1>4. key \in [DOMAIN gs -> Nat] /\ \A i \in D : key[i] = gs[i].group
  BY <1>1 DEF SameRoutes
<1> HIDE DEF gs, key, S, D
<1>5. PICK p : Sorts(gs, key, p)
  BY <1>2, <1>4, SortPlaces
<1>6. /\ p \in Bijection(D, D) /\ SortedGroups = [n \in D |-> gs[p[n]]]
      /\ \A m, n \in D : m < n => key[p[m]] <= key[p[n]]
  BY <1>2, <1>3, <1>5 DEF Sorts
<1>7. \A n \in D : p[n] \in D /\ SortedGroups[n] = gs[p[n]]
  BY <1>6 DEF Bijection, Injection
<1>8. \A n \in D : SameRoutes(SortedGroups[n], ServiceStmts[p[n]])
  BY <1>1, <1>7
<1>9. \A m, n \in D : m < n => SortedGroups[m].group <= SortedGroups[n].group
  BY <1>4, <1>6, <1>7
<1>10. QED
  BY <1>6, <1>8, <1>9 DEF D

\* What is built is what the conversion makes of the statements.
LEMMA BuiltStep ==
  ASSUME AnalyzeInv, [AnalyzeNext]_allVars
  PROVE  Built'
<1>1. body' = body /\ stage' \in Stage
  BY StagesStep
<1>2. content' = content =>
        /\ TypeStmt' = TypeStmt /\ ServiceStmts' = ServiceStmts
        /\ types' = types /\ groups' = groups =>
             /\ TypesConverted' = TypesConverted /\ TypesNamed' = TypesNamed
             /\ TypesSorted' = TypesSorted /\ GroupsSorted' = GroupsSorted
  BY <1>1, StatementsKept, BuiltKept
<1>3. ASSUME UNCHANGED <<stage, types, groups, serviceName>>, stage = "checkImport" \/ content' = content
      PROVE  Built'
  BY <1>2, <1>3 DEF AnalyzeInv, Built
<1>4. ASSUME UNCHANGED <<types, groups, serviceName>>,
             stage' \in Stage \ {"resolveTypes", "fillService", "sort", "parsed"}
      PROVE  Built'
  BY <1>4 DEF AnalyzeInv, Built
<1>5. CASE LoadNext /\ UNCHANGED analyzeVars
  <2>1. stage = "checkImport" \/ content' = content
    BY <1>5, LoadEnds DEF AnalyzeInv, vars, Terminal
  <2>2. QED
    BY <1>3, <1>5, <2>1 DEF analyzeVars
<1>6. CASE CheckImportStmt \/ CheckInfoStmt \/ CheckTypeStmt \/ CheckServiceStmt \/ CheckServiceCrash
           \/ CheckTypeDeclareContext
  BY <1>1, <1>4, <1>6
  DEF CheckImportStmt, CheckInfoStmt, CheckTypeStmt, CheckServiceStmt, CheckServiceCrash,
      CheckTypeDeclareContext, Check
<1>7. CASE FillTypes
  <2>1. CASE stage' = "rejected"
    BY <1>4, <1>7, <2>1 DEF FillTypes, Stage
  <2>2. CASE stage' = "resolveTypes"
    <3>1. /\ content' = content /\ groups' = groups /\ serviceName' = serviceName
          /\ types' = [i \in DOMAIN TypeStmt |->
                        [name |-> TypeStmt[i].name,
                         members |-> [j \in DOMAIN TypeStmt[i].dt.d |-> ToSpec[TypeStmt[i].dt.d[j]]]]]
      BY <1>7, <2>2 DEF FillTypes, vars
    <3>2. TypesConverted'
      BY <1>2, <3>1 DEF TypesConverted
    <3>3. QED
      BY <2>2, <3>1, <3>2 DEF AnalyzeInv, Built
  <2>3. QED
    BY <1>7, <2>1, <2>2 DEF FillTypes
<1>8. CASE ResolveTypes
  <2>1. CASE stage' = "rejected"
    BY <1>4, <1>8, <2>1 DEF ResolveTypes, Stage
  <2>2. CASE stage' = "fillService"
    <3> DEFINE resolve(m) == IF m.k = "define" THEN [m EXCEPT !.d = FindDefinedType(m.n).members] ELSE m
    <3>1. /\ content' = content /\ groups' = groups /\ serviceName' = serviceName
          /\ types' = [i \in DOMAIN types |->
                        [types[i] EXCEPT !.members = [j \in DOMAIN @ |-> resolve(@[j])]]]
      BY <1>8, <2>2 DEF ResolveTypes, vars
    <3> HIDE DEF resolve
    <3>2. TypesConverted
      BY <1>8 DEF ResolveTypes, AnalyzeInv, Built
    <3>3. DOMAIN types = DOMAIN TypeStmt /\ DOMAIN types' = DOMAIN TypeStmt
          /\ types' = [i \in DOMAIN TypeStmt |-> types'[i]]
      BY <3>1, <3>2 DEF TypesConverted
    <3>4. ASSUME NEW i \in DOMAIN TypeStmt PROVE types'[i].name = TypeStmt[i].name
      <4>1. types[i] = [name |-> TypeStmt[i].name,
                        members |-> [j \in DOMAIN TypeStmt[i].dt.d |-> ToSpec[TypeStmt[i].dt.d[j]]]]
        BY <3>2 DEF TypesConverted
      <4>2. types'[i] = [types[i] EXCEPT !.members = [j \in DOMAIN @ |-> resolve(@[j])]]
        BY <3>1, <3>3
      <4>3. QED
        BY <4>1, <4>2
    <3>5. TypesNamed'
      BY <1>2, <3>1, <3>3, <3>4 DEF TypesNamed
    <3>6. QED
      BY <2>2, <3>1, <3>5 DEF AnalyzeInv, Built
  <2>3. QED
    BY <1>8, <2>1, <2>2 DEF ResolveTypes
<1>9. CASE FillService
  <2>1. CASE stage' = "rejected"
    BY <1>4, <1>9, <2>1 DEF FillService, Stage
  <2>2. CASE stage' = "sort"
    <3>1. /\ phase = "loaded" /\ content' = content /\ types' = types /\ groups' = ServiceStmts
          /\ serviceName' = IF AllRoutes = << >> THEN 0 ELSE AllRoutes[1].svc.name
      BY <1>9, <2>2 DEF FillService, vars
    <3>2. TypesNamed
      BY <1>9 DEF FillService, AnalyzeInv, Built
    <3>3. TypesNamed'
      BY <1>2, <3>1, <3>2 DEF TypesNamed
    <3>4. ASSUME serviceName' # 0 PROVE groups' # << >>
      <4>1. AllRoutes # << >>
        BY <3>1, <3>4
      <4>2. Merged
        BY <3>1, LoadedMerged DEF AnalyzeInv
      <4>3. 1 \in DOMAIN AllRoutes
        BY <4>1, <4>2, MergedRoutes, EmptySeq, LenProperties
      <4>4. AllRoutes[1].svc \in ToSet(ServiceStmts)
        BY <4>2, <4>3, MergedRoutes
      <4>5. ServiceStmts # << >>
        BY <4>4 DEF ToSet
      <4>6. QED
        BY <3>1, <4>5
    <3>5. QED
      BY <1>2, <2>2, <3>1, <3>3, <3>4 DEF Built
  <2>3. QED
    BY <1>9, <2>1, <2>2 DEF FillService
<1>10. CASE SortSpec
  <2>1. /\ phase = "loaded" /\ stage = "sort" /\ stage' = "parsed" /\ content' = content
        /\ types' = ByName(types) /\ groups' = SortedGroups /\ serviceName' = serviceName
    BY <1>10 DEF SortSpec, SortedGroups, vars
  <2>2. Merged /\ TypesNamed /\ groups = ServiceStmts
    BY <2>1, LoadedMerged DEF AnalyzeInv, Built
  <2>3. PICK p \in Bijection(DOMAIN TypeStmt, DOMAIN TypeStmt) :
          ByName(types) = [n \in DOMAIN TypeStmt |-> types[p[n]]]
    BY <2>2, TypesInOrder
  <2>4. \A n \in DOMAIN TypeStmt : types'[n].name = TypeStmt[p[n]].name
    BY <2>1, <2>2, <2>3 DEF TypesNamed, Bijection, Injection
  <2>5. DOMAIN types' = DOMAIN TypeStmt
    BY <2>1, <2>3
  <2>6. TypesSorted'
    BY <1>2, <2>1, <2>4, <2>5 DEF TypesSorted
  <2>7. GroupsSorted'
    <3> DEFINE D == DOMAIN ServiceStmts
    <3>1. groups' = [n \in D |-> groups'[n]]
      BY <2>1, <2>2, GroupsInOrder
    <3>2. PICK q \in Bijection(D, D) : \A n \in D : SameRoutes(groups'[n], ServiceStmts[q[n]])
      BY <2>1, <2>2, GroupsInOrder
    <3>3. \A m, n \in D : m < n => groups'[m].group <= groups'[n].group
      BY <2>1, <2>2, GroupsInOrder
    <3>4. ServiceStmts' = ServiceStmts
      BY <1>2, <2>1
    <3>5. \A n \in D : SameRoutes(groups[n], ServiceStmts[q[n]])'
      BY <3>2, <3>4 DEF SameRoutes
    <3>6. QED
      BY <3>1, <3>3, <3>4, <3>5 DEF GroupsSorted
  <2>8. serviceName' # 0 => groups' # << >>
    <3>1. serviceName # 0 => DOMAIN ServiceStmts # {}
      <4>1. ServiceStmts \in Seq(ToSet(ServiceStmts)) /\ (serviceName # 0 => ServiceStmts # << >>)
        BY <2>2, MergedServices DEF AnalyzeInv, Built
      <4>2. QED
        BY <4>1, EmptySeq, LenProperties
    <3>2. DOMAIN groups' = DOMAIN ServiceStmts
      BY <2>1, <2>2, GroupsInOrder
    <3>3. QED
      BY <2>1, <3>1, <3>2
  <2>9. QED
    BY <2>1, <2>6, <2>7, <2>8 DEF Built
<1>11. CASE AnalyzeStop \/ UNCHANGED allVars
  BY <1>3, <1>11 DEF AnalyzeStop, allVars, vars, analyzeVars
<1>12. QED
  BY <1>5, <1>6, <1>7, <1>8, <1>9, <1>10, <1>11 DEF AnalyzeNext

LEMMA AnalyzeInvInit == AnalyzeInit => AnalyzeInv
<1> SUFFICES ASSUME AnalyzeInit PROVE AnalyzeInv
  OBVIOUS
<1>1. Init => MergeInv
  BY LoadInvInit DEF Init, MergeInv, FailuresJustified
<1>2. QED
  BY <1>1 DEF AnalyzeInit, AnalyzeStart, AnalyzeInv, Stage, Passed, Built, AfterImport, AfterInfo, AfterType,
     AfterService, AfterDeclared, AfterFill, AfterResolve, AfterRoutes

LEMMA AnalyzeInvStep == AnalyzeInv /\ [AnalyzeNext]_allVars => AnalyzeInv'
BY StagesStep, PassedStep, BuiltStep DEF AnalyzeInv

\* In every state each check has seen what the ones before it let through, and
\* what has been converted so far is what the files declare.
THEOREM AnalyzeInvariant == AnalyzeSpec => []AnalyzeInv
BY AnalyzeInvInit, AnalyzeInvStep, PTL DEF AnalyzeSpec

\* The variables of the checks keep their shape: they are made on loaded files only,
\* and an error is recorded exactly when one of them refuses the files.
THEOREM AnalyzeTypes == AnalyzeSpec => []AnalyzeTypeOK
<1>1. AnalyzeInv => AnalyzeTypeOK
  BY DEF AnalyzeInv, Built, AnalyzeTypeOK
<1>2. QED
  BY <1>1, AnalyzeInvariant, PTL

(***************************************************************************)
(* What an accepted spec is like                                           *)
(***************************************************************************)
LEMMA AcceptedFacts ==
  ASSUME AnalyzeInv, Accepted
  PROVE  /\ Merged /\ Loadable /\ TypesSorted /\ GroupsSorted
         /\ TypesPlaced /\ RoutesPlaced /\ NamesKnown /\ StructsSupported /\ RoutesKnown
<1>1. stage = "parsed" /\ phase = "loaded"
  BY DEF AnalyzeInv, Accepted
<1>2. Merged /\ Loadable
  BY <1>1, LoadedMerged DEF AnalyzeInv
<1>3. QED
  BY <1>1, <1>2
  DEF AnalyzeInv, Passed, Built, AfterImport, AfterInfo, AfterType, AfterService, AfterDeclared,
      AfterFill, AfterResolve, AfterRoutes

\* A handler that two routes of one group name stands at one place.
LEMMA HandlerPlaces ==
  ASSUME Merged, RoutesPlaced,
         NEW s \in DOMAIN ServiceStmts, NEW t \in DOMAIN ServiceStmts,
         NEW i \in DOMAIN ServiceStmts[s].routes, NEW j \in DOMAIN ServiceStmts[t].routes,
         ServiceStmts[s].group = ServiceStmts[t].group,
         ServiceStmts[s].routes[i].handler = ServiceStmts[t].routes[j].handler
  PROVE  ServiceStmts[s].routes[i].at = ServiceStmts[t].routes[j].at
<1>1. PICK k \in DOMAIN AllRoutes :
        AllRoutes[k] = [svc |-> ServiceStmts[s], route |-> ServiceStmts[s].routes[i]]
  BY MergedRoutes
<1>2. PICK l \in DOMAIN AllRoutes :
        AllRoutes[l] = [svc |-> ServiceStmts[t], route |-> ServiceStmts[t].routes[j]]
  BY MergedRoutes
<1>3. HandlerNodes[k].text = HandlerNodes[l].text
  BY <1>1, <1>2 DEF HandlerNodes
<1>4. HandlerNodes[k].pos = HandlerNodes[l].pos
  <2>1. ~Duplicated(HandlerNodes) /\ DOMAIN HandlerNodes = DOMAIN AllRoutes
    BY DEF RoutesPlaced, HandlerNodes
  <2>2. QED
    BY <1>3, <2>1 DEF Duplicated
<1>5. QED
  BY <1>1, <1>2, <1>4 DEF HandlerNodes

LEMMA NothingTwiceHolds ==
  ASSUME AnalyzeInv
  PROVE  NothingTwice
<1>1. ASSUME Accepted, NEW i \in DOMAIN types, NEW j \in DOMAIN types, types[i].name = types[j].name, i # j
      PROVE  \E k, l \in DOMAIN TypeStmt :
               k # l /\ {TypeStmt[k].name, TypeStmt[l].name} = {types[i].name} /\ TypeStmt[k].pos = TypeStmt[l].pos
  <2>1. Merged /\ TypesPlaced /\ TypesSorted
    BY <1>1, AcceptedFacts
  <2>2. PICK p \in Bijection(DOMAIN TypeStmt, DOMAIN TypeStmt) :
          /\ DOMAIN types = DOMAIN TypeStmt
          /\ \A n \in DOMAIN TypeStmt : types[n].name = TypeStmt[p[n]].name
    BY <2>1 DEF TypesSorted
  <2>3. p[i] \in DOMAIN TypeStmt /\ p[j] \in DOMAIN TypeStmt /\ p[i] # p[j]
    BY <1>1, <2>2 DEF Bijection, Injection, IsInjective
  <2>4. TypeStmt[p[i]].name = types[i].name /\ TypeStmt[p[j]].name = types[i].name
    BY <1>1, <2>2
  <2>5. TypeStmt[p[i]].pos = TypeStmt[p[j]].pos
    BY <2>1, <2>3, <2>4 DEF TypesPlaced
  <2>6. QED
    BY <2>3, <2>4, <2>5
<1>2. ASSUME Accepted, NEW g \in DOMAIN groups, NEW h \in DOMAIN groups,
             NEW i \in DOMAIN groups[g].routes, NEW j \in DOMAIN groups[h].routes,
             groups[g].group = groups[h].group,
             groups[g].routes[i].handler = groups[h].routes[j].handler
      PROVE  groups[g].routes[i].at = groups[h].routes[j].at
  <2>1. Merged /\ RoutesPlaced /\ GroupsSorted
    BY <1>2, AcceptedFacts
  <2>2. PICK p \in Bijection(DOMAIN ServiceStmts, DOMAIN ServiceStmts) :
          \A n \in DOMAIN ServiceStmts : SameRoutes(groups[n], ServiceStmts[p[n]])
    BY <2>1 DEF GroupsSorted
  <2>3. g \in DOMAIN ServiceStmts /\ h \in DOMAIN ServiceStmts
    BY <2>1 DEF GroupsSorted
  <2> DEFINE s == p[g]
             t == p[h]
  <2>4. s \in DOMAIN ServiceStmts /\ t \in DOMAIN ServiceStmts
    BY <2>2, <2>3 DEF Bijection, Injection
  <2>5. SameRoutes(groups[g], ServiceStmts[s]) /\ SameRoutes(groups[h], ServiceStmts[t])
    BY <2>2, <2>3
  <2> HIDE DEF s, t
  <2>6. PICK q \in Bijection(DOMAIN ServiceStmts[s].routes, DOMAIN ServiceStmts[s].routes) :
          /\ DOMAIN groups[g].routes = DOMAIN ServiceStmts[s].routes
          /\ \A n \in DOMAIN ServiceStmts[s].routes : groups[g].routes[n] = ServiceStmts[s].routes[q[n]]
    BY <2>5 DEF SameRoutes
  <2>7. PICK r \in Bijection(DOMAIN ServiceStmts[t].routes, DOMAIN ServiceStmts[t].routes) :
          /\ DOMAIN groups[h].routes = DOMAIN ServiceStmts[t].routes
          /\ \A n \in DOMAIN ServiceStmts[t].routes : groups[h].routes[n] = ServiceStmts[t].routes[r[n]]
    BY <2>5 DEF SameRoutes
  <2>8. /\ q[i] \in DOMAIN ServiceStmts[s].routes /\ r[j] \in DOMAIN ServiceStmts[t].routes
        /\ groups[g].routes[i] = ServiceStmts[s].routes[q[i]]
        /\ groups[h].routes[j] = ServiceStmts[t].routes[r[j]]
    BY <1>2, <2>6, <2>7 DEF Bijection, Injection
  <2>9. /\ ServiceStmts[s].group = ServiceStmts[t].group
        /\ ServiceStmts[s].routes[q[i]].handler = ServiceStmts[t].routes[r[j]].handler
    BY <1>2, <2>5, <2>8 DEF SameRoutes
  <2>10. QED
    BY <2>1, <2>4, <2>8, <2>9, HandlerPlaces
<1>3. QED
  BY <1>1, <1>2 DEF NothingTwice, TypesUnique, HandlersUnique

\* No two statements of an accepted spec become one declaration or one file,
\* whatever the files are and however often they are imported, unless they stand
\* at one line and column of files of one base name.
THEOREM AcceptedNothingTwice == AnalyzeSpec => []NothingTwice
<1>1. AnalyzeInv => NothingTwice
  BY NothingTwiceHolds
<1>2. QED
  BY <1>1, AnalyzeInvariant, PTL

LEMMA SameLength ==
  ASSUME NEW S, NEW s \in Seq(S), NEW t \in Seq(S), DOMAIN s = DOMAIN t
  PROVE  Len(s) = Len(t)
<1>1. Len(s) \in Nat /\ DOMAIN s = 1 .. Len(s) /\ Len(t) \in Nat /\ DOMAIN t = 1 .. Len(t)
  BY LenProperties
<1>2. ASSUME NEW m \in Nat, NEW n \in Nat, 1 .. m = 1 .. n PROVE m <= n
  <2>1. m = 0 \/ m \in 1 .. m
    OBVIOUS
  <2>2. QED
    BY <1>2, <2>1
<1>3. Len(s) <= Len(t) /\ Len(t) <= Len(s)
  BY <1>1, <1>2
<1>4. Len(s) \in Nat /\ Len(t) \in Nat
  BY <1>1
<1>5. QED
  BY <1>3, <1>4

LEMMA GroupsKeptHolds ==
  ASSUME AnalyzeInv
  PROVE  GroupsKept
<1> SUFFICES ASSUME Accepted
             PROVE  /\ \A i, j \in DOMAIN groups : i < j => groups[i].group <= groups[j].group
                    /\ Len(groups) = Len(ServiceStmts)
                    /\ \A s \in DOMAIN ServiceStmts :
                         \E g \in DOMAIN groups :
                           /\ groups[g].group = ServiceStmts[s].group
                           /\ ToSet(groups[g].routes) = ToSet(ServiceStmts[s].routes)
                           /\ Len(groups[g].routes) = Len(ServiceStmts[s].routes)
  BY DEF GroupsKept
<1>1. Merged /\ GroupsSorted
  BY AcceptedFacts
<1>2. DOMAIN groups = DOMAIN ServiceStmts /\ groups = [n \in DOMAIN ServiceStmts |-> groups[n]]
  BY <1>1 DEF GroupsSorted
<1>3. Len(ServiceStmts) \in Nat /\ DOMAIN ServiceStmts = 1 .. Len(ServiceStmts)
  <2>1. ServiceStmts \in Seq(ToSet(ServiceStmts))
    BY <1>1, MergedServices
  <2>2. QED
    BY <2>1, LenProperties
<1>4. Len(groups) = Len(ServiceStmts)
  <2>1. groups \in [1 .. Len(ServiceStmts) -> {groups[n] : n \in DOMAIN groups}]
    BY <1>2, <1>3
  <2>2. groups \in Seq({groups[n] : n \in DOMAIN groups})
    BY <1>3, <2>1, SeqDef
  <2>3. Len(groups) \in Nat /\ DOMAIN groups = 1 .. Len(groups)
    BY <2>2, LenProperties
  <2>4. QED
    BY <1>2, <1>3, <2>3
<1>5. ASSUME NEW s \in DOMAIN ServiceStmts
      PROVE  \E g \in DOMAIN groups :
               /\ groups[g].group = ServiceStmts[s].group
               /\ ToSet(groups[g].routes) = ToSet(ServiceStmts[s].routes)
               /\ Len(groups[g].routes) = Len(ServiceStmts[s].routes)
  <2>1. PICK p \in Bijection(DOMAIN ServiceStmts, DOMAIN ServiceStmts) :
          \A n \in DOMAIN ServiceStmts : SameRoutes(groups[n], ServiceStmts[p[n]])
    BY <1>1 DEF GroupsSorted
  <2>2. PICK g \in DOMAIN groups : p[g] = s
    BY <1>2, <2>1 DEF Bijection, Surjection
  <2> DEFINE R == ServiceStmts[s].routes
             G == groups[g].routes
  <2>3. SameRoutes(groups[g], ServiceStmts[s])
    BY <1>2, <2>1, <2>2
  <2>4. G \in Seq(ToSet(R)) /\ groups[g].group = ServiceStmts[s].group
    BY <2>3 DEF SameRoutes
  <2>5. PICK q \in Bijection(DOMAIN R, DOMAIN R) :
          DOMAIN G = DOMAIN R /\ \A i \in DOMAIN R : G[i] = R[q[i]]
    BY <2>3 DEF SameRoutes
  <2>6. R \in Seq(ToSet(R))
    BY <1>1, MergedServices
  <2> HIDE DEF R, G
  <2>7. ToSet(G) = ToSet(R)
    <3>1. \A i \in DOMAIN R : q[i] \in DOMAIN R /\ \E k \in DOMAIN R : q[k] = i
      BY <2>5 DEF Bijection, Injection, Surjection
    <3>2. \A i \in DOMAIN R : G[i] \in ToSet(R) /\ R[i] \in ToSet(G)
      BY <2>5, <3>1 DEF ToSet
    <3>3. QED
      BY <2>5, <3>2 DEF ToSet
  <2>8. Len(G) = Len(R)
    <3>1. DOMAIN G = DOMAIN R
      BY <2>5
    <3>2. QED
      BY <2>4, <2>6, <3>1, SameLength
  <2>9. QED
    BY <2>4, <2>7, <2>8 DEF R, G
<1>6. QED
  BY <1>1, <1>2, <1>4, <1>5 DEF GroupsSorted

\* Sorting the spec loses and adds no group and no route, and orders the groups.
THEOREM SortKeepsGroups == AnalyzeSpec => []GroupsKept
<1>1. AnalyzeInv => GroupsKept
  BY GroupsKeptHolds
<1>2. QED
  BY <1>1, AnalyzeInvariant, PTL

(***************************************************************************)
(* The verdict                                                             *)
(***************************************************************************)
LEMMA ResolvesStep ==
  ASSUME PartsSmaller, AnalyzeInv, CheckedTypesResolve, [AnalyzeNext]_allVars
  PROVE  CheckedTypesResolve'
<1>1. CASE ResolveTypes
  <2>1. TypesConverted /\ NamesKnown /\ Merged
    BY <1>1, LoadedMerged
    DEF ResolveTypes, AnalyzeInv, Passed, Built, AfterDeclared, AfterFill
  <2>2. ASSUME NEW i \in DOMAIN types, NEW m \in ToSet(types[i].members), m.k = "define"
        PROVE  Defined(m.n)
    <3> DEFINE t == TypeStmt[i].dt
    <3>1. /\ i \in DOMAIN TypeStmt /\ DOMAIN types = DOMAIN TypeStmt
          /\ types[i].members = [j \in DOMAIN t.d |-> ToSpec[t.d[j]]]
      BY <2>1 DEF TypesConverted
    <3>2. t \in DataType /\ ~Unresolved(t, DeclaredNames)
      BY <2>1, <3>1, MergedTypes DEF NamesKnown
    <3> HIDE DEF t
    <3>3. PICK j \in DOMAIN t.d : m = ToSpec[t.d[j]]
      BY <3>1 DEF ToSet
    <3>4. m.n \in DeclaredNames
      BY <2>2, <3>2, <3>3, MemberResolves
    <3>5. PICK k \in DOMAIN TypeStmt : TypeStmt[k].name = m.n
      BY <3>4 DEF DeclaredNames
    <3>6. types[k].name = m.n
      BY <2>1, <3>5 DEF TypesConverted
    <3>7. QED
      BY <3>1, <3>5, <3>6 DEF Defined
  <2>3. problem' = problem
    BY <1>1, <2>2 DEF ResolveTypes
  <2>4. QED
    BY <2>3 DEF CheckedTypesResolve
<1>2. CASE AnalyzeNext /\ ~ResolveTypes
  <2>1. problem' = problem \/ problem' \in {"checkImport", "checkInfo", "checkType", "checkService",
                                             "checkDeclared", "fillTypes", "fillService"}
    BY <1>2
    DEF AnalyzeNext, analyzeVars, CheckImportStmt, CheckInfoStmt, CheckTypeStmt, CheckServiceStmt,
        CheckServiceCrash, CheckTypeDeclareContext, Check, FillTypes, FillService, SortSpec,
        AnalyzeStop, allVars
  <2>2. QED
    BY <2>1 DEF CheckedTypesResolve
<1>3. CASE UNCHANGED allVars
  BY <1>3 DEF allVars, analyzeVars, CheckedTypesResolve
<1>4. QED
  BY <1>1, <1>2, <1>3

\* Whatever checkTypeDeclareContext lets through, findDefinedType finds: "type not
\* defined" is never the error.
THEOREM CheckedTypesAreFound ==
  ASSUME PartsSmaller
  PROVE  AnalyzeSpec => []CheckedTypesResolve
<1>1. AnalyzeInit => CheckedTypesResolve
  BY DEF AnalyzeInit, AnalyzeStart, CheckedTypesResolve
<1>2. AnalyzeInv /\ CheckedTypesResolve /\ [AnalyzeNext]_allVars => CheckedTypesResolve'
  BY ResolvesStep
<1>3. QED
  BY <1>1, <1>2, AnalyzeInvariant, PTL DEF AnalyzeSpec

\* Files that ApiParse accepts pass every check.
LEMMA AcceptablePasses ==
  ASSUME Merged, Abstract!Acceptable(Abstract!Reachable)
  PROVE  /\ Loadable /\ ~body[Root].repeatsImport /\ ~body[Root].repeatsInfo
         /\ TypesPlaced /\ RoutesPlaced /\ NamesKnown /\ StructsSupported /\ RoutesKnown
<1> DEFINE declared == Abstract!Declared(Reachable)
           known == Abstract!TypeNames(Reachable)
           routes == Abstract!Routes(Reachable)
<1>1. /\ Abstract!FilesLoad(Reachable)
      /\ ~body[Root].repeatsImport /\ ~body[Root].repeatsInfo
      /\ Abstract!TypesFit(declared, known) /\ Abstract!RoutesFit(routes, known)
  BY AbstractReachable DEF Abstract!Acceptable
<1>2. DeclaredNames = known /\ \A i \in DOMAIN TypeStmt : TypeStmt[i] \in declared
  BY MergedTypes DEF ToSet
<1>3. \A i \in DOMAIN AllRoutes : AllRoutes[i] \in routes
  BY MergedRoutes DEF ToSet
<1> HIDE DEF declared, known, routes
<1>4. Loadable
  BY <1>1, AbstractFilesLoad
<1>5. TypesPlaced /\ NamesKnown /\ StructsSupported
  BY <1>1, <1>2, AbstractUnresolved, AbstractUnsupported
  DEF Abstract!TypesFit, TypesPlaced, NamesKnown, StructsSupported
<1>6. RoutesKnown
  BY <1>1, <1>2, <1>3, AbstractBaseType DEF Abstract!RoutesFit, RoutesKnown, Fits
<1>7. RoutesPlaced
  <2>1. \A i \in DOMAIN AllRoutes : AllRoutes[i].route.handler # NoHandler
    BY <1>1, <1>3 DEF Abstract!RoutesFit, NoHandler
  <2>2. ASSUME NEW i \in DOMAIN AllRoutes, NEW j \in DOMAIN AllRoutes
        PROVE  /\ AllRoutes[i].route.at # AllRoutes[j].route.at => HandlerNodes[i].text # HandlerNodes[j].text
               /\ AllRoutes[i].route.pos # AllRoutes[j].route.pos => PathNodes[i].text # PathNodes[j].text
    <3> DEFINE x == AllRoutes[i]
               y == AllRoutes[j]
    <3>1. /\ x.route.at # y.route.at =>
               <<x.svc.group, x.route.handler>> # <<y.svc.group, y.route.handler>>
          /\ x.route.pos # y.route.pos =>
               <<x.svc.prefix, x.route.path, x.route.req, x.route.resp, x.route.note>>
                 # <<y.svc.prefix, y.route.path, y.route.req, y.route.resp, y.route.note>>
      BY <1>1, <1>3, <2>2 DEF Abstract!RoutesFit
    <3>2. QED
      BY <3>1 DEF HandlerNodes, PathNodes
  <2>3. /\ DOMAIN HandlerNodes = DOMAIN AllRoutes /\ DOMAIN PathNodes = DOMAIN AllRoutes
        /\ \A i \in DOMAIN AllRoutes : /\ HandlerNodes[i].pos = AllRoutes[i].route.at
                                       /\ PathNodes[i].pos = AllRoutes[i].route.pos
    BY DEF HandlerNodes, PathNodes
  <2>4. ~Duplicated(HandlerNodes) /\ ~Duplicated(PathNodes)
    BY <2>2, <2>3 DEF Duplicated
  <2>5. QED
    BY <2>1, <2>4 DEF RoutesPlaced
<1>8. QED
  BY <1>1, <1>4, <1>5, <1>6, <1>7

\* Files that pass every check are those ApiParse accepts.
LEMMA PassesAcceptable ==
  ASSUME Merged,
         Loadable, ~body[Root].repeatsImport, ~body[Root].repeatsInfo,
         TypesPlaced, RoutesPlaced, NamesKnown, StructsSupported, RoutesKnown
  PROVE  Abstract!Acceptable(Abstract!Reachable)
<1> DEFINE declared == Abstract!Declared(Reachable)
           known == Abstract!TypeNames(Reachable)
           routes == Abstract!Routes(Reachable)
<1>1. DeclaredNames = known /\ \A t \in declared : \E i \in DOMAIN TypeStmt : TypeStmt[i] = t
  BY MergedTypes DEF ToSet
<1>2. \A x \in routes : \E i \in DOMAIN AllRoutes : AllRoutes[i] = x
  BY MergedRoutes DEF ToSet
<1>3. Abstract!FilesLoad(Reachable)
  BY AbstractFilesLoad
<1> HIDE DEF declared, known, routes
<1>4. Abstract!TypesFit(declared, known)
  <2>1. ASSUME NEW t \in declared
        PROVE  /\ t.dt.k = "struct" /\ ~Unresolved(t.dt, known)
               /\ \A i \in DOMAIN t.dt.d : ~Unsupported[t.dt.d[i]]
    BY <1>1 DEF NamesKnown, StructsSupported
  <2>2. ASSUME NEW t \in declared, NEW u \in declared, t.name = u.name PROVE t.pos = u.pos
    <3>1. PICK i \in DOMAIN TypeStmt, j \in DOMAIN TypeStmt : TypeStmt[i] = t /\ TypeStmt[j] = u
      BY <1>1
    <3>2. QED
      BY <2>2, <3>1 DEF TypesPlaced
  <2>3. QED
    BY <2>1, <2>2, AbstractUnresolved, AbstractUnsupported DEF Abstract!TypesFit
<1>5. Abstract!RoutesFit(routes, known)
  <2>1. ASSUME NEW x \in routes
        PROVE  /\ x.route.handler # 0
               /\ Fits(x.route.req) /\ Fits(x.route.resp)
               /\ x.route.req.form \notin {"list", "ptrlist"}
               /\ x.svc.sse => x.route.resp.form # "none"
    BY <1>2 DEF RoutesPlaced, RoutesKnown, NoHandler
  <2>2. ASSUME NEW x \in routes, NEW y \in routes
        PROVE  /\ x.svc.name = y.svc.name
               /\ x.route.at # y.route.at =>
                    <<x.svc.group, x.route.handler>> # <<y.svc.group, y.route.handler>>
               /\ x.route.pos # y.route.pos =>
                    <<x.svc.prefix, x.route.path, x.route.req, x.route.resp, x.route.note>>
                      # <<y.svc.prefix, y.route.path, y.route.req, y.route.resp, y.route.note>>
    <3>1. PICK i \in DOMAIN AllRoutes, j \in DOMAIN AllRoutes : AllRoutes[i] = x /\ AllRoutes[j] = y
      BY <1>2
    <3>2. /\ HandlerNodes[i].text = HandlerNodes[j].text => x.route.at = y.route.at
          /\ PathNodes[i].text = PathNodes[j].text => x.route.pos = y.route.pos
      BY <3>1 DEF RoutesPlaced, Duplicated, HandlerNodes, PathNodes
    <3>3. QED
      BY <3>1, <3>2 DEF HandlerNodes, PathNodes, RoutesKnown
  <2>3. QED
    BY <1>1, <2>1, <2>2, AbstractBaseType DEF Abstract!RoutesFit, Fits
<1>6. QED
  BY <1>3, <1>4, <1>5, AbstractReachable DEF Abstract!Acceptable, declared, known, routes

\* What ApiParse sees of a state.
Verdict == IF Accepted THEN "accepted" ELSE IF Over THEN "rejected" ELSE "pending"
Names == IF Accepted THEN [i \in DOMAIN types |-> types[i].name] ELSE << >>

LEMMA DecideStep ==
  ASSUME Verdict = "pending", disk' = disk, body' = body,
         \/ Verdict' = "accepted" /\ Abstract!Acceptable(Abstract!Reachable)
              /\ Abstract!NamesInOrder(Names', Abstract!Declarations(Abstract!Reachable))
         \/ Verdict' = "rejected" /\ ~Abstract!Acceptable(Abstract!Reachable) /\ Names' = << >>
  PROVE  Abstract!Decide
BY DEF Abstract!Decide, Verdict, Names

LEMMA StutterStep ==
  ASSUME Verdict' = Verdict, Names' = Names, disk' = disk, body' = body
  PROVE  UNCHANGED Abstract!absVars
BY DEF Abstract!absVars, Verdict, Names

\* A check either goes on or refuses files that ApiParse refuses.
LEMMA CheckDecides ==
  ASSUME AnalyzeInv, disk' = disk, body' = body, phase' = phase, phase = "loaded",
         stage \notin Ended, stage' \in {"rejected", "crashed"} \/ stage' \notin Ended,
         stage' \in {"rejected", "crashed"} => ~Abstract!Acceptable(Abstract!Reachable)
  PROVE  [Abstract!Decide]_(Abstract!absVars)
<1>1. Verdict = "pending" /\ Names = << >>
  BY DEF Verdict, Names, Accepted, Over, Ended
<1>2. CASE stage' \in {"rejected", "crashed"}
  <2>1. Verdict' = "rejected" /\ Names' = << >>
    BY <1>2 DEF Verdict, Names, Accepted, Over, Ended
  <2>2. QED
    BY <1>1, <1>2, <2>1, DecideStep
<1>3. CASE stage' \notin Ended
  <2>1. Verdict' = "pending" /\ Names' = << >>
    BY <1>3 DEF Verdict, Names, Accepted, Over, Ended
  <2>2. QED
    BY <1>1, <2>1, StutterStep
<1>4. QED
  BY <1>2, <1>3

\* Every step of Parse is the verdict or leaves it alone.
LEMMA ParseStep ==
  ASSUME PartsSmaller, AnalyzeInv, CheckedTypesResolve, [AnalyzeNext]_allVars
  PROVE  [Abstract!Decide]_(Abstract!absVars)
<1>1. disk' = disk /\ body' = body /\ CheckedTypesResolve' /\ MergeInv'
  BY StagesStep, ResolvesStep
<1>2. phase = "loaded" => Merged
  BY LoadedMerged DEF AnalyzeInv
<1>3. Abstract!Acceptable(Abstract!Reachable) => Loadable
  BY AbstractReachable, AbstractFilesLoad DEF Abstract!Acceptable
<1>4. CASE LoadNext /\ UNCHANGED analyzeVars
  <2>1. stage' = stage /\ types' = types
    BY <1>4 DEF analyzeVars
  <2>2. CASE phase \in Terminal
    <3>1. phase' = phase
      BY <1>4, <2>2, LoadEnds DEF vars
    <3>2. Verdict' = Verdict /\ Names' = Names
      BY <2>1, <3>1 DEF Verdict, Names, Accepted, Over
    <3>3. QED
      BY <1>1, <3>2, StutterStep
  <2>3. CASE phase \notin Terminal
    <3>1. stage = "checkImport"
      BY <2>3 DEF AnalyzeInv, Terminal
    <3>2. Verdict = "pending" /\ Names = << >> /\ Names' = << >>
      BY <2>1, <2>3, <3>1 DEF Verdict, Names, Accepted, Over, Ended, Terminal
    <3>3. CASE phase' \in {"failed", "exited", "panicked"}
      <4>1. ~Loadable
        <5>1. ~Loadable'
          BY <1>1, <3>3 DEF MergeInv, FailuresJustified
        <5>2. Loadable' = Loadable
          BY <1>1, DiskFrame DEF Loadable
        <5>3. QED
          BY <5>1, <5>2
      <4>2. Verdict' = "rejected"
        BY <2>1, <3>1, <3>3 DEF Verdict, Accepted, Over
      <4>3. QED
        BY <1>1, <1>3, <3>2, <4>1, <4>2, DecideStep
    <3>4. CASE phase' \notin {"failed", "exited", "panicked"}
      <4>1. Verdict' = "pending"
        BY <2>1, <3>1, <3>4 DEF Verdict, Accepted, Over, Ended
      <4>2. QED
        BY <1>1, <3>2, <4>1, StutterStep
    <3>5. QED
      BY <3>3, <3>4
  <2>4. QED
    BY <2>2, <2>3
<1>5. ASSUME phase = "loaded", phase' = phase, stage \notin Ended,
             stage' \in {"rejected", "crashed"} \/ stage' \notin Ended,
             stage' \in {"rejected", "crashed"} => ~Abstract!Acceptable(Abstract!Reachable)
      PROVE  [Abstract!Decide]_(Abstract!absVars)
  BY <1>1, <1>5, CheckDecides
<1>6. CASE CheckImportStmt \/ CheckInfoStmt
  BY <1>5, <1>6 DEF CheckImportStmt, CheckInfoStmt, Check, Ended, vars, Abstract!Acceptable
<1>7. CASE CheckTypeStmt
  <2> DEFINE nodes == [i \in DOMAIN TypeStmt |-> [text |-> TypeStmt[i].name, pos |-> TypeStmt[i].pos]]
  <2>1. /\ phase = "loaded" /\ phase' = phase /\ stage = "checkType"
        /\ (stage' = "rejected" /\ Duplicated(nodes)) \/ stage' = "checkService"
    BY <1>7 DEF CheckTypeStmt, Check, vars
  <2>2. Duplicated(nodes) => ~TypesPlaced
    BY DEF Duplicated, TypesPlaced
  <2> HIDE DEF nodes
  <2>3. QED
    BY <1>2, <1>5, <2>1, <2>2, AcceptablePasses DEF Ended
<1>8. CASE CheckServiceStmt \/ CheckServiceCrash
  <2>1. /\ phase = "loaded" /\ phase' = phase /\ stage = "checkService"
        /\ (stage' \in {"rejected", "crashed"} /\ ~RoutesPlaced) \/ stage' = "checkDeclared"
    BY <1>8 DEF CheckServiceStmt, CheckServiceCrash, Check, RoutesPlaced, vars
  <2>2. QED
    BY <1>2, <1>5, <2>1, AcceptablePasses DEF Ended
<1>9. CASE CheckTypeDeclareContext
  <2>1. /\ phase = "loaded" /\ phase' = phase /\ stage = "checkDeclared"
        /\ (stage' = "rejected" /\ ~NamesKnown) \/ stage' = "fillTypes"
    BY <1>9 DEF CheckTypeDeclareContext, Check, NamesKnown, vars
  <2>2. QED
    BY <1>2, <1>5, <2>1, AcceptablePasses DEF Ended
<1>10. CASE FillTypes
  <2>1. /\ phase = "loaded" /\ phase' = phase /\ stage = "fillTypes"
        /\ (stage' = "rejected" /\ ~StructsSupported) \/ stage' = "resolveTypes"
    BY <1>10 DEF FillTypes, StructsSupported, vars
  <2>2. QED
    BY <1>2, <1>5, <2>1, AcceptablePasses DEF Ended
<1>11. CASE ResolveTypes
  <2>1. /\ phase = "loaded" /\ phase' = phase /\ stage = "resolveTypes"
        /\ (stage' = "rejected" /\ problem' = "notDefined") \/ stage' = "fillService"
    BY <1>11 DEF ResolveTypes, vars
  <2>2. stage' = "fillService"
    BY <1>1, <2>1 DEF CheckedTypesResolve
  <2>3. QED
    BY <1>5, <2>1, <2>2 DEF Ended
<1>12. CASE FillService
  <2>1. /\ phase = "loaded" /\ phase' = phase /\ stage = "fillService"
        /\ \/ /\ stage' = "rejected"
              /\ NamesDiffer \/ \E i \in DOMAIN AllRoutes : BadRoute(AllRoutes[i].svc, AllRoutes[i].route)
           \/ stage' = "sort"
    BY <1>12 DEF FillService, vars
  <2>2. TypesNamed
    BY <2>1 DEF AnalyzeInv, Built
  <2>3. stage' = "rejected" => ~RoutesKnown
    BY <2>1, <2>2, BadRouteKnown DEF NamesDiffer, RoutesKnown
  <2>4. QED
    BY <1>2, <1>5, <2>1, <2>3, AcceptablePasses DEF Ended
<1>13. CASE SortSpec
  <2>1. /\ phase = "loaded" /\ stage = "sort" /\ stage' = "parsed" /\ types' = ByName(types)
    BY <1>13 DEF SortSpec
  <2>2. Merged /\ Loadable /\ TypesNamed
    BY <2>1, LoadedMerged DEF AnalyzeInv, Built
  <2>3. /\ ~body[Root].repeatsImport /\ ~body[Root].repeatsInfo
        /\ TypesPlaced /\ RoutesPlaced /\ NamesKnown /\ StructsSupported /\ RoutesKnown
    BY <2>1 DEF AnalyzeInv, Passed, AfterImport, AfterInfo, AfterType, AfterService, AfterDeclared,
       AfterFill, AfterResolve, AfterRoutes
  <2>4. Abstract!Acceptable(Abstract!Reachable)
    BY <2>2, <2>3, PassesAcceptable
  <2>5. Names' = [n \in DOMAIN ByName(types) |-> ByName(types)[n].name]
    BY <2>1 DEF Names, Accepted
  <2>6. Abstract!NamesInOrder(Names', Abstract!Declarations(Abstract!Reachable))
    BY <2>2, <2>5, TypesInOrder, AbstractReachable
  <2>7. Verdict = "pending" /\ Verdict' = "accepted"
    BY <2>1 DEF Verdict, Accepted, Over, Ended
  <2>8. QED
    BY <1>1, <2>4, <2>6, <2>7, DecideStep
<1>14. CASE AnalyzeStop \/ UNCHANGED allVars
  <2>1. stage' = stage /\ types' = types /\ phase' = phase
    BY <1>14 DEF AnalyzeStop, allVars, vars, analyzeVars
  <2>2. Verdict' = Verdict /\ Names' = Names
    BY <2>1 DEF Verdict, Names, Accepted, Over
  <2>3. QED
    BY <1>1, <2>2, StutterStep
<1>15. QED
  BY <1>4, <1>6, <1>7, <1>8, <1>9, <1>10, <1>11, <1>12, <1>13, <1>14 DEF AnalyzeNext

\* Parse gives one verdict and the right one: its stack, its merging and its passes
\* accept exactly the files that ApiParse accepts, and the types of the spec are
\* the declarations of those files, each of them once and in order.
THEOREM ParseGivesTheVerdict ==
  ASSUME PartsSmaller
  PROVE  AnalyzeSpec => Abstract!Safely
<1>1. AnalyzeInit => Abstract!AbsInit
  BY DEF AnalyzeInit, AnalyzeStart, Init, Abstract!AbsInit, Accepted, Over, Ended
<1>2. AnalyzeInv /\ CheckedTypesResolve /\ [AnalyzeNext]_allVars
        => [Abstract!Decide]_(Abstract!absVars)
  BY ParseStep
<1>3. AnalyzeSpec => []CheckedTypesResolve
  BY CheckedTypesAreFound
<1>4. QED
  BY <1>1, <1>2, <1>3, AnalyzeInvariant, PTL DEF AnalyzeSpec, Abstract!Safely

(***************************************************************************)
(* What the types of an accepted spec refer to                             *)
(***************************************************************************)
\* What ResolveTypes makes of a member.
Resolved(m) == IF m.k = "define" THEN [m EXCEPT !.d = FindDefinedType(m.n).members] ELSE m

\* No member of a type refers to an undeclared name, however deep inside.
MembersWhole ==
  \A i \in DOMAIN types : \A j \in DOMAIN types[i].members :
    ~Dangling(types[i].members[j], DeclaredNames)
WholeInv == stage \in AfterResolve => MembersWhole

\* findDefinedType finds a type that is there.
LEMMA DefinedIsFound ==
  ASSUME DOMAIN types \subseteq Nat, NEW n, Defined(n)
  PROVE  \E i \in DOMAIN types : FindDefinedType(n) = types[i]
<1> DEFINE Named == {i \in DOMAIN types : types[i].name = n}
           First(i) == /\ types[i].name = n
                       /\ \A j \in DOMAIN types : types[j].name = n => i <= j
<1>1. \E i \in Named : \A j \in Named : i <= j
  <2>1. Named \subseteq Nat /\ Named # {}
    BY DEF Defined
  <2> HIDE DEF Named
  <2>2. QED
    BY <2>1, LeastNumber
<1>2. \E i \in DOMAIN types : First(i)
  BY <1>1
<1>3. FindDefinedType(n) = types[CHOOSE i \in DOMAIN types : First(i)]
  BY DEF FindDefinedType
<1> HIDE DEF First
<1>4. QED
  BY <1>2, <1>3

\* A member of a converted type, resolved, refers to declared names only.
LEMMA ResolvedWhole ==
  ASSUME PartsSmaller, Merged, TypesConverted, NamesKnown,
         NEW i \in DOMAIN types, NEW j \in DOMAIN types[i].members
  PROVE  ~Dangling(Resolved(types[i].members[j]), DeclaredNames)
<1>1. PICK f : Dangles(f, DeclaredNames)
  BY DanglesExists
<1>2. DOMAIN types = DOMAIN TypeStmt /\ DOMAIN types \subseteq Nat
  <2>1. DOMAIN TypeStmt \subseteq Nat
    BY MergedTypes, LenProperties
  <2>2. QED
    BY <2>1 DEF TypesConverted
<1>3. ASSUME NEW a \in DOMAIN types, NEW b \in DOMAIN types[a].members
      PROVE  \E u \in DataType : /\ types[a].members[b] = ToSpec[u] /\ ~f[ToSpec[u]]
                                 /\ ~Unresolved(u, DeclaredNames)
  <2> DEFINE t == TypeStmt[a].dt
  <2>1. types[a].members = [c \in DOMAIN t.d |-> ToSpec[t.d[c]]]
    BY <1>2 DEF TypesConverted
  <2>2. t \in DataType /\ ~Unresolved(t, DeclaredNames)
    BY <1>2, MergedTypes DEF NamesKnown
  <2> HIDE DEF t
  <2>3. b \in DOMAIN t.d /\ types[a].members[b] = ToSpec[t.d[b]]
    BY <2>1
  <2>4. t.d[b] \in DataType /\ ~Unresolved(t.d[b], DeclaredNames)
    BY <2>2, <2>3, PartsType, UnresolvedUnfolds
  <2>5. QED
    BY <1>1, <2>3, <2>4, NothingDangles
<1>4. PICK u \in DataType : /\ types[i].members[j] = ToSpec[u] /\ ~f[ToSpec[u]]
                            /\ ~Unresolved(u, DeclaredNames)
  BY <1>3
<1>5. CASE ToSpec[u].k # "define"
  <2>1. Resolved(ToSpec[u]) = ToSpec[u]
    BY <1>5 DEF Resolved
  <2>2. QED
    BY <1>1, <1>4, <2>1 DEF Dangles
<1>6. CASE ToSpec[u].k = "define"
  <2> DEFINE found == FindDefinedType(u.n)
             m == Resolved(ToSpec[u])
  <2>1. u.k = "base" /\ ~IsBaseType(u.n) /\ ToSpec[u] = [k |-> "define", n |-> u.n, d |-> << >>]
    BY <1>6, SpecParts
  <2>2. u.n \in DeclaredNames
    BY <1>4, <2>1, UnresolvedUnfolds
  <2>3. Defined(u.n)
    BY <1>2, <2>2 DEF DeclaredNames, Defined, TypesConverted
  <2>4. PICK a \in DOMAIN types : found = types[a]
    BY <1>2, <2>3, DefinedIsFound
  <2>5. m.n = u.n /\ m.d = types[a].members
    BY <2>1, <2>4 DEF Resolved
  <2>6. \A b \in DOMAIN m.d : ~f[m.d[b]]
    BY <1>3, <2>5
  <2> HIDE DEF m, found
  <2>7. ~Unnamed(m, DeclaredNames)
    BY <2>2, <2>5 DEF Unnamed
  <2>8. ~Dangling(m, DeclaredNames)
    BY <1>1, <2>6, <2>7 DEF Dangles
  <2>9. QED
    BY <1>4, <2>8 DEF m
<1>7. QED
  BY <1>5, <1>6

LEMMA WholeStep ==
  ASSUME PartsSmaller, AnalyzeInv, WholeInv, [AnalyzeNext]_allVars
  PROVE  WholeInv'
<1>1. body' = body
  BY StagesStep
<1>2. content' = content => DeclaredNames' = DeclaredNames
  BY <1>1, StatementsKept
<1>3. ASSUME UNCHANGED <<stage, types>>, stage = "checkImport" \/ content' = content PROVE WholeInv'
  <2>1. CASE stage = "checkImport"
    BY <1>3, <2>1 DEF WholeInv, AfterResolve, AfterRoutes
  <2>2. CASE content' = content
    BY <1>2, <1>3, <2>2 DEF WholeInv, MembersWhole
  <2>3. QED
    BY <1>3, <2>1, <2>2
<1>4. CASE LoadNext /\ UNCHANGED analyzeVars
  <2>1. stage = "checkImport" \/ content' = content
    BY <1>4, LoadEnds DEF AnalyzeInv, vars, Terminal
  <2>2. QED
    BY <1>3, <1>4, <2>1 DEF analyzeVars
<1>5. CASE CheckImportStmt \/ CheckInfoStmt \/ CheckTypeStmt \/ CheckServiceStmt \/ CheckServiceCrash
           \/ CheckTypeDeclareContext \/ FillTypes
  BY <1>5
  DEF CheckImportStmt, CheckInfoStmt, CheckTypeStmt, CheckServiceStmt, CheckServiceCrash,
      CheckTypeDeclareContext, Check, FillTypes, WholeInv, AfterResolve, AfterRoutes
<1>6. CASE ResolveTypes
  <2>1. CASE stage' = "rejected"
    BY <2>1 DEF WholeInv, AfterResolve, AfterRoutes
  <2>2. CASE stage' = "fillService"
    <3>1. TypesConverted /\ NamesKnown /\ Merged
      BY <1>6, LoadedMerged
      DEF ResolveTypes, AnalyzeInv, Passed, Built, AfterDeclared, AfterFill
    <3>2. /\ content' = content
          /\ types' = [i \in DOMAIN types |->
                        [types[i] EXCEPT !.members = [j \in DOMAIN @ |-> Resolved(@[j])]]]
      BY <1>6, <2>2 DEF ResolveTypes, Resolved, vars
    <3>3. ASSUME NEW i \in DOMAIN types
          PROVE  /\ DOMAIN types'[i].members = DOMAIN types[i].members
                 /\ \A j \in DOMAIN types[i].members :
                      types'[i].members[j] = Resolved(types[i].members[j])
      <4>1. \E x : types[i] = [name |-> TypeStmt[i].name, members |-> x]
        BY <3>1, <3>3 DEF TypesConverted
      <4>2. types'[i] = [types[i] EXCEPT !.members = [j \in DOMAIN @ |-> Resolved(@[j])]]
        BY <3>2
      <4>3. QED
        BY <4>1, <4>2
    <3>4. DOMAIN types' = DOMAIN types
      BY <3>2
    <3>5. \A i \in DOMAIN types : \A j \in DOMAIN types[i].members :
            ~Dangling(Resolved(types[i].members[j]), DeclaredNames)
      BY <3>1, ResolvedWhole
    <3>6. ASSUME NEW i \in DOMAIN types', NEW j \in DOMAIN types'[i].members
          PROVE  ~Dangling(types'[i].members[j], DeclaredNames')
      <4>1. i \in DOMAIN types
        BY <3>4, <3>6
      <4>2. j \in DOMAIN types[i].members /\ types'[i].members[j] = Resolved(types[i].members[j])
        BY <3>3, <3>6, <4>1
      <4>3. ~Dangling(Resolved(types[i].members[j]), DeclaredNames)
        BY <3>5, <4>1, <4>2
      <4>4. QED
        BY <1>2, <3>2, <4>2, <4>3
    <3>7. MembersWhole'
      BY <3>6 DEF MembersWhole
    <3>8. QED
      BY <3>7 DEF WholeInv
  <2>3. QED
    BY <1>6, <2>1, <2>2 DEF ResolveTypes
<1>7. CASE FillService
  <2>1. stage = "fillService" /\ content' = content /\ types' = types
    BY <1>7 DEF FillService, vars
  <2>2. MembersWhole'
    BY <1>2, <2>1 DEF WholeInv, MembersWhole, AfterResolve
  <2>3. QED
    BY <2>2 DEF WholeInv
<1>8. CASE SortSpec
  <2>1. phase = "loaded" /\ stage = "sort" /\ content' = content /\ types' = ByName(types)
    BY <1>8 DEF SortSpec, vars
  <2>2. Merged /\ TypesNamed
    BY <2>1, LoadedMerged DEF AnalyzeInv, Built
  <2>3. PICK p \in Bijection(DOMAIN TypeStmt, DOMAIN TypeStmt) :
          ByName(types) = [n \in DOMAIN TypeStmt |-> types[p[n]]]
    BY <2>2, TypesInOrder
  <2>4. DOMAIN types = DOMAIN TypeStmt /\ \A n \in DOMAIN TypeStmt : p[n] \in DOMAIN TypeStmt
    BY <2>2, <2>3 DEF TypesNamed, Bijection, Injection
  <2>5. \A n \in DOMAIN types' : p[n] \in DOMAIN types /\ types'[n] = types[p[n]]
    BY <2>1, <2>3, <2>4
  <2>6. MembersWhole
    BY <2>1 DEF WholeInv, AfterResolve, AfterRoutes
  <2>7. MembersWhole'
    BY <1>2, <2>1, <2>5, <2>6 DEF MembersWhole
  <2>8. QED
    BY <2>7 DEF WholeInv
<1>9. CASE AnalyzeStop \/ UNCHANGED allVars
  BY <1>3, <1>9 DEF AnalyzeStop, allVars, vars, analyzeVars
<1>10. QED
  BY <1>4, <1>5, <1>6, <1>7, <1>8, <1>9 DEF AnalyzeNext

LEMMA NoDanglingHolds ==
  ASSUME AnalyzeInv, WholeInv
  PROVE  NoDanglingReference
<1> SUFFICES ASSUME Accepted PROVE NoDanglingReference
  BY DEF NoDanglingReference
<1>1. TypesSorted /\ MembersWhole
  BY AcceptedFacts DEF WholeInv, AfterResolve, AfterRoutes, Accepted
<1>2. {types[k].name : k \in DOMAIN types} = DeclaredNames
  <2>1. PICK p \in Bijection(DOMAIN TypeStmt, DOMAIN TypeStmt) :
          /\ DOMAIN types = DOMAIN TypeStmt
          /\ \A n \in DOMAIN TypeStmt : types[n].name = TypeStmt[p[n]].name
    BY <1>1 DEF TypesSorted
  <2>2. /\ \A n \in DOMAIN TypeStmt : p[n] \in DOMAIN TypeStmt
        /\ \A i \in DOMAIN TypeStmt : \E n \in DOMAIN TypeStmt : p[n] = i
    BY DEF Bijection, Injection, Surjection
  <2>3. ASSUME NEW k \in DOMAIN types PROVE types[k].name \in DeclaredNames
    <3>1. p[k] \in DOMAIN TypeStmt /\ types[k].name = TypeStmt[p[k]].name
      BY <2>1, <2>2
    <3>2. QED
      BY <3>1 DEF DeclaredNames
  <2>4. ASSUME NEW i \in DOMAIN TypeStmt PROVE TypeStmt[i].name \in {types[k].name : k \in DOMAIN types}
    <3>1. PICK n \in DOMAIN TypeStmt : p[n] = i
      BY <2>2
    <3>2. types[n].name = TypeStmt[i].name
      BY <2>1, <3>1
    <3>3. QED
      BY <2>1, <3>2
  <2>5. QED
    BY <2>3, <2>4 DEF DeclaredNames
<1>3. QED
  BY <1>1, <1>2 DEF NoDanglingReference, MembersWhole

\* What the checks let through converts to a spec that lacks nothing: every name is
\* found when it is looked up, no group or route is lost, and generated code refers
\* to no type the spec does not have, however deep inside a member.
THEOREM AcceptedSpecIsWhole ==
  ASSUME PartsSmaller
  PROVE  AnalyzeSpec => []SpecIsWhole
<1>1. AnalyzeInit => WholeInv
  BY DEF AnalyzeInit, AnalyzeStart, WholeInv, AfterResolve, AfterRoutes
<1>2. AnalyzeInv /\ WholeInv /\ [AnalyzeNext]_allVars => WholeInv'
  BY WholeStep
<1>3. AnalyzeSpec => []WholeInv
  BY <1>1, <1>2, AnalyzeInvariant, PTL DEF AnalyzeSpec
<1>4. AnalyzeInv /\ WholeInv => NoDanglingReference
  BY NoDanglingHolds
<1>5. AnalyzeSpec => []CheckedTypesResolve
  BY CheckedTypesAreFound
<1>6. AnalyzeTypeOK /\ CheckedTypesResolve /\ GroupsKept /\ NoDanglingReference => SpecIsWhole
  BY DEF SpecIsWhole
<1>7. QED
  BY <1>3, <1>4, <1>5, <1>6, AnalyzeInvariant, AnalyzeTypes, SortKeepsGroups, PTL
=============================================================================
