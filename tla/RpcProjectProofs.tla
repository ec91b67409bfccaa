-------------------------- MODULE RpcProjectProofs --------------------------
(***************************************************************************)
(* ProtoImports returns what imports lead to, for any number of            *)
(* directories, files and proto paths, and whatever the files import; and  *)
(* what any number of runs of "rpc protoc" on one project keep, wherever   *)
(* the runs die and whatever the user edits in between.                    *)
(***************************************************************************)
EXTENDS RpcProject, SequenceTheorems, FiniteSetTheorems, TLAPS

(***************************************************************************)
(* Sequences and numbers                                                   *)
(***************************************************************************)
LEMMA ToSetTail ==
  ASSUME NEW S, NEW s \in Seq(S), s # <<>>
  PROVE  /\ Head(s) \in S /\ Tail(s) \in Seq(S)
         /\ ToSet(s) = {Head(s)} \cup ToSet(Tail(s))
<1>1. /\ Head(s) \in S /\ Tail(s) \in Seq(S) /\ Len(s) \in Nat \ {0}
      /\ Head(s) = s[1] /\ DOMAIN s = 1..Len(s)
      /\ DOMAIN Tail(s) = 1..Len(s) - 1
      /\ \A i \in 1..Len(s) - 1 : Tail(s)[i] = s[i + 1]
  BY HeadTailProperties, EmptySeq
<1>2. ASSUME NEW i \in DOMAIN s PROVE s[i] \in {Head(s)} \cup ToSet(Tail(s))
  <2>1. CASE i = 1
    BY <1>1, <2>1
  <2>2. CASE i # 1
    <3>1. i - 1 \in 1..Len(s) - 1 /\ (i - 1) + 1 = i
      BY <1>1, <2>2
    <3>2. s[i] = Tail(s)[i - 1]
      BY <1>1, <3>1
    <3>3. QED
      BY <1>1, <3>1, <3>2 DEF ToSet
  <2>3. QED
    BY <2>1, <2>2
<1>3. ASSUME NEW i \in DOMAIN Tail(s) PROVE Tail(s)[i] \in ToSet(s)
  <2>1. i + 1 \in DOMAIN s /\ Tail(s)[i] = s[i + 1]
    BY <1>1
  <2>2. QED
    BY <2>1 DEF ToSet
<1>4. Head(s) \in ToSet(s)
  BY <1>1 DEF ToSet
<1>5. QED
  BY <1>1, <1>2, <1>3, <1>4 DEF ToSet

LEMMA ToSetAppend ==
  ASSUME NEW S, NEW s \in Seq(S), NEW e \in S
  PROVE  /\ ToSet(Append(s, e)) = ToSet(s) \cup {e}
         /\ (IsInjective(s) /\ e \notin ToSet(s) => IsInjective(Append(s, e)))
<1>1. /\ Len(s) \in Nat /\ DOMAIN s = 1..Len(s)
      /\ DOMAIN Append(s, e) = 1..Len(s) + 1
      /\ \A i \in 1..Len(s) : Append(s, e)[i] = s[i]
      /\ Append(s, e)[Len(s) + 1] = e
  BY AppendProperties
<1>2. \A i \in DOMAIN Append(s, e) : i \in DOMAIN s \/ i = Len(s) + 1
  BY <1>1
<1>3. DOMAIN s \subseteq DOMAIN Append(s, e) /\ Len(s) + 1 \in DOMAIN Append(s, e)
  BY <1>1
<1>4. ToSet(Append(s, e)) = ToSet(s) \cup {e}
  BY <1>1, <1>2, <1>3 DEF ToSet
<1>5. ASSUME IsInjective(s), e \notin ToSet(s) PROVE IsInjective(Append(s, e))
  BY <1>1, <1>2, <1>5 DEF IsInjective, ToSet
<1>6. QED
  BY <1>4, <1>5

\* The initial intervals of the numbers of a set are finite, so that one of them is
\* contained in all others.
LEMMA LeastOfSome ==
  ASSUME NEW S, S \subseteq Nat, S # {}
  PROVE  \E i \in S : \A j \in S : i <= j
<1> DEFINE Up == {1..i : i \in S}
           Below == StrictSubsetOrdering(Nat)
<1>1. IsWellFoundedOn(Below, FiniteSubsetsOf(Nat))
  BY FS_StrictSubsetOrderingWellFounded
<1>2. Up \subseteq FiniteSubsetsOf(Nat) /\ Up # {}
  <2>1. \A i \in S : 1..i \in SUBSET Nat /\ IsFiniteSet(1..i)
    BY FS_Interval
  <2>2. QED
    BY <2>1 DEF FiniteSubsetsOf
<1>3. PICK u \in Up : \A v \in Up : ~(<<v, u>> \in Below)
  <2> HIDE DEF Up, Below
  <2>1. QED
    BY <1>1, <1>2, WFMin
<1>4. PICK i \in S : u = 1..i
  BY <1>3
<1>5. ASSUME NEW j \in S, j < i PROVE FALSE
  <2>1. 1..j \subseteq 1..i /\ i \in 1..i /\ i \notin 1..j
    BY <1>5
  <2>2. <<1..j, u>> \in Below
    BY <1>4, <2>1 DEF StrictSubsetOrdering
  <2>3. QED
    BY <1>3, <2>2
<1>6. QED
  BY <1>5

(***************************************************************************)
(* The inductive invariant                                                 *)
(***************************************************************************)
Call == [file : ProtoFile, left : Seq(Name)]

WalkTypeOK ==
  /\ layout \in Layouts
  /\ stack \in Seq(Call)
  /\ opening \in ProtoFile \cup {Nothing}
  /\ visited \subseteq ProtoFile
  /\ result \in Seq(ProtoFile)
  /\ status \in {"idle", "walking", "done", "error"}

\* No call is left when the walk has ended.
EndedEmpty == status # "walking" => stack = <<>> /\ opening = Nothing

ResultOnce == IsInjective(result) /\ Src \notin ToSet(result)

VisitedIsResult == status # "idle" => visited = {Src} \cup ToSet(result)

\* Whatever set of files is closed under imports, the walk stays in it.
VisitedIsLeast == \A S : Src \in S /\ Closed(S) => visited \subseteq S

\* What a call has left its file imports, and what else its file imports is visited.
CallOK(c) ==
  /\ c.file \in visited
  /\ ToSet(c.left) \subseteq ToSet(On[layout].imports[c.file])
  /\ \A n \in ToSet(On[layout].imports[c.file]) :
       Found(n) => n \in ToSet(c.left) \/ lookupProtoFile(n) \in visited

CallsOK == \A c \in ToSet(stack) : CallOK(c)

\* A file of which an import has not been visited waits for a call, or is in one.
VisitedInCall ==
  status \in {"walking", "done"} =>
    \A f \in visited : \/ f = opening
                       \/ ImportsOf(f) \subseteq visited
                       \/ \E c \in ToSet(stack) : c.file = f

OpeningVisited == opening # Nothing => opening \in visited

FailedIsBroken == status = "error" => visited \cap On[layout].broken # {}

WalkInv ==
  /\ WalkTypeOK /\ EndedEmpty /\ ResultOnce /\ VisitedIsResult /\ VisitedIsLeast
  /\ CallsOK /\ VisitedInCall /\ OpeningVisited /\ FailedIsBroken

(***************************************************************************)
(* Lemmas                                                                  *)
(***************************************************************************)
\* A file that is found is a file of one of the directories.
LEMMA LookupType ==
  ASSUME NEW n \in Name, Found(n)
  PROVE  lookupProtoFile(n) \in ProtoFile
<1>1. /\ Holds(n) \subseteq Nat /\ Holds(n) # {}
      /\ Holds(n) \subseteq DOMAIN ProtoPaths /\ \A i \in DOMAIN ProtoPaths : ProtoPaths[i] \in Dir
  BY PathsAssumption DEF Holds, Found
<1>2. \E i \in Holds(n) : \A j \in Holds(n) : i <= j
  <2> HIDE DEF Holds
  <2>1. QED
    BY <1>1, LeastOfSome
<1>3. (CHOOSE i \in Holds(n) : \A j \in Holds(n) : i <= j) \in Holds(n)
  BY <1>2
<1>4. QED
  BY <1>1, <1>3 DEF lookupProtoFile, ProtoFile

LEMMA SrcType == Src \in ProtoFile /\ Nothing \notin ProtoFile
BY PathsAssumption DEF Src, ProtoFile, Nothing

LEMMA ImportsType ==
  ASSUME NEW l \in Layouts, NEW f \in ProtoFile
  PROVE  On[l].imports[f] \in Seq(Name)
BY LayoutsAssumption

\* The first call goes on with what it has left.
LEMMA RestShape ==
  ASSUME WalkTypeOK, InLoop
  PROVE  /\ Frame \in Call /\ Frame \in ToSet(stack)
         /\ Head(Frame.left) \in Name
         /\ ToSet(Frame.left) = {Head(Frame.left)} \cup ToSet(Tail(Frame.left))
         /\ Rest \in Seq(Call)
         /\ LET rest == [file |-> Frame.file, left |-> Tail(Frame.left)] IN
            /\ rest \in ToSet(Rest)
            /\ ToSet(Rest) \subseteq {rest} \cup ToSet(stack)
            /\ ToSet(stack) \subseteq {Frame} \cup ToSet(Rest)
<1>1. /\ 1 \in DOMAIN stack /\ Frame = stack[1] /\ stack[1] \in Call
      /\ DOMAIN stack = 1..Len(stack) /\ Len(stack) \in Nat
      /\ \A i \in DOMAIN stack : stack[i] \in Call
  <2>1. stack \in Seq(Call) /\ stack # <<>>
    BY DEF WalkTypeOK, InLoop
  <2>2. Len(stack) \in Nat \ {0} /\ DOMAIN stack = 1..Len(stack) /\ \A i \in 1..Len(stack) : stack[i] \in Call
    BY <2>1, EmptySeq
  <2>3. Head(stack) = stack[1]
    BY <2>1
  <2>4. QED
    BY <2>2, <2>3 DEF Frame
<1>2. /\ Head(Frame.left) \in Name /\ Tail(Frame.left) \in Seq(Name)
      /\ ToSet(Frame.left) = {Head(Frame.left)} \cup ToSet(Tail(Frame.left))
  <2>1. Frame.left \in Seq(Name) /\ Frame.left # <<>>
    BY <1>1 DEF InLoop, Call
  <2>2. QED
    BY <2>1, ToSetTail
<1>3. /\ DOMAIN Rest = DOMAIN stack
      /\ Rest[1] = [stack[1] EXCEPT !.left = Tail(stack[1].left)]
      /\ \A i \in DOMAIN stack : i # 1 => Rest[i] = stack[i]
  BY <1>1 DEF Rest, WalkTypeOK
<1>4. Rest[1] = [file |-> Frame.file, left |-> Tail(Frame.left)] /\ Rest[1] \in Call
  BY <1>1, <1>2, <1>3 DEF Call
<1>5. \A i \in 1..Len(stack) : Rest[i] \in Call
  BY <1>1, <1>3, <1>4
<1>6. Rest \in Seq(Call)
  <2>1. Rest = [i \in 1..Len(stack) |-> Rest[i]]
    BY <1>1 DEF Rest, WalkTypeOK
  <2>2. Rest \in [1..Len(stack) -> Call]
    BY <1>5, <2>1
  <2>3. QED
    BY <1>1, <2>2, SeqDef
<1>7. Frame \in ToSet(stack) /\ Rest[1] \in ToSet(Rest)
  BY <1>1, <1>3 DEF ToSet
<1>8. ASSUME NEW i \in DOMAIN stack PROVE stack[i] = Frame \/ stack[i] \in ToSet(Rest)
  BY <1>1, <1>3 DEF ToSet
<1>9. ASSUME NEW i \in DOMAIN Rest PROVE Rest[i] = Rest[1] \/ Rest[i] \in ToSet(stack)
  BY <1>3 DEF ToSet
<1>10. ToSet(stack) \subseteq {Frame} \cup ToSet(Rest)
  BY <1>8 DEF ToSet
<1>11. ToSet(Rest) \subseteq {Rest[1]} \cup ToSet(stack)
  BY <1>9 DEF ToSet
<1>12. QED
  BY <1>1, <1>2, <1>4, <1>6, <1>7, <1>10, <1>11

\* What is on the disk decides what is found, and what is closed.
LEMMA SameLayout ==
  ASSUME UNCHANGED layout
  PROVE  /\ \A n : (Found(n))' <=> Found(n)
         /\ \A n : (lookupProtoFile(n))' = lookupProtoFile(n)
         /\ \A f : (ImportsOf(f))' = ImportsOf(f)
         /\ \A S : (Closed(S))' <=> Closed(S)
<1>1. \A n : (Holds(n))' = Holds(n)
  BY DEF Holds
<1>2. \A n : (Found(n))' <=> Found(n)
  BY <1>1 DEF Found
<1>3. \A n : (lookupProtoFile(n))' = lookupProtoFile(n)
  BY <1>1 DEF lookupProtoFile
<1>4. \A f : (ImportsOf(f))' = ImportsOf(f)
  BY <1>2, <1>3 DEF ImportsOf
<1>5. QED
  BY <1>2, <1>3, <1>4 DEF Closed

\* A call stays in order when files are visited.
LEMMA CallKept ==
  ASSUME UNCHANGED layout, visited \subseteq visited', NEW c, CallOK(c)
  PROVE  CallOK(c)'
BY SameLayout DEF CallOK

\* A new call has all imports of its file before it.
LEMMA ReadStep ==
  ASSUME WalkInv, Read
  PROVE  WalkInv'
<1>1. PICK c : c = [file |-> opening, left |-> On[layout].imports[opening]]
  OBVIOUS
<1>2. /\ WalkTypeOK /\ opening \in ProtoFile /\ opening \in visited /\ c \in Call
      /\ stack \in Seq(Call) /\ stack' = <<c>> \o stack /\ status = "walking"
  <2>1. opening \in ProtoFile /\ layout \in Layouts
    BY DEF WalkInv, WalkTypeOK, Read
  <2>2. On[layout].imports[opening] \in Seq(Name)
    BY <2>1, ImportsType
  <2>3. QED
    BY <1>1, <2>1, <2>2 DEF WalkInv, WalkTypeOK, OpeningVisited, EndedEmpty, Read, Call
<1>3. stack' \in Seq(Call) /\ ToSet(stack') = {c} \cup ToSet(stack)
  <2>1. /\ <<c>> \in Seq(Call) /\ Len(<<c>>) = 1 /\ <<c>>[1] = c
        /\ Len(stack) \in Nat /\ DOMAIN stack = 1..Len(stack)
    BY <1>2
  <2>2. /\ stack' \in Seq(Call) /\ DOMAIN stack' = 1..Len(stack) + 1
        /\ stack'[1] = c /\ \A i \in 1..Len(stack) : stack'[i + 1] = stack[i]
    BY <1>2, <2>1, ConcatProperties
  <2>3. \A i \in DOMAIN stack' : i = 1 \/ (i - 1 \in DOMAIN stack /\ stack'[i] = stack[i - 1])
    BY <2>1, <2>2
  <2>4. \A i \in DOMAIN stack : i + 1 \in DOMAIN stack' /\ stack'[i + 1] = stack[i]
    BY <2>1, <2>2
  <2>5. 1 \in DOMAIN stack'
    BY <2>1, <2>2
  <2>6. c \in ToSet(stack')
    BY <2>2, <2>5 DEF ToSet
  <2>7. ASSUME NEW i \in DOMAIN stack' PROVE stack'[i] \in {c} \cup ToSet(stack)
    BY <2>2, <2>3 DEF ToSet
  <2>8. ASSUME NEW i \in DOMAIN stack PROVE stack[i] \in ToSet(stack')
    BY <2>4 DEF ToSet
  <2>9. ToSet(stack') \subseteq {c} \cup ToSet(stack) /\ ToSet(stack) \subseteq ToSet(stack')
    BY <2>7, <2>8 DEF ToSet
  <2>10. QED
    BY <2>2, <2>6, <2>9
<1>4. UNCHANGED layout /\ UNCHANGED <<visited, result, status>> /\ opening' = Nothing
  BY DEF Read
<1>5. WalkTypeOK'
  BY <1>2, <1>3, <1>4 DEF WalkTypeOK
<1>6. CallsOK'
  <2>1. CallOK(c)'
    BY <1>1, <1>2, <1>4 DEF CallOK
  <2>2. \A d \in ToSet(stack) : CallOK(d)'
    BY <1>4, CallKept DEF WalkInv, CallsOK
  <2>3. QED
    BY <1>3, <2>1, <2>2 DEF CallsOK
<1>7. VisitedInCall'
  <2>1. c.file = opening
    BY <1>1
  <2>2. \A f \in visited : ImportsOf(f) \subseteq visited \/ \E d \in ToSet(stack') : d.file = f
    BY <1>2, <1>3, <2>1 DEF WalkInv, VisitedInCall
  <2>3. QED
    BY <1>4, <2>2, SameLayout DEF VisitedInCall
<1>8. QED
  BY <1>2, <1>4, <1>5, <1>6, <1>7, SameLayout
     DEF WalkInv, EndedEmpty, ResultOnce, VisitedIsResult, VisitedIsLeast, OpeningVisited, FailedIsBroken

\* An import that is skipped is not found, or has been visited.
LEMMA SkipStep ==
  ASSUME WalkInv, SkipImport
  PROVE  WalkInv'
<1>1. WalkTypeOK /\ InLoop /\ CallsOK /\ stack' = Rest /\ status = "walking"
  BY DEF WalkInv, SkipImport, InLoop, EndedEmpty
<1>2. PICK rest : rest = [file |-> Frame.file, left |-> Tail(Frame.left)]
  OBVIOUS
<1>3. /\ stack' \in Seq(Call) /\ Frame \in ToSet(stack)
      /\ rest \in ToSet(stack') /\ ToSet(stack') \subseteq {rest} \cup ToSet(stack)
      /\ ToSet(stack) \subseteq {Frame} \cup ToSet(stack')
      /\ ToSet(Frame.left) = {Head(Frame.left)} \cup ToSet(rest.left)
      /\ rest.file = Frame.file
  BY <1>1, <1>2, RestShape
<1>4. UNCHANGED layout /\ UNCHANGED <<visited, result, status, opening>>
  BY DEF SkipImport
<1>5. Found(Head(Frame.left)) => lookupProtoFile(Head(Frame.left)) \in visited
  BY DEF SkipImport, New
<1>6. CallsOK'
  <2>1. CallOK(Frame)
    BY <1>1, <1>3 DEF CallsOK
  <2>2. CallOK(rest)
    BY <1>3, <1>5, <2>1 DEF CallOK
  <2>3. CallOK(rest)'
    BY <1>4, <2>2, CallKept
  <2>4. \A d \in ToSet(stack) : CallOK(d)'
    BY <1>1, <1>4, CallKept DEF CallsOK
  <2>5. QED
    BY <1>3, <2>3, <2>4 DEF CallsOK
<1>7. VisitedInCall'
  <2>1. ASSUME NEW f \in visited, NEW d \in ToSet(stack), d.file = f
        PROVE  \E e \in ToSet(stack') : e.file = f
    BY <1>3, <2>1
  <2>2. \A f \in visited : \/ f = opening \/ ImportsOf(f) \subseteq visited
                           \/ \E e \in ToSet(stack') : e.file = f
    BY <1>1, <2>1 DEF WalkInv, VisitedInCall
  <2>3. QED
    BY <1>4, <2>2, SameLayout DEF VisitedInCall
<1>8. QED
  BY <1>1, <1>3, <1>4, <1>6, <1>7, SameLayout
     DEF WalkInv, WalkTypeOK, EndedEmpty, ResultOnce, VisitedIsResult, VisitedIsLeast, OpeningVisited, FailedIsBroken

\* An import that is followed is new, and lies in every closed set.
LEMMA DescendStep ==
  ASSUME WalkInv, Descend
  PROVE  WalkInv'
<1>1. WalkTypeOK /\ InLoop /\ CallsOK /\ stack' = Rest /\ status = "walking" /\ layout \in Layouts
  BY DEF WalkInv, Descend, InLoop, EndedEmpty, WalkTypeOK
<1>2. PICK rest : rest = [file |-> Frame.file, left |-> Tail(Frame.left)]
  OBVIOUS
<1>3. /\ stack' \in Seq(Call) /\ Frame \in ToSet(stack) /\ Head(Frame.left) \in Name
      /\ rest \in ToSet(stack') /\ ToSet(stack') \subseteq {rest} \cup ToSet(stack)
      /\ ToSet(stack) \subseteq {Frame} \cup ToSet(stack')
      /\ ToSet(Frame.left) = {Head(Frame.left)} \cup ToSet(rest.left)
      /\ rest.file = Frame.file
  BY <1>1, <1>2, RestShape
<1>4. PICK g : g = lookupProtoFile(Head(Frame.left))
  OBVIOUS
<1>5. /\ UNCHANGED layout /\ UNCHANGED status /\ opening' = g /\ visited' = visited \cup {g}
      /\ result' = Append(result, g) /\ g \notin visited /\ Found(Head(Frame.left)) /\ opening = Nothing
  BY <1>4 DEF Descend, New, InLoop
<1>6. g \in ProtoFile
  BY <1>3, <1>4, <1>5, LookupType
<1>7. CallOK(Frame)
  BY <1>1, <1>3 DEF CallsOK
<1>8. WalkTypeOK' /\ ResultOnce' /\ VisitedIsResult'
  <2>1. /\ result' \in Seq(ProtoFile) /\ ToSet(result') = ToSet(result) \cup {g}
        /\ IsInjective(result) /\ g \notin ToSet(result) => IsInjective(result')
    BY <1>1, <1>5, <1>6, ToSetAppend, AppendProperties DEF WalkTypeOK
  <2>2. visited = {Src} \cup ToSet(result) /\ IsInjective(result) /\ Src \notin ToSet(result)
    BY <1>1 DEF WalkInv, VisitedIsResult, ResultOnce
  <2>3. g \notin ToSet(result) /\ g # Src
    BY <1>5, <2>2
  <2>4. IsInjective(result') /\ Src \notin ToSet(result') /\ visited' = {Src} \cup ToSet(result')
    BY <1>5, <2>1, <2>2, <2>3
  <2>5. WalkTypeOK'
    BY <1>1, <1>3, <1>5, <1>6, <2>1 DEF WalkTypeOK
  <2>6. QED
    BY <2>4, <2>5 DEF ResultOnce, VisitedIsResult, Src
<1>9. VisitedIsLeast'
  <2>1. ASSUME NEW S, Src \in S, Closed(S) PROVE visited' \subseteq S
    <3>1. visited \subseteq S /\ Frame.file \in S
      BY <1>7, <2>1 DEF WalkInv, VisitedIsLeast, CallOK
    <3>2. g \in ImportsOf(Frame.file)
      BY <1>3, <1>4, <1>5, <1>7 DEF CallOK, ImportsOf
    <3>3. QED
      BY <1>5, <2>1, <3>1, <3>2 DEF Closed
  <2>2. QED
    BY <1>5, <2>1, SameLayout DEF VisitedIsLeast, Src
<1>10. CallsOK'
  <2>1. CallOK(rest)'
    BY <1>3, <1>4, <1>5, <1>7, SameLayout DEF CallOK
  <2>2. \A d \in ToSet(stack) : CallOK(d)'
    BY <1>1, <1>5, CallKept DEF CallsOK
  <2>3. QED
    BY <1>3, <2>1, <2>2 DEF CallsOK
<1>11. VisitedInCall'
  <2>1. ASSUME NEW f \in visited, NEW d \in ToSet(stack), d.file = f
        PROVE  \E e \in ToSet(stack') : e.file = f
    BY <1>3, <2>1
  <2>2. \A f \in visited : f # opening
    BY <1>1, <1>5, SrcType DEF WalkTypeOK
  <2>3. \A f \in visited : ImportsOf(f) \subseteq visited \/ \E e \in ToSet(stack') : e.file = f
    BY <1>1, <2>1, <2>2 DEF WalkInv, VisitedInCall
  <2>4. QED
    BY <1>5, <2>3, SameLayout DEF VisitedInCall
<1>12. EndedEmpty' /\ OpeningVisited' /\ FailedIsBroken'
  BY <1>1, <1>5 DEF EndedEmpty, OpeningVisited, FailedIsBroken
<1>13. QED
  BY <1>8, <1>9, <1>10, <1>11, <1>12 DEF WalkInv

\* A call that returns has left no import, so that its file waits for none.
LEMMA ReturnStep ==
  ASSUME WalkInv, Return
  PROVE  WalkInv'
<1>1. /\ WalkTypeOK /\ CallsOK /\ status = "walking" /\ opening = Nothing
      /\ stack \in Seq(Call) /\ stack # <<>> /\ Frame.left = <<>>
      /\ stack' = Tail(stack) /\ status' = IF Len(stack) = 1 THEN "done" ELSE status
      /\ UNCHANGED layout /\ UNCHANGED <<opening, visited, result>>
  BY DEF WalkInv, WalkTypeOK, EndedEmpty, Return
<1>2. /\ Frame \in Call /\ stack' \in Seq(Call)
      /\ ToSet(stack) = {Frame} \cup ToSet(stack')
  BY <1>1, ToSetTail DEF Frame
<1>3. status' = "done" => stack' = <<>>
  <2>1. Len(stack) = 1 => Len(Tail(stack)) = 0
    BY <1>1, HeadTailProperties
  <2>2. Len(stack') = 0 => stack' = <<>>
    BY <1>2, EmptySeq
  <2>3. QED
    BY <1>1, <2>1, <2>2
<1>4. CallsOK'
  <2>1. \A d \in ToSet(stack) : CallOK(d)'
    BY <1>1, CallKept DEF CallsOK
  <2>2. QED
    BY <1>2, <2>1 DEF CallsOK
<1>5. ImportsOf(Frame.file) \subseteq visited
  <2>1. CallOK(Frame) /\ ToSet(Frame.left) = {}
    BY <1>1, <1>2 DEF CallsOK, ToSet
  <2>2. QED
    BY <2>1 DEF CallOK, ImportsOf
<1>6. VisitedInCall'
  <2>1. ASSUME NEW f \in visited, NEW d \in ToSet(stack), d.file = f
        PROVE  ImportsOf(f) \subseteq visited \/ \E e \in ToSet(stack') : e.file = f
    BY <1>2, <1>5, <2>1
  <2>2. \A f \in visited : \/ f = opening \/ ImportsOf(f) \subseteq visited
                           \/ \E e \in ToSet(stack') : e.file = f
    BY <1>1, <2>1 DEF WalkInv, VisitedInCall
  <2>3. QED
    BY <1>1, <2>2, SameLayout DEF VisitedInCall
<1>7. status' \in {"walking", "done"}
  BY <1>1
<1>8. WalkTypeOK'
  BY <1>1, <1>2, <1>7 DEF WalkTypeOK
<1>9. QED
  BY <1>1, <1>3, <1>4, <1>6, <1>7, <1>8, SameLayout
     DEF WalkInv, EndedEmpty, ResultOnce, VisitedIsResult, VisitedIsLeast, OpeningVisited, FailedIsBroken

\* The file that cannot be parsed has been visited.
LEMMA FailStep ==
  ASSUME WalkInv, Fail
  PROVE  WalkInv'
<1>1. /\ WalkTypeOK /\ opening \in visited /\ opening \in On[layout].broken
      /\ status = "walking" /\ status' = "error" /\ stack' = <<>> /\ opening' = Nothing
      /\ UNCHANGED layout /\ UNCHANGED <<visited, result>>
  BY DEF WalkInv, OpeningVisited, EndedEmpty, Fail
<1>2. WalkTypeOK' /\ ToSet(stack') = {}
  BY <1>1 DEF WalkTypeOK, ToSet
<1>3. QED
  BY <1>1, <1>2, SameLayout
     DEF WalkInv, EndedEmpty, ResultOnce, VisitedIsResult, VisitedIsLeast, CallsOK, VisitedInCall,
         OpeningVisited, FailedIsBroken

\* A walk begins with the source.
LEMMA ResolveStep ==
  ASSUME NEW l \in Layouts, ResolveImports(l)
  PROVE  WalkInv'
<1>1. /\ layout' = l /\ stack' = <<>> /\ opening' = Src /\ visited' = {Src} /\ result' = <<>>
      /\ status' = "walking"
  BY DEF ResolveImports
<1>2. ToSet(stack') = {} /\ ToSet(result') = {} /\ IsInjective(result')
  BY <1>1 DEF ToSet, IsInjective
<1>3. WalkTypeOK'
  BY <1>1, SrcType DEF WalkTypeOK
<1>4. QED
  BY <1>1, <1>2, <1>3
     DEF WalkInv, EndedEmpty, ResultOnce, VisitedIsResult, VisitedIsLeast, CallsOK, VisitedInCall,
         OpeningVisited, FailedIsBroken, Src

LEMMA NothingVisited ==
  ASSUME layout \in Layouts, stack = <<>>, opening = Nothing, visited = {}, result = <<>>, status = "idle"
  PROVE  WalkInv
<1>1. ToSet(stack) = {} /\ ToSet(result) = {} /\ IsInjective(result)
  BY DEF ToSet, IsInjective
<1>2. WalkTypeOK
  BY DEF WalkTypeOK
<1>3. QED
  BY <1>1, <1>2
     DEF WalkInv, EndedEmpty, ResultOnce, VisitedIsResult, VisitedIsLeast, CallsOK, VisitedInCall,
         OpeningVisited, FailedIsBroken

LEMMA ForgetStep ==
  ASSUME WalkInv, Forget
  PROVE  WalkInv'
<1>1. /\ layout' \in Layouts /\ stack' = <<>> /\ opening' = Nothing /\ visited' = {} /\ result' = <<>>
      /\ status' = "idle"
  BY DEF WalkInv, WalkTypeOK, Forget
<1>2. ToSet(stack') = {} /\ ToSet(result') = {} /\ IsInjective(result')
  BY <1>1 DEF ToSet, IsInjective
<1>3. WalkTypeOK'
  BY <1>1 DEF WalkTypeOK
<1>4. QED
  BY <1>1, <1>2, <1>3
     DEF WalkInv, EndedEmpty, ResultOnce, VisitedIsResult, VisitedIsLeast, CallsOK, VisitedInCall,
         OpeningVisited, FailedIsBroken

LEMMA WalkStep == WalkInv /\ [WalkNext]_walkVars => WalkInv'
<1> SUFFICES ASSUME WalkInv, [WalkNext]_walkVars PROVE WalkInv'
  OBVIOUS
<1>1. CASE \E l \in Layouts : ResolveImports(l)
  BY <1>1, ResolveStep
<1>2. CASE Read
  BY <1>2, ReadStep
<1>3. CASE Fail
  BY <1>3, FailStep
<1>4. CASE SkipImport
  BY <1>4, SkipStep
<1>5. CASE Descend
  BY <1>5, DescendStep
<1>6. CASE Return
  BY <1>6, ReturnStep
<1>7. CASE Forget
  BY <1>7, ForgetStep
<1>8. CASE UNCHANGED walkVars
  <2>1. UNCHANGED layout /\ UNCHANGED <<stack, opening, visited, result, status>>
    BY <1>8 DEF walkVars
  <2>2. \A c : CallOK(c) <=> CallOK(c)'
    BY <2>1, SameLayout DEF CallOK
  <2>3. WalkTypeOK' /\ CallsOK'
    BY <2>1, <2>2 DEF WalkInv, WalkTypeOK, CallsOK
  <2>4. QED
    BY <2>1, <2>3, SameLayout
       DEF WalkInv, EndedEmpty, ResultOnce, VisitedIsResult, VisitedIsLeast, VisitedInCall,
           OpeningVisited, FailedIsBroken
<1>9. QED
  BY <1>1, <1>2, <1>3, <1>4, <1>5, <1>6, <1>7, <1>8 DEF WalkNext, collectImports

\* When no call is left, no visited file waits for one.
LEMMA WalkInvReaches == WalkInv => ImportsReached
<1> SUFFICES ASSUME WalkInv PROVE ImportsReached
  OBVIOUS
<1>1. ASSUME status = "done" PROVE Closed(visited)
  <2>1. ToSet(stack) = {} /\ \A f \in visited : f # opening
    BY <1>1, SrcType DEF WalkInv, WalkTypeOK, EndedEmpty, ToSet
  <2>2. QED
    BY <1>1, <2>1 DEF WalkInv, VisitedInCall, Closed
<1>2. status = "done" => visited = {Src} \cup ToSet(result)
  BY DEF WalkInv, VisitedIsResult
<1>3. QED
  BY <1>1, <1>2 DEF WalkInv, ResultOnce, VisitedIsLeast, FailedIsBroken, ImportsReached

(***************************************************************************)
(* Theorems                                                                *)
(***************************************************************************)
\* The walk keeps its invariant: collectImports never leaves a file behind whose
\* imports it has neither visited nor still before it.
THEOREM WalkInvariant == WalkSpec => []WalkInv
<1>1. WalkInit => WalkInv
  BY NothingVisited DEF WalkInit
<1>2. QED
  BY <1>1, WalkStep, PTL DEF WalkSpec

\* Whatever cycles and diamonds the imports form and whatever directories shadow
\* others, ResolveImports returns exactly the files that imports lead to from the
\* source, each once, and fails only for a file that cannot be parsed.
THEOREM ResolvesImports == WalkSpec => []ImportsReached
BY WalkInvariant, WalkInvReaches, PTL

(***************************************************************************)
(* Sequences of sequences                                                  *)
(***************************************************************************)
\* Induction over the numbers, for a set of them.
LEMMA SetInduction ==
    ASSUME NEW S, 0 \in S, \A n \in Nat : n \in S => n + 1 \in S
    PROVE  Nat \subseteq S
<1> SUFFICES ASSUME Nat \ S # {} PROVE FALSE
  OBVIOUS
<1>1. PICK m \in Nat \ S : \A n \in Nat \ S : m <= n
  BY LeastOfSome
<1>2. m # 0 /\ m - 1 \in Nat /\ (m - 1) + 1 = m
  BY <1>1
<1>3. m - 1 \in S
  BY <1>1, <1>2
<1> QED
  BY <1>1, <1>2, <1>3

LEMMA ToSetConcat ==
    ASSUME NEW S, NEW s \in Seq(S), NEW t \in Seq(S)
    PROVE  s \o t \in Seq(S) /\ ToSet(s \o t) = ToSet(s) \cup ToSet(t)
<1>1. /\ s \o t \in Seq(S) /\ Len(s) \in Nat /\ Len(t) \in Nat
      /\ DOMAIN s = 1 .. Len(s) /\ DOMAIN t = 1 .. Len(t)
      /\ DOMAIN (s \o t) = 1 .. Len(s) + Len(t)
      /\ \A i \in 1 .. Len(s) : (s \o t)[i] = s[i]
      /\ \A i \in 1 .. Len(t) : (s \o t)[Len(s) + i] = t[i]
  BY ConcatProperties, LenProperties
<1>2. ASSUME NEW i \in DOMAIN (s \o t) PROVE (s \o t)[i] \in ToSet(s) \cup ToSet(t)
  <2>1. CASE i \in DOMAIN s
    BY <1>1, <2>1 DEF ToSet
  <2>2. CASE i \notin DOMAIN s
    <3>1. i - Len(s) \in 1 .. Len(t) /\ Len(s) + (i - Len(s)) = i
      BY <1>1, <2>2
    <3>2. (s \o t)[i] = t[i - Len(s)]
      BY <1>1, <3>1
    <3> QED
      BY <1>1, <3>1, <3>2 DEF ToSet
  <2> QED
    BY <2>1, <2>2
<1>3. ASSUME NEW i \in DOMAIN s PROVE s[i] \in ToSet(s \o t)
  <2>1. i \in DOMAIN (s \o t) /\ (s \o t)[i] = s[i]
    BY <1>1
  <2> QED
    BY <2>1 DEF ToSet
<1>4. ASSUME NEW i \in DOMAIN t PROVE t[i] \in ToSet(s \o t)
  <2>1. Len(s) + i \in DOMAIN (s \o t) /\ (s \o t)[Len(s) + i] = t[i]
    BY <1>1
  <2> QED
    BY <2>1 DEF ToSet
<1> QED
  BY <1>1, <1>2, <1>3, <1>4 DEF ToSet

\* What the function in FlattenSeq has at i, if it has f at the numbers below i.
Flattened(ss, f, i) == IF i = 1 THEN ss[i] ELSE f[i - 1] \o ss[i]

\* There is such a function.
LEMMA FlattenExists ==
    ASSUME NEW S, NEW ss \in Seq(Seq(S)), NEW n \in Nat
    PROVE  \E f : f = [i \in 1 .. n |-> Flattened(ss, f, i)]
<1> DEFINE Some == {m \in Nat : \E f : f = [i \in 1 .. m |-> Flattened(ss, f, i)]}
<1>1. 0 \in Some
  <2> DEFINE f == [i \in 1 .. 0 |-> {}]
  <2>1. f = [i \in 1 .. 0 |-> Flattened(ss, f, i)]
    OBVIOUS
  <2> QED
    BY <2>1
<1>2. ASSUME NEW m \in Nat, m \in Some PROVE m + 1 \in Some
  <2>1. PICK f : f = [i \in 1 .. m |-> Flattened(ss, f, i)]
    BY <1>2
  <2> DEFINE g == [i \in 1 .. m + 1 |-> IF i = m + 1 THEN Flattened(ss, f, i) ELSE f[i]]
  <2>2. \A i \in 1 .. m : i \in 1 .. m + 1 /\ i # m + 1 /\ g[i] = f[i]
    OBVIOUS
  <2>3. ASSUME NEW i \in 1 .. m + 1 PROVE g[i] = Flattened(ss, g, i)
    <3>1. i # 1 => i - 1 \in 1 .. m
      OBVIOUS
    <3>2. Flattened(ss, g, i) = Flattened(ss, f, i)
      BY <2>2, <3>1 DEF Flattened
    <3>3. CASE i = m + 1
      BY <3>2, <3>3
    <3>4. CASE i # m + 1
      <4>1. i \in 1 .. m
        BY <3>4
      <4> QED
        BY <2>1, <2>2, <3>2, <4>1
    <3> QED
      BY <3>3, <3>4
  <2>4. g = [i \in 1 .. m + 1 |-> Flattened(ss, g, i)]
    BY <2>3
  <2> HIDE DEF g
  <2> QED
    BY <2>4
<1>3. Nat \subseteq Some
  <2> HIDE DEF Some
  <2> QED
    BY <1>1, <1>2, SetInduction
<1> QED
  BY <1>3

\* FlattenSeq puts the elements of all sequences into one.
LEMMA FlattenFacts ==
    ASSUME NEW S, NEW ss \in Seq(Seq(S))
    PROVE  /\ FlattenSeq(ss) \in Seq(S)
           /\ ToSet(FlattenSeq(ss)) = UNION {ToSet(ss[i]) : i \in DOMAIN ss}
<1> DEFINE n == Len(ss)
           f == CHOOSE g : g = [i \in 1 .. n |-> Flattened(ss, g, i)]
<1>1. n \in Nat /\ DOMAIN ss = 1 .. n /\ \A i \in 1 .. n : ss[i] \in Seq(S)
  BY LenProperties, ElementOfSeq
<1>2. CASE n = 0
  <2>1. FlattenSeq(ss) = ss /\ ss = <<>>
    BY <1>2, EmptySeq DEF FlattenSeq
  <2> QED
    BY <2>1, EmptySeq DEF ToSet
<1>3. CASE n # 0
  <2>1. f = [i \in 1 .. n |-> Flattened(ss, f, i)]
    BY <1>1, FlattenExists
  <2>2. FlattenSeq(ss) = f[n]
    BY <1>3 DEF FlattenSeq, Flattened
  <2> DEFINE Upto(i) == UNION {ToSet(ss[j]) : j \in 1 .. i}
             Good == {m \in Nat : m \in 1 .. n => f[m] \in Seq(S) /\ ToSet(f[m]) = Upto(m)}
  <2> HIDE DEF f
  <2>3. 0 \in Good
    OBVIOUS
  <2>4. ASSUME NEW m \in Nat, m \in Good, m + 1 \in 1 .. n
        PROVE  f[m + 1] \in Seq(S) /\ ToSet(f[m + 1]) = Upto(m + 1)
    <3>1. f[m + 1] = Flattened(ss, f, m + 1)
      BY <2>1, <2>4
    <3>2. CASE m = 0
      <4>1. f[1] = ss[1] /\ 1 .. 1 = {1}
        BY <3>1, <3>2 DEF Flattened
      <4> QED
        BY <1>1, <2>4, <3>2, <4>1
    <3>3. CASE m # 0
      <4>1. m \in 1 .. n /\ (m + 1) - 1 = m /\ m + 1 # 1
        BY <1>1, <2>4, <3>3
      <4>2. f[m] \in Seq(S) /\ ToSet(f[m]) = Upto(m) /\ f[m + 1] = f[m] \o ss[m + 1]
        BY <2>4, <3>1, <4>1 DEF Flattened
      <4>3. ss[m + 1] \in Seq(S)
        BY <1>1, <2>4
      <4>4. f[m + 1] \in Seq(S) /\ ToSet(f[m + 1]) = ToSet(f[m]) \cup ToSet(ss[m + 1])
        BY <4>2, <4>3, ToSetConcat
      <4>5. \A j : j \in 1 .. m + 1 <=> j \in 1 .. m \/ j = m + 1
        BY <4>1
      <4>6. Upto(m + 1) = Upto(m) \cup ToSet(ss[m + 1])
        BY <4>5
      <4> QED
        BY <4>2, <4>4, <4>6
    <3> QED
      BY <3>2, <3>3
  <2> HIDE DEF Upto
  <2>5. ASSUME NEW m \in Nat, m \in Good PROVE m + 1 \in Good
    <3>1. CASE m + 1 \in 1 .. n
      BY <2>4, <2>5, <3>1
    <3>2. CASE m + 1 \notin 1 .. n
      BY <3>2
    <3> QED
      BY <3>1, <3>2
  <2>6. n \in Good /\ n \in 1 .. n
    <3> HIDE DEF Good
    <3>1. n \in Good
      BY <1>1, <2>3, <2>5, SetInduction
    <3> QED
      BY <1>1, <1>3, <3>1
  <2>7. f[n] \in Seq(S) /\ ToSet(f[n]) = Upto(n)
    BY <2>6
  <2> QED
    BY <1>1, <2>2, <2>7 DEF Upto
<1> QED
  BY <1>2, <1>3

(***************************************************************************)
(* The inductive invariant                                                 *)
(***************************************************************************)
Services(p) == ToSet(Says[p].services)

\* What a run does, without the order in which it does it.
EtcJob(p) == Job(Etc(p), Blank, FALSE)
MainJob(p, pb) == Job(MainFile(p), MainText(p, pb), FALSE)
LogicJob(p, imported, pb, multiple, s, r) == Job(LogicFile(multiple, s, r), LogicText(p, imported, pb, r), FALSE)
ServerJob(p, imported, pb, multiple, s) == Job(ServerFile(multiple, s), ServerText(p, imported, pb, s), TRUE)
CallJob(p, imported, pb, multiple, s) == Job(CallFile(multiple, s), CallText(p, imported, pb, multiple, s), TRUE)

ServiceJobs(p, imported, pb, multiple, client, s) ==
    {ServerJob(p, imported, pb, multiple, s)}
      \cup {LogicJob(p, imported, pb, multiple, s, r) : r \in ToSet(s.rpcs)}
      \cup If(client, {CallJob(p, imported, pb, multiple, s)})

JobsOf(p, imported, pb, multiple, client) ==
    {Job(Config, Blank, FALSE), Job(Svc, Blank, FALSE), MainJob(p, pb)}
      \cup (UNION {ServiceJobs(p, imported, pb, multiple, client, s) : s \in Services(p)})

\* What the run has to do: the file of GenEtc before it knows the directory of
\* the pb files, and the others then.
Due == IF run.pb = NoDir THEN {EtcJob(run.proto)}
       ELSE JobsOf(run.proto, run.imported, run.pb, run.multiple, run.client)

Stages == {"imports", "job", "protoc", "opened", "done"}

RunShape ==
    run # Idle =>
      /\ run \in [at : Stages, proto : Proto, multiple : BOOLEAN, client : BOOLEAN,
                  imported : Seq(ProtoFile), pb : ToSet(GoDirs) \cup {NoDir}, todo : Seq(Due)]
      /\ Accepts(run.proto, run.multiple)
      /\ run.at \in {"imports", "protoc"} => run.pb = NoDir /\ run.todo = <<>>
      /\ run.at = "done" => run.pb # NoDir /\ run.todo = <<>>
      /\ run.at = "opened" => run.todo # <<>> /\ files[Current.file] = Empty

\* A file holds what some run so far has written, what the user has, or nothing.
FileShape(f) ==
    \/ files[f] \in {Absent, Empty}
    \/ files[f] = Edited /\ f \in Kept
    \/ files[f] = Generated(files[f].text, files[f].in) /\ files[f].in \in 1 .. runs

FilesShape == files = [f \in RpcFile |-> files[f]] /\ \A f \in RpcFile : FileShape(f)

\* A run has a number.
Numbered == run # Idle => runs \in 1 .. runs

\* A file is empty only while it is written, or because a run died then.
EmptyTorn == \A f \in RpcFile :
    files[f] = Empty => f \in torn \/ (run.at = "opened" /\ f = Current.file)

\* What the run has not done yet is due; of what it has done, the files are there,
\* those that are rewritten with the text they should have.
Delivered ==
    run # Idle /\ run.pb # NoDir =>
      \A j \in Due : \/ j \in ToSet(run.todo)
                     \/ j.rewrite /\ files[j.file] = Generated(j.text, runs)
                     \/ ~j.rewrite /\ files[j.file] # Absent

\* What the run itself has written is what was due.
FreshIsDue ==
    run # Idle =>
      \A f \in RpcFile : Fresh(f) =>
        \/ f = Etc(run.proto)
        \/ run.pb # NoDir /\ \E j \in Due : j.file = f /\ j.text = files[f].text

MainPb == [dir |-> Says[run.proto].dir, name |-> Main, grpc |-> TRUE]

\* The pb file of the source is there when the run looks for it.
PbThere == run.at = "protoc" => MainPb \in pbs

\* PbIsFresh, from when the directory is known.
PbChosen ==
    run # Idle /\ run.pb # NoDir =>
      \/ run.pb = Says[run.proto].dir
      \/ \E i, j \in DOMAIN GoDirs :
           /\ i < j /\ GoDirs[i] = run.pb /\ GoDirs[j] = Says[run.proto].dir
           /\ \/ \E f \in ToSet(run.imported) : On[layout].goPackage[f] = run.pb /\ f[2] \in Alike
              \/ \E b \in pbs \ {PbFile(f) : f \in ToSet(run.imported)} : b.dir = run.pb /\ b.name \in Alike

ProjectInv ==
    /\ proto \in Proto \cup {NoProto}
    /\ runs \in Nat
    /\ RunShape /\ Numbered /\ FilesShape /\ EmptyTorn /\ Delivered /\ FreshIsDue /\ PbThere /\ PbChosen

(***************************************************************************)
(* The jobs of a plan                                                      *)
(***************************************************************************)
\* What an operation makes of each element of a sequence.
LEMMA EachFacts ==
    ASSUME NEW S, NEW T, NEW t \in Seq(T), NEW F \in [ToSet(t) -> S],
           NEW u, u = [i \in DOMAIN t |-> F[t[i]]]
    PROVE  u \in Seq(S) /\ ToSet(u) = {F[x] : x \in ToSet(t)}
<1>1. Len(t) \in Nat /\ DOMAIN t = 1 .. Len(t)
  BY LenProperties
<1>2. \A i \in DOMAIN t : t[i] \in ToSet(t) /\ F[t[i]] \in S
  BY DEF ToSet
<1>3. [i \in 1 .. Len(t) |-> F[t[i]]] \in Seq(S)
  BY <1>1, <1>2, IsASeq
<1> QED
  BY <1>1, <1>3 DEF ToSet

LEMMA OnceFacts ==
    ASSUME NEW f, NEW text
    PROVE  /\ Once(f, text) \in Seq({Job(f, text, FALSE)})
           /\ ToSet(Once(f, text)) = {Job(f, text, FALSE)}
<1> DEFINE j == Job(f, text, FALSE)
<1>1. Once(f, text) = <<j>>
  BY DEF Once
<1> HIDE DEF j
<1>2. <<j>> \in Seq({j}) /\ DOMAIN <<j>> = {1} /\ <<j>>[1] = j
  OBVIOUS
<1>3. ToSet(<<j>>) = {j}
  BY <1>2 DEF ToSet
<1> QED
  BY <1>1, <1>2, <1>3 DEF j

LEMMA SubSeqType ==
    ASSUME NEW S, NEW T, S \subseteq T, NEW s \in Seq(S)
    PROVE  s \in Seq(T)
<1>1. Len(s) \in Nat /\ s = [i \in 1 .. Len(s) |-> s[i]] /\ \A i \in 1 .. Len(s) : s[i] \in T
  BY LenProperties, ElementOfSeq
<1> QED
  BY <1>1, IsASeq

\* A sequence has its own elements.
LEMMA SeqOfOwn ==
    ASSUME NEW S, NEW s \in Seq(S)
    PROVE  s \in Seq(ToSet(s)) /\ ToSet(s) \subseteq S
<1>1. Len(s) \in Nat /\ DOMAIN s = 1 .. Len(s) /\ s = [i \in 1 .. Len(s) |-> s[i]]
      /\ \A i \in 1 .. Len(s) : s[i] \in S
  BY LenProperties, ElementOfSeq
<1>2. \A i \in 1 .. Len(s) : s[i] \in ToSet(s)
  BY <1>1 DEF ToSet
<1>3. [i \in 1 .. Len(s) |-> s[i]] \in Seq(ToSet(s))
  BY <1>1, <1>2, IsASeq
<1>4. ToSet(s) \subseteq S
  BY <1>1 DEF ToSet
<1> QED
  BY <1>1, <1>3, <1>4

\* The plan has exactly these jobs.
LEMMA PlanFacts ==
    ASSUME NEW p \in Proto, NEW imported, NEW pb, NEW multiple \in BOOLEAN, NEW client \in BOOLEAN
    PROVE  /\ Plan(p, imported, pb, multiple, client) \in Seq(JobsOf(p, imported, pb, multiple, client))
           /\ ToSet(Plan(p, imported, pb, multiple, client)) = JobsOf(p, imported, pb, multiple, client)
<1> DEFINE Srv(s) == ServerJob(p, imported, pb, multiple, s)
           Lgc(s, r) == LogicJob(p, imported, pb, multiple, s, r)
           Cll(s) == CallJob(p, imported, pb, multiple, s)
           services == Says[p].services
           All == JobsOf(p, imported, pb, multiple, client)
<1>1. services \in Seq(Service) /\ services \in Seq(Services(p)) /\ Services(p) \subseteq Service
  BY ProtoAssumption, SeqOfOwn DEF Services
<1> DEFINE servers == [i \in DOMAIN services |-> Srv(services[i])]
           calls == [i \in DOMAIN services |-> Cll(services[i])]
           logicOf(s) == [i \in DOMAIN s.rpcs |-> Lgc(s, s.rpcs[i])]
           logics == [i \in DOMAIN services |-> logicOf(services[i])]
           Servers == {Srv(s) : s \in Services(p)}
           Calls == {Cll(s) : s \in Services(p)}
           LogicsOf(s) == {Lgc(s, r) : r \in ToSet(s.rpcs)}
           Logics == UNION {LogicsOf(s) : s \in Services(p)}
<1>2. servers \in Seq(Servers) /\ ToSet(servers) = Servers
  <2> DEFINE F == [s \in Services(p) |-> Srv(s)]
  <2>1. F \in [Services(p) -> Servers]
    OBVIOUS
  <2>2. \A i \in DOMAIN services : services[i] \in Services(p) /\ F[services[i]] = Srv(services[i])
    BY DEF ToSet, Services
  <2>3. [i \in DOMAIN services |-> F[services[i]]] = servers
    BY <2>2
  <2>4. {F[x] : x \in Services(p)} = Servers
    OBVIOUS
  <2> HIDE DEF F, Srv, servers, Servers
  <2>5. services \in Seq(Services(p)) /\ ToSet(services) = Services(p)
    BY <1>1 DEF Services
  <2> HIDE DEF services
  <2>6. servers \in Seq(Servers) /\ ToSet(servers) = {F[x] : x \in ToSet(services)}
    BY <2>1, <2>3, <2>5, EachFacts
  <2> QED
    BY <2>4, <2>5, <2>6
<1>3. calls \in Seq(Calls) /\ ToSet(calls) = Calls
  <2> DEFINE F == [s \in Services(p) |-> Cll(s)]
  <2>1. F \in [Services(p) -> Calls]
    OBVIOUS
  <2>2. \A i \in DOMAIN services : services[i] \in Services(p) /\ F[services[i]] = Cll(services[i])
    BY DEF ToSet, Services
  <2>3. [i \in DOMAIN services |-> F[services[i]]] = calls
    BY <2>2
  <2>4. {F[x] : x \in Services(p)} = Calls
    OBVIOUS
  <2> HIDE DEF F, Cll, calls, Calls
  <2>5. services \in Seq(Services(p)) /\ ToSet(services) = Services(p)
    BY <1>1 DEF Services
  <2> HIDE DEF services
  <2>6. calls \in Seq(Calls) /\ ToSet(calls) = {F[x] : x \in ToSet(services)}
    BY <2>1, <2>3, <2>5, EachFacts
  <2> QED
    BY <2>4, <2>5, <2>6
<1>4. ASSUME NEW s \in Service
      PROVE  logicOf(s) \in Seq(LogicsOf(s)) /\ ToSet(logicOf(s)) = LogicsOf(s)
  <2> DEFINE F == [r \in ToSet(s.rpcs) |-> Lgc(s, r)]
  <2>1. F \in [ToSet(s.rpcs) -> LogicsOf(s)]
    OBVIOUS
  <2>2. \A i \in DOMAIN s.rpcs : s.rpcs[i] \in ToSet(s.rpcs) /\ F[s.rpcs[i]] = Lgc(s, s.rpcs[i])
    BY DEF ToSet
  <2>3. [i \in DOMAIN s.rpcs |-> F[s.rpcs[i]]] = logicOf(s)
    BY <2>2
  <2>4. {F[x] : x \in ToSet(s.rpcs)} = LogicsOf(s)
    OBVIOUS
  <2>5. s.rpcs \in Seq(ToSet(s.rpcs))
    BY NamesAssumption
  <2> DEFINE u == logicOf(s)
             Ls == LogicsOf(s)
             t == s.rpcs
  <2>6. F \in [ToSet(t) -> Ls] /\ u = [i \in DOMAIN t |-> F[t[i]]] /\ t \in Seq(ToSet(t))
    BY <2>1, <2>3, <2>5
  <2> HIDE DEF F, u, Ls, t
  <2>7. u \in Seq(Ls) /\ ToSet(u) = {F[x] : x \in ToSet(t)}
    BY <2>6, EachFacts
  <2> QED
    BY <2>4, <2>7 DEF u, Ls, t
<1>5. logics \in Seq(Seq(Logics)) /\ \A i \in DOMAIN services : ToSet(logics[i]) = LogicsOf(services[i])
  <2>1. \A i \in DOMAIN services : services[i] \in Services(p) /\ services[i] \in Service
    BY <1>1 DEF ToSet, Services
  <2> HIDE DEF logicOf, LogicsOf
  <2>2. ASSUME NEW i \in DOMAIN services
        PROVE  logicOf(services[i]) \in Seq(Logics) /\ ToSet(logicOf(services[i])) = LogicsOf(services[i])
    <3>1. LogicsOf(services[i]) \subseteq Logics
      BY <2>1
    <3> QED
      BY <1>4, <2>1, <3>1, SubSeqType
  <2>3. Len(services) \in Nat /\ DOMAIN services = 1 .. Len(services)
    BY <1>1
  <2> HIDE DEF Logics, services
  <2>4. [i \in 1 .. Len(services) |-> logicOf(services[i])] \in Seq(Seq(Logics))
    BY <2>2, <2>3, IsASeq
  <2> QED
    BY <2>2, <2>3, <2>4
<1>6. FlattenSeq(logics) \in Seq(Logics) /\ ToSet(FlattenSeq(logics)) = Logics
  <2>1. \A i \in DOMAIN services : services[i] \in Services(p)
    BY DEF ToSet, Services
  <2>2. \A s \in Services(p) : \E i \in DOMAIN services : services[i] = s
    BY DEF ToSet, Services
  <2>3. DOMAIN logics = DOMAIN services
    OBVIOUS
  <2> HIDE DEF logics, LogicsOf, services
  <2>4. UNION {ToSet(logics[i]) : i \in DOMAIN logics} = Logics
    BY <1>5, <2>1, <2>2, <2>3
  <2> HIDE DEF Logics
  <2> QED
    BY <1>5, <2>4, FlattenFacts
<1> DEFINE tail == IF client THEN calls ELSE <<>>
           Tails == IF client THEN Calls ELSE {}
<1>7. Plan(p, imported, pb, multiple, client) =
        Once(Config, Blank) \o Once(Svc, Blank) \o FlattenSeq(logics) \o servers
          \o Once(MainFile(p), MainText(p, pb)) \o tail
  BY DEF Plan, LogicJobs, PerService, ServerJob, LogicJob, CallJob
<1>8. tail \in Seq(Tails) /\ ToSet(tail) = Tails
  <2>1. <<>> \in Seq({}) /\ ToSet(<<>>) = {}
    BY DEF ToSet
  <2> HIDE DEF calls, Calls
  <2> QED
    BY <1>3, <2>1
<1>9. All = {Job(Config, Blank, FALSE)} \cup {Job(Svc, Blank, FALSE)} \cup Logics \cup Servers
              \cup {Job(MainFile(p), MainText(p, pb), FALSE)} \cup Tails
  <2>1. \A s : ServiceJobs(p, imported, pb, multiple, client, s)
                 = {Srv(s)} \cup LogicsOf(s) \cup If(client, {Cll(s)})
    BY DEF ServiceJobs
  <2> HIDE DEF Srv, LogicsOf, Cll
  <2>2. UNION {ServiceJobs(p, imported, pb, multiple, client, s) : s \in Services(p)}
          = Servers \cup Logics \cup Tails
    BY <2>1 DEF If
  <2> HIDE DEF Servers, Logics, Tails
  <2> QED
    BY <2>2 DEF JobsOf, MainJob
<1> DEFINE a == Once(Config, Blank)
           b == Once(Svc, Blank)
           c == FlattenSeq(logics)
           e == Once(MainFile(p), MainText(p, pb))
           A == {Job(Config, Blank, FALSE)}
           B == {Job(Svc, Blank, FALSE)}
           E == {Job(MainFile(p), MainText(p, pb), FALSE)}
<1>10. a \in Seq(A) /\ b \in Seq(B) /\ e \in Seq(E) /\ ToSet(a) = A /\ ToSet(b) = B /\ ToSet(e) = E
  BY OnceFacts
<1>11. /\ c \in Seq(Logics) /\ ToSet(c) = Logics
       /\ Plan(p, imported, pb, multiple, client) = a \o b \o c \o servers \o e \o tail
       /\ All = A \cup B \cup Logics \cup Servers \cup E \cup Tails
  BY <1>6, <1>7, <1>9
<1> HIDE DEF servers, calls, logics, tail, Servers, Logics, Tails, All, a, b, c, e, A, B, E
<1>12. /\ A \subseteq All /\ B \subseteq All /\ Logics \subseteq All /\ Servers \subseteq All
       /\ E \subseteq All /\ Tails \subseteq All
  BY <1>11
<1>13. /\ a \in Seq(All) /\ b \in Seq(All) /\ c \in Seq(All) /\ servers \in Seq(All)
       /\ e \in Seq(All) /\ tail \in Seq(All)
  BY <1>2, <1>8, <1>10, <1>11, <1>12, SubSeqType
<1> DEFINE ab == a \o b
           abc == ab \o c
           abcd == abc \o servers
           abcde == abcd \o e
<1>14. ab \in Seq(All) /\ ToSet(ab) = ToSet(a) \cup ToSet(b)
  BY <1>13, ToSetConcat
<1> HIDE DEF ab
<1>15. abc \in Seq(All) /\ ToSet(abc) = ToSet(ab) \cup ToSet(c)
  BY <1>13, <1>14, ToSetConcat
<1> HIDE DEF abc
<1>16. abcd \in Seq(All) /\ ToSet(abcd) = ToSet(abc) \cup ToSet(servers)
  BY <1>13, <1>15, ToSetConcat
<1> HIDE DEF abcd
<1>17. abcde \in Seq(All) /\ ToSet(abcde) = ToSet(abcd) \cup ToSet(e)
  BY <1>13, <1>16, ToSetConcat
<1> HIDE DEF abcde
<1>18. abcde \o tail \in Seq(All) /\ ToSet(abcde \o tail) = ToSet(abcde) \cup ToSet(tail)
  BY <1>13, <1>17, ToSetConcat
<1>19. Plan(p, imported, pb, multiple, client) = abcde \o tail
  BY <1>11 DEF ab, abc, abcd, abcde
<1>20. ToSet(Plan(p, imported, pb, multiple, client)) = All
  BY <1>2, <1>8, <1>10, <1>11, <1>14, <1>15, <1>16, <1>17, <1>18, <1>19
<1> QED
  BY <1>18, <1>19, <1>20 DEF All

(***************************************************************************)
(* The files of the jobs                                                   *)
(***************************************************************************)
\* The first part of a file's name says what kind of file it is.
LEMMA FileKinds ==
    /\ Config[1] = "config" /\ Svc[1] = "svc"
    /\ \A p : Etc(p)[1] = "etc" /\ MainFile(p)[1] = "main"
    /\ \A m, s : ServerFile(m, s)[1] = "server" /\ CallFile(m, s)[1] = "call"
    /\ \A m, s, r : LogicFile(m, s, r)[1] = "logic"
BY DEF Config, Svc, Etc, MainFile, ServerFile, CallFile, LogicFile

LEMMA FilesAreFiles ==
    /\ Config \in RpcFile /\ Svc \in RpcFile
    /\ \A p \in Proto : Etc(p) \in RpcFile /\ MainFile(p) \in RpcFile
    /\ \A m \in BOOLEAN, s \in Service :
         /\ ServerFile(m, s) \in RpcFile /\ CallFile(m, s) \in RpcFile
         /\ \A r \in ToSet(s.rpcs) : LogicFile(m, s, r) \in RpcFile
<1>1. \A p \in Proto : Etc(p) \in RpcFile /\ MainFile(p) \in RpcFile
  <2> TAKE p \in Proto
  <2>1. Says[p].name \in ServiceName
    BY ProtoAssumption
  <2>2. Etc(p) \in {<<kind, n>> : kind \in {"etc", "main"}, n \in ServiceName}
    BY <2>1 DEF Etc
  <2>3. MainFile(p) \in {<<kind, n>> : kind \in {"etc", "main"}, n \in ServiceName}
    BY <2>1 DEF MainFile
  <2> QED
    BY <2>2, <2>3 DEF RpcFile
<1>2. ASSUME NEW m \in BOOLEAN, NEW s \in Service
      PROVE  /\ ServerFile(m, s) \in RpcFile /\ CallFile(m, s) \in RpcFile
             /\ \A r \in ToSet(s.rpcs) : LogicFile(m, s, r) \in RpcFile
  <2>1. ServerFile(m, s) \in {ServerFile(n, t) : n \in BOOLEAN, t \in Service}
    OBVIOUS
  <2>2. CallFile(m, s) \in {CallFile(n, t) : n \in BOOLEAN, t \in Service}
    OBVIOUS
  <2>3. \A r \in ToSet(s.rpcs) : LogicFile(m, s, r) \in {LogicFile(n, s, q) : n \in BOOLEAN, q \in ToSet(s.rpcs)}
    OBVIOUS
  <2>4. {LogicFile(n, s, q) : n \in BOOLEAN, q \in ToSet(s.rpcs)}
          \in {{LogicFile(n, t, q) : n \in BOOLEAN, q \in ToSet(t.rpcs)} : t \in Service}
    OBVIOUS
  <2>5. \A r \in ToSet(s.rpcs) :
          LogicFile(m, s, r) \in UNION {{LogicFile(n, t, q) : n \in BOOLEAN, q \in ToSet(t.rpcs)} : t \in Service}
    BY <2>3, <2>4
  <2> QED
    BY <2>1, <2>2, <2>5 DEF RpcFile
<1>3. Config \in RpcFile /\ Svc \in RpcFile
  <2>1. Config \in {Config, Svc} /\ Svc \in {Config, Svc}
    OBVIOUS
  <2> QED
    BY <2>1 DEF RpcFile
<1> QED
  BY <1>1, <1>2, <1>3

LEMMA ServicesType == \A p \in Proto : Services(p) \subseteq Service
BY ProtoAssumption, SeqOfOwn DEF Services

\* Without --multiple there is one service.
LEMMA SameService ==
    ASSUME NEW p \in Proto, NEW multiple, Accepts(p, multiple),
           NEW s \in Services(p), NEW t \in Services(p), multiple => s.name = t.name
    PROVE  s = t
<1>1. CASE multiple
  BY <1>1, NamesAssumption DEF Services
<1>2. CASE ~multiple
  <2>1. Says[p].services \in Seq(Service)
    BY ProtoAssumption
  <2>2. Len(Says[p].services) \in Nat /\ DOMAIN Says[p].services = 1 .. Len(Says[p].services)
    BY <2>1
  <2>3. Len(Says[p].services) <= 1
    BY <1>2, <2>2 DEF Accepts
  <2>4. \A i, j \in DOMAIN Says[p].services : i = j
    BY <2>2, <2>3
  <2> QED
    BY <2>4 DEF Services, ToSet
<1> QED
  BY <1>1, <1>2

\* What a job is.
IsJob(p, imported, pb, multiple, client, j) ==
    \/ j = Job(Config, Blank, FALSE)
    \/ j = Job(Svc, Blank, FALSE)
    \/ j = MainJob(p, pb)
    \/ \E s \in Services(p) : j = ServerJob(p, imported, pb, multiple, s)
    \/ \E s \in Services(p) : \E r \in ToSet(s.rpcs) : j = LogicJob(p, imported, pb, multiple, s, r)
    \/ client /\ \E s \in Services(p) : j = CallJob(p, imported, pb, multiple, s)

LEMMA JobCases ==
    ASSUME NEW p, NEW imported, NEW pb, NEW multiple, NEW client \in BOOLEAN,
           NEW j \in JobsOf(p, imported, pb, multiple, client)
    PROVE  IsJob(p, imported, pb, multiple, client, j)
BY DEF JobsOf, ServiceJobs, If, IsJob

LEMMA JobsAreThere ==
    ASSUME NEW p, NEW imported, NEW pb, NEW multiple, NEW client \in BOOLEAN
    PROVE  /\ MainJob(p, pb) \in JobsOf(p, imported, pb, multiple, client)
           /\ \A s \in Services(p) :
                /\ ServerJob(p, imported, pb, multiple, s) \in JobsOf(p, imported, pb, multiple, client)
                /\ client => CallJob(p, imported, pb, multiple, s) \in JobsOf(p, imported, pb, multiple, client)
                /\ \A r \in ToSet(s.rpcs) :
                     LogicJob(p, imported, pb, multiple, s, r) \in JobsOf(p, imported, pb, multiple, client)
<1>1. MainJob(p, pb) \in {Job(Config, Blank, FALSE), Job(Svc, Blank, FALSE), MainJob(p, pb)}
  OBVIOUS
<1>2. ASSUME NEW s \in Services(p)
      PROVE  ServiceJobs(p, imported, pb, multiple, client, s) \subseteq JobsOf(p, imported, pb, multiple, client)
  <2>1. ServiceJobs(p, imported, pb, multiple, client, s)
          \in {ServiceJobs(p, imported, pb, multiple, client, t) : t \in Services(p)}
    OBVIOUS
  <2> QED
    BY <2>1 DEF JobsOf
<1>3. ASSUME NEW s \in Services(p)
      PROVE  /\ ServerJob(p, imported, pb, multiple, s) \in ServiceJobs(p, imported, pb, multiple, client, s)
             /\ client => CallJob(p, imported, pb, multiple, s) \in ServiceJobs(p, imported, pb, multiple, client, s)
             /\ \A r \in ToSet(s.rpcs) :
                  LogicJob(p, imported, pb, multiple, s, r) \in ServiceJobs(p, imported, pb, multiple, client, s)
  BY DEF ServiceJobs, If
<1> QED
  BY <1>1, <1>2, <1>3 DEF JobsOf

\* A job writes a file of the project, never that of GenEtc, and rewrites only
\* what is not headed as the user's own.
LEMMA JobFile ==
    ASSUME NEW p \in Proto, NEW imported, NEW pb, NEW multiple \in BOOLEAN, NEW client \in BOOLEAN,
           NEW j \in JobsOf(p, imported, pb, multiple, client)
    PROVE  /\ j = Job(j.file, j.text, j.rewrite) /\ j.rewrite \in BOOLEAN
           /\ j.file \in RpcFile /\ \A q : j.file # Etc(q)
           /\ j.rewrite => j.file \notin Kept
<1> DEFINE OK == /\ j = Job(j.file, j.text, j.rewrite) /\ j.rewrite \in BOOLEAN
                 /\ j.file \in RpcFile /\ \A q : j.file # Etc(q)
                 /\ j.rewrite => j.file \notin Kept
<1>1. ASSUME j = Job(Config, Blank, FALSE) PROVE OK
  BY <1>1, FileKinds, FilesAreFiles DEF Job
<1>2. ASSUME j = Job(Svc, Blank, FALSE) PROVE OK
  BY <1>2, FileKinds, FilesAreFiles DEF Job
<1>3. ASSUME j = MainJob(p, pb) PROVE OK
  BY <1>3, FileKinds, FilesAreFiles DEF Job, MainJob
<1>4. ASSUME NEW s \in Services(p), j = ServerJob(p, imported, pb, multiple, s) PROVE OK
  BY <1>4, FileKinds, FilesAreFiles, ServicesType DEF Job, ServerJob, Kept
<1>5. ASSUME NEW s \in Services(p), j = CallJob(p, imported, pb, multiple, s) PROVE OK
  BY <1>5, FileKinds, FilesAreFiles, ServicesType DEF Job, CallJob, Kept
<1>6. ASSUME NEW s \in Services(p), NEW r \in ToSet(s.rpcs), j = LogicJob(p, imported, pb, multiple, s, r)
      PROVE  OK
  BY <1>6, FileKinds, FilesAreFiles, ServicesType DEF Job, LogicJob
<1> HIDE DEF OK
<1>7. IsJob(p, imported, pb, multiple, client, j)
  BY JobCases
<1>8. OK
  BY <1>1, <1>2, <1>3, <1>4, <1>5, <1>6, <1>7 DEF IsJob
<1> QED
  BY <1>8 DEF OK

\* No two jobs write one file.
LEMMA JobUnique ==
    ASSUME NEW p \in Proto, NEW imported, NEW pb, NEW multiple \in BOOLEAN, NEW client \in BOOLEAN,
           Accepts(p, multiple),
           NEW j \in JobsOf(p, imported, pb, multiple, client),
           NEW k \in JobsOf(p, imported, pb, multiple, client), j.file = k.file
    PROVE  j = k
<1>1. ASSUME j = Job(Config, Blank, FALSE) PROVE j = k
  <2>1. k.file[1] = "config"
    BY <1>1, FileKinds DEF Job
  <2>2. k = Job(Config, Blank, FALSE)
    BY <2>1, FileKinds, JobCases DEF IsJob, Job, MainJob, ServerJob, CallJob, LogicJob
  <2> QED
    BY <1>1, <2>2
<1>2. ASSUME j = Job(Svc, Blank, FALSE) PROVE j = k
  <2>1. k.file[1] = "svc"
    BY <1>2, FileKinds DEF Job
  <2>2. k = Job(Svc, Blank, FALSE)
    BY <2>1, FileKinds, JobCases DEF IsJob, Job, MainJob, ServerJob, CallJob, LogicJob
  <2> QED
    BY <1>2, <2>2
<1>3. ASSUME j = MainJob(p, pb) PROVE j = k
  <2>1. k.file[1] = "main"
    BY <1>3, FileKinds DEF Job, MainJob
  <2>2. k = MainJob(p, pb)
    BY <2>1, FileKinds, JobCases DEF IsJob, Job, ServerJob, CallJob, LogicJob
  <2> QED
    BY <1>3, <2>2
<1>4. ASSUME NEW s \in Services(p), j = ServerJob(p, imported, pb, multiple, s) PROVE j = k
  <2>1. k.file[1] = "server"
    BY <1>4, FileKinds DEF Job, ServerJob
  <2>2. PICK t \in Services(p) : k = ServerJob(p, imported, pb, multiple, t)
    BY <2>1, FileKinds, JobCases DEF IsJob, Job, MainJob, CallJob, LogicJob
  <2>3. s.name = t.name
    BY <1>4, <2>2 DEF Job, ServerJob, ServerFile
  <2> QED
    BY <1>4, <2>2, <2>3, SameService
<1>5. ASSUME NEW s \in Services(p), j = CallJob(p, imported, pb, multiple, s) PROVE j = k
  <2>1. k.file[1] = "call"
    BY <1>5, FileKinds DEF Job, CallJob
  <2>2. PICK t \in Services(p) : k = CallJob(p, imported, pb, multiple, t)
    BY <2>1, FileKinds, JobCases DEF IsJob, Job, MainJob, ServerJob, LogicJob
  <2>3. s.name = t.name
    BY <1>5, <2>2 DEF Job, CallJob, CallFile
  <2> QED
    BY <1>5, <2>2, <2>3, SameService
<1>6. ASSUME NEW s \in Services(p), NEW q \in ToSet(s.rpcs), j = LogicJob(p, imported, pb, multiple, s, q)
      PROVE  j = k
  <2>1. k.file[1] = "logic"
    BY <1>6, FileKinds DEF Job, LogicJob
  <2>2. PICK t \in Services(p) : \E r \in ToSet(t.rpcs) : k = LogicJob(p, imported, pb, multiple, t, r)
    BY <2>1, FileKinds, JobCases DEF IsJob, Job, MainJob, ServerJob, CallJob
  <2> PICK r \in ToSet(t.rpcs) : k = LogicJob(p, imported, pb, multiple, t, r)
    BY <2>2
  <2>3. (multiple => s.name = t.name) /\ q.name = r.name
    BY <1>6, <2>2 DEF Job, LogicJob, LogicFile
  <2>4. s = t
    BY <2>3, SameService
  <2>5. s \in Service
    BY ServicesType
  <2>6. q = r
    BY <2>3, <2>4, <2>5, NamesAssumption
  <2> QED
    BY <1>6, <2>2, <2>4, <2>6
<1>7. IsJob(p, imported, pb, multiple, client, j)
  BY JobCases
<1> QED
  BY <1>1, <1>2, <1>3, <1>4, <1>5, <1>6, <1>7 DEF IsJob

(***************************************************************************)
(* What stays as it is while the disk does                                 *)
(***************************************************************************)
LEMMA SamePackages ==
    ASSUME UNCHANGED layout
    PROVE  /\ \A p, imported, t : resolveRPCTypeRef(p, imported, t)' = resolveRPCTypeRef(p, imported, t)
           /\ \A p, imported, ts : Foreign(p, imported, ts)' = Foreign(p, imported, ts)
           /\ \A p, imported, r : Mentioned(p, imported, r)' = Mentioned(p, imported, r)
           /\ \A p, imported, r : addLogicImports(p, imported, r)' = addLogicImports(p, imported, r)
<1>1. \A imported, pkg : InPackage(imported, pkg)' = InPackage(imported, pkg)
  BY DEF InPackage
<1>2. \A imported, pkg : BuildProtoPackageMap(imported, pkg)' = BuildProtoPackageMap(imported, pkg)
  BY <1>1 DEF BuildProtoPackageMap
<1>3. \A p, imported, t : resolveRPCTypeRef(p, imported, t)' = resolveRPCTypeRef(p, imported, t)
  BY <1>1, <1>2 DEF resolveRPCTypeRef
<1>4. \A p, imported, ts : Foreign(p, imported, ts)' = Foreign(p, imported, ts)
  BY <1>3 DEF Foreign
<1>5. \A p, imported, r : Mentioned(p, imported, r)' = Mentioned(p, imported, r)
  BY <1>3 DEF Mentioned
<1>6. \A p, imported, r : addLogicImports(p, imported, r)' = addLogicImports(p, imported, r)
  BY <1>4 DEF addLogicImports
<1> QED
  BY <1>3, <1>4, <1>5, <1>6

LEMMA SameJobs ==
    ASSUME UNCHANGED layout
    PROVE  \A p, imported, pb, multiple, client :
             JobsOf(p, imported, pb, multiple, client)' = JobsOf(p, imported, pb, multiple, client)
<1>1. \A p, imported, s : AllMentioned(p, imported, s)' = AllMentioned(p, imported, s)
  BY SamePackages DEF AllMentioned
<1>2. \A p, imported, pb, multiple, s, r :
        LogicJob(p, imported, pb, multiple, s, r)' = LogicJob(p, imported, pb, multiple, s, r)
  BY SamePackages DEF LogicJob, LogicText
<1>3. ASSUME NEW p, NEW imported, NEW pb, NEW multiple, NEW s
      PROVE  /\ ServerJob(p, imported, pb, multiple, s)' = ServerJob(p, imported, pb, multiple, s)
             /\ CallJob(p, imported, pb, multiple, s)' = CallJob(p, imported, pb, multiple, s)
  <2>1. Foreign(p, imported, AllMessages(s))' = Foreign(p, imported, AllMessages(s))
    BY SamePackages
  <2>2. AllMentioned(p, imported, s)' = AllMentioned(p, imported, s)
    BY <1>1
  <2>3. ServerText(p, imported, pb, s)' = ServerText(p, imported, pb, s)
    BY <2>1, <2>2, Zenon DEF ServerText
  <2>4. Qualified(p, imported, s)' = Qualified(p, imported, s)
    BY SamePackages DEF Qualified
  <2>5. CallText(p, imported, pb, multiple, s)' = CallText(p, imported, pb, multiple, s)
    BY <2>1, <2>2, <2>4, Zenon DEF CallText
  <2> QED
    BY <2>3, <2>5, Zenon DEF ServerJob, CallJob
<1>4. ASSUME NEW p, NEW imported, NEW pb, NEW multiple, NEW client, NEW s
      PROVE  ServiceJobs(p, imported, pb, multiple, client, s)' = ServiceJobs(p, imported, pb, multiple, client, s)
  <2>1. \A r : LogicJob(p, imported, pb, multiple, s, r)' = LogicJob(p, imported, pb, multiple, s, r)
    BY <1>2
  <2>2. {LogicJob(p, imported, pb, multiple, s, r) : r \in ToSet(s.rpcs)}'
          = {LogicJob(p, imported, pb, multiple, s, r) : r \in ToSet(s.rpcs)}
    BY <2>1
  <2> QED
    BY <1>3, <2>2, Zenon DEF ServiceJobs
<1>5. ASSUME NEW p, NEW imported, NEW pb, NEW multiple, NEW client
      PROVE  JobsOf(p, imported, pb, multiple, client)' = JobsOf(p, imported, pb, multiple, client)
  <2>1. \A s : ServiceJobs(p, imported, pb, multiple, client, s)' = ServiceJobs(p, imported, pb, multiple, client, s)
    BY <1>4
  <2>2. {ServiceJobs(p, imported, pb, multiple, client, s) : s \in Services(p)}'
          = {ServiceJobs(p, imported, pb, multiple, client, s) : s \in Services(p)}
    BY <2>1
  <2> QED
    BY <2>2, Zenon DEF JobsOf
<1> QED
  BY <1>5

LEMMA SameDue ==
    ASSUME UNCHANGED layout, run'.proto = run.proto, run'.imported = run.imported, run'.pb = run.pb,
           run'.multiple = run.multiple, run'.client = run.client
    PROVE  Due' = Due
BY SameJobs DEF Due

(***************************************************************************)
(* The steps of a run                                                      *)
(***************************************************************************)
LEMMA RunIs ==
    ASSUME RunShape, run # Idle
    PROVE  /\ run = [at |-> run.at, proto |-> run.proto, multiple |-> run.multiple, client |-> run.client,
                     imported |-> run.imported, pb |-> run.pb, todo |-> run.todo]
           /\ run.at \in Stages /\ run.proto \in Proto
           /\ run.multiple \in BOOLEAN /\ run.client \in BOOLEAN
           /\ run.imported \in Seq(ProtoFile) /\ run.pb \in ToSet(GoDirs) \cup {NoDir}
           /\ run.todo \in Seq(Due) /\ Accepts(run.proto, run.multiple)
BY DEF RunShape

LEMMA RunningIsRun ==
    /\ Running => run # Idle
    /\ \A a \in Stages : run.at = a => run # Idle
    /\ Idle.at = "idle"
BY DEF Running, Idle, Stages

\* What is due writes files of the project, no two the same, and rewrites none of
\* the user's own.
LEMMA DueFacts ==
    ASSUME RunShape, run # Idle, NEW j \in Due
    PROVE  /\ j = Job(j.file, j.text, j.rewrite) /\ j.rewrite \in BOOLEAN /\ j.file \in RpcFile
           /\ j.rewrite => j.file \notin Kept
           /\ j.file = Etc(run.proto) => run.pb = NoDir
           /\ run.pb = NoDir => j = EtcJob(run.proto)
           /\ \A k \in Due : j.file = k.file => j = k
<1>1. CASE run.pb = NoDir
  <2>1. j = EtcJob(run.proto) /\ \A k \in Due : k = EtcJob(run.proto)
    BY <1>1 DEF Due
  <2>2. j.file = Etc(run.proto) /\ j.text = Blank /\ j.rewrite = FALSE
    BY <2>1 DEF EtcJob, Job
  <2>3. Etc(run.proto) \in RpcFile
    BY RunIs, FilesAreFiles
  <2> QED
    BY <1>1, <2>1, <2>2, <2>3 DEF EtcJob
<1>2. CASE run.pb # NoDir
  <2> DEFINE jobs == JobsOf(run.proto, run.imported, run.pb, run.multiple, run.client)
  <2>1. Due = jobs /\ j \in jobs
    BY <1>2 DEF Due
  <2>2. /\ run.proto \in Proto /\ run.multiple \in BOOLEAN /\ run.client \in BOOLEAN
        /\ Accepts(run.proto, run.multiple)
    BY RunIs
  <2>3. /\ j = Job(j.file, j.text, j.rewrite) /\ j.rewrite \in BOOLEAN
        /\ j.file \in RpcFile /\ j.file # Etc(run.proto)
        /\ j.rewrite => j.file \notin Kept
    BY <2>1, <2>2, JobFile
  <2>4. \A k \in jobs : j.file = k.file => j = k
    BY <2>1, <2>2, JobUnique
  <2> QED
    BY <1>2, <2>1, <2>3, <2>4
<1> QED
  BY <1>1, <1>2

LEMMA CurrentFacts ==
    ASSUME RunShape, run # Idle, run.todo # <<>>
    PROVE  /\ Current \in Due /\ Tail(run.todo) \in Seq(Due)
           /\ ToSet(run.todo) = {Current} \cup ToSet(Tail(run.todo))
           /\ Current.file \in RpcFile /\ Current.rewrite \in BOOLEAN
<1>1. run.todo \in Seq(Due)
  BY RunIs
<1>2. /\ Head(run.todo) \in Due /\ Tail(run.todo) \in Seq(Due)
      /\ ToSet(run.todo) = {Head(run.todo)} \cup ToSet(Tail(run.todo))
  BY <1>1, ToSetTail
<1> QED
  BY <1>2, DueFacts DEF Current

LEMMA SkipKeeps ==
    ASSUME ProjectInv, Skip
    PROVE  ProjectInv'
<1>1. /\ RunShape /\ run.at = "job" /\ run.todo # <<>> /\ run # Idle
      /\ ~Current.rewrite /\ files[Current.file] # Absent
      /\ UNCHANGED <<layout, proto, files, pbs, torn, runs>>
  BY RunningIsRun DEF ProjectInv, Skip, AtJob, walkVars, Stages
<1>2. run' = [run EXCEPT !.todo = Tail(@)]
  BY DEF Skip
<1>3. /\ run' = [at |-> "job", proto |-> run.proto, multiple |-> run.multiple, client |-> run.client,
                 imported |-> run.imported, pb |-> run.pb, todo |-> Tail(run.todo)]
  BY <1>1, <1>2, RunIs
<1>4. Due' = Due /\ run' # Idle
  BY <1>1, <1>3, SameDue DEF Idle
<1>5. RunShape'
  <2>1. run' \in [at : Stages, proto : Proto, multiple : BOOLEAN, client : BOOLEAN,
                  imported : Seq(ProtoFile), pb : ToSet(GoDirs) \cup {NoDir}, todo : Seq(Due')]
    BY <1>1, <1>3, <1>4, RunIs, CurrentFacts DEF Stages
  <2> QED
    BY <1>1, <1>3, <2>1, RunIs DEF RunShape
<1>6. FilesShape'
  BY <1>1 DEF ProjectInv, FilesShape, FileShape
<1>7. EmptyTorn'
  BY <1>1, <1>3 DEF ProjectInv, EmptyTorn
<1>8. Delivered'
  BY <1>1, <1>3, <1>4, CurrentFacts DEF ProjectInv, Delivered
<1>9. FreshIsDue'
  BY <1>1, <1>3, <1>4 DEF ProjectInv, FreshIsDue, Fresh
<1>10. PbThere' /\ PbChosen'
  BY <1>1, <1>3 DEF ProjectInv, PbThere, PbChosen, PbFile
<1> QED
  BY <1>1, <1>5, <1>6, <1>7, <1>8, <1>9, <1>10 DEF ProjectInv, Numbered

LEMMA OpenKeeps ==
    ASSUME ProjectInv, Open
    PROVE  ProjectInv'
<1>1. /\ RunShape /\ run.at = "job" /\ run.todo # <<>> /\ run # Idle
      /\ Current.rewrite \/ files[Current.file] = Absent
      /\ UNCHANGED <<layout, proto, pbs, runs>>
      /\ torn' = torn \ {Current.file}
  BY RunningIsRun DEF ProjectInv, Open, AtJob, walkVars, Stages
<1>2. run' = [run EXCEPT !.at = "opened"]
  BY DEF Open
<1>3. /\ run' = [at |-> "opened", proto |-> run.proto, multiple |-> run.multiple, client |-> run.client,
                 imported |-> run.imported, pb |-> run.pb, todo |-> run.todo]
  BY <1>1, <1>2, RunIs
<1>4. Due' = Due /\ run' # Idle /\ Current' = Current
  BY <1>1, <1>3, SameDue DEF Idle, Current
<1>5. /\ Current.file \in RpcFile
      /\ files' = [f \in RpcFile |-> IF f = Current.file THEN Empty ELSE files[f]]
      /\ files'[Current.file] = Empty
      /\ \A f \in RpcFile : f # Current.file => files'[f] = files[f]
  <2>1. files = [f \in RpcFile |-> files[f]] /\ files' = [files EXCEPT ![Current.file] = Empty]
    BY DEF ProjectInv, FilesShape, Open
  <2> QED
    BY <1>1, <2>1, CurrentFacts
<1>6. RunShape'
  <2>1. run' \in [at : Stages, proto : Proto, multiple : BOOLEAN, client : BOOLEAN,
                  imported : Seq(ProtoFile), pb : ToSet(GoDirs) \cup {NoDir}, todo : Seq(Due')]
    BY <1>1, <1>3, <1>4, RunIs DEF Stages
  <2> QED
    BY <1>1, <1>3, <1>4, <1>5, <2>1, RunIs DEF RunShape
<1>7. FilesShape'
  BY <1>1, <1>5 DEF ProjectInv, FilesShape, FileShape
<1>8. EmptyTorn'
  BY <1>1, <1>3, <1>4, <1>5 DEF ProjectInv, EmptyTorn
<1>9. Delivered'
  <2> SUFFICES ASSUME run.pb # NoDir, NEW j \in Due, j \notin ToSet(run.todo)
               PROVE  \/ j.rewrite /\ files'[j.file] = Generated(j.text, runs)
                      \/ ~j.rewrite /\ files'[j.file] # Absent
    BY <1>1, <1>3, <1>4 DEF Delivered
  <2>1. j.file # Current.file /\ j.file \in RpcFile
    BY <1>1, CurrentFacts, DueFacts
  <2> QED
    BY <1>1, <1>5, <2>1 DEF ProjectInv, Delivered
<1>10. FreshIsDue'
  <2>1. ASSUME NEW f \in RpcFile, Fresh(f)' PROVE Fresh(f) /\ files'[f] = files[f]
    BY <1>1, <1>5, <2>1 DEF Fresh, Empty
  <2> QED
    BY <1>1, <1>3, <1>4, <2>1 DEF ProjectInv, FreshIsDue
<1>11. PbThere' /\ PbChosen'
  BY <1>1, <1>3 DEF ProjectInv, PbThere, PbChosen, PbFile
<1> QED
  BY <1>1, <1>6, <1>7, <1>8, <1>9, <1>10, <1>11 DEF ProjectInv, Numbered

LEMMA WriteKeeps ==
    ASSUME ProjectInv, Write
    PROVE  ProjectInv'
<1>1. /\ RunShape /\ run.at = "opened" /\ run # Idle /\ run.todo # <<>> /\ files[Current.file] = Empty
      /\ UNCHANGED <<layout, proto, pbs, torn, runs>>
  BY RunningIsRun DEF ProjectInv, Write, RunShape, walkVars, Stages
<1>2. run' = [run EXCEPT !.at = "job", !.todo = Tail(@)]
  BY DEF Write
<1>3. /\ run' = [at |-> "job", proto |-> run.proto, multiple |-> run.multiple, client |-> run.client,
                 imported |-> run.imported, pb |-> run.pb, todo |-> Tail(run.todo)]
  BY <1>1, <1>2, RunIs
<1>4. Due' = Due /\ run' # Idle
  BY <1>1, <1>3, SameDue DEF Idle
<1>5. /\ Current.file \in RpcFile
      /\ files' = [f \in RpcFile |-> IF f = Current.file THEN Generated(Current.text, runs) ELSE files[f]]
      /\ files'[Current.file] = Generated(Current.text, runs)
      /\ \A f \in RpcFile : f # Current.file => files'[f] = files[f]
  <2>1. files = [f \in RpcFile |-> files[f]] /\ files' = [files EXCEPT ![Current.file] = Generated(Current.text, runs)]
    BY DEF ProjectInv, FilesShape, Write
  <2> QED
    BY <1>1, <2>1, CurrentFacts
<1>6. RunShape'
  <2>1. run' \in [at : Stages, proto : Proto, multiple : BOOLEAN, client : BOOLEAN,
                  imported : Seq(ProtoFile), pb : ToSet(GoDirs) \cup {NoDir}, todo : Seq(Due')]
    BY <1>1, <1>3, <1>4, RunIs, CurrentFacts DEF Stages
  <2> QED
    BY <1>1, <1>3, <2>1, RunIs DEF RunShape
<1>7. FilesShape'
  <2>1. run # Idle /\ Numbered /\ runs' = runs
    BY <1>1 DEF ProjectInv
  <2>2. runs \in 1 .. runs
    BY <2>1 DEF Numbered
  <2>3. files'[Current.file].text = Current.text /\ files'[Current.file].in = runs
    BY <1>5 DEF Generated
  <2>4. \/ files'[Current.file] \in {Absent, Empty}
        \/ files'[Current.file] = Edited /\ Current.file \in Kept
        \/ /\ files'[Current.file] = Generated(files'[Current.file].text, files'[Current.file].in)
           /\ files'[Current.file].in \in 1 .. runs'
    BY <1>5, <2>1, <2>2, <2>3
  <2>5. ASSUME NEW f \in RpcFile PROVE FileShape(f)'
    <3>1. CASE f = Current.file
      BY <2>4, <3>1 DEF FileShape
    <3>2. CASE f # Current.file
      BY <1>5, <2>1, <3>2 DEF ProjectInv, FilesShape, FileShape
    <3> QED
      BY <3>1, <3>2
  <2>6. files' = [f \in RpcFile |-> files'[f]]
    BY <1>5
  <2> QED
    BY <2>5, <2>6 DEF FilesShape
<1>8. EmptyTorn'
  BY <1>1, <1>3, <1>5 DEF ProjectInv, EmptyTorn, Generated, Empty
<1>9. Delivered'
  <2> SUFFICES ASSUME run.pb # NoDir, NEW j \in Due, j \notin ToSet(Tail(run.todo))
               PROVE  \/ j.rewrite /\ files'[j.file] = Generated(j.text, runs)
                      \/ ~j.rewrite /\ files'[j.file] # Absent
    BY <1>1, <1>3, <1>4 DEF Delivered
  <2>1. CASE j = Current
    BY <1>1, <1>5, <2>1, CurrentFacts DEF Generated, Absent
  <2>2. CASE j # Current
    <3>1. j \notin ToSet(run.todo) /\ j.file # Current.file /\ j.file \in RpcFile
      BY <1>1, <2>2, CurrentFacts, DueFacts
    <3> QED
      BY <1>1, <1>5, <3>1 DEF ProjectInv, Delivered
  <2> QED
    BY <2>1, <2>2
<1>10. FreshIsDue'
  <2> SUFFICES ASSUME NEW f \in RpcFile, Fresh(f)', f # Etc(run.proto)
               PROVE  run.pb # NoDir /\ \E j \in Due : j.file = f /\ j.text = files'[f].text
    BY <1>1, <1>3, <1>4 DEF FreshIsDue
  <2>1. CASE f = Current.file
    <3>1. Current \in Due /\ Current.text = files'[f].text
      BY <1>1, <1>5, <2>1, CurrentFacts DEF Generated
    <3>2. run.pb # NoDir
      <4>1. ASSUME run.pb = NoDir PROVE Current.file = Etc(run.proto)
        BY <1>1, <3>1, <4>1, DueFacts DEF EtcJob, Job
      <4> QED
        BY <2>1, <4>1
    <3> QED
      BY <2>1, <3>1, <3>2
  <2>2. CASE f # Current.file
    <3>1. Fresh(f) /\ files'[f] = files[f]
      BY <1>1, <1>5, <2>2 DEF Fresh
    <3> QED
      BY <1>1, <3>1 DEF ProjectInv, FreshIsDue
  <2> QED
    BY <2>1, <2>2
<1>11. PbThere' /\ PbChosen'
  BY <1>1, <1>3 DEF ProjectInv, PbThere, PbChosen, PbFile
<1> QED
  BY <1>1, <1>6, <1>7, <1>8, <1>9, <1>10, <1>11 DEF ProjectInv, Numbered

LEMMA FinishKeeps ==
    ASSUME ProjectInv, Finish
    PROVE  ProjectInv'
<1>1. /\ RunShape /\ run.at = "job" /\ run.todo = <<>> /\ run.pb # NoDir /\ run # Idle
      /\ UNCHANGED <<layout, proto, files, pbs, torn, runs>>
  BY RunningIsRun DEF ProjectInv, Finish, walkVars, Stages
<1>2. run' = [run EXCEPT !.at = "done"]
  BY DEF Finish
<1>3. /\ run' = [at |-> "done", proto |-> run.proto, multiple |-> run.multiple, client |-> run.client,
                 imported |-> run.imported, pb |-> run.pb, todo |-> run.todo]
  BY <1>1, <1>2, RunIs
<1>4. Due' = Due /\ run' # Idle
  BY <1>1, <1>3, SameDue DEF Idle
<1>5. RunShape'
  <2>1. run' \in [at : Stages, proto : Proto, multiple : BOOLEAN, client : BOOLEAN,
                  imported : Seq(ProtoFile), pb : ToSet(GoDirs) \cup {NoDir}, todo : Seq(Due')]
    BY <1>1, <1>3, <1>4, RunIs DEF Stages
  <2> QED
    BY <1>1, <1>3, <2>1, RunIs DEF RunShape
<1>6. FilesShape' /\ EmptyTorn'
  BY <1>1, <1>3 DEF ProjectInv, FilesShape, FileShape, EmptyTorn
<1>7. Delivered' /\ FreshIsDue'
  BY <1>1, <1>3, <1>4 DEF ProjectInv, Delivered, FreshIsDue, Fresh
<1>8. PbThere' /\ PbChosen'
  BY <1>1, <1>3 DEF ProjectInv, PbThere, PbChosen, PbFile
<1> QED
  BY <1>1, <1>5, <1>6, <1>7, <1>8 DEF ProjectInv, Numbered

LEMMA ProtocKeeps ==
    ASSUME ProjectInv, Protoc
    PROVE  ProjectInv'
<1>1. /\ RunShape /\ run.at = "job" /\ run.todo = <<>> /\ run.pb = NoDir /\ run # Idle
      /\ UNCHANGED <<layout, proto, files, torn, runs>>
  BY RunningIsRun DEF ProjectInv, Protoc, walkVars, Stages
<1>2. run' = [run EXCEPT !.at = "protoc"]
  BY DEF Protoc
<1>3. /\ run' = [at |-> "protoc", proto |-> run.proto, multiple |-> run.multiple, client |-> run.client,
                 imported |-> run.imported, pb |-> run.pb, todo |-> run.todo]
  BY <1>1, <1>2, RunIs
<1>4. Due' = Due /\ run' # Idle
  BY <1>1, <1>3, SameDue DEF Idle
<1>5. RunShape'
  <2>1. run' \in [at : Stages, proto : Proto, multiple : BOOLEAN, client : BOOLEAN,
                  imported : Seq(ProtoFile), pb : ToSet(GoDirs) \cup {NoDir}, todo : Seq(Due')]
    BY <1>1, <1>3, <1>4, RunIs DEF Stages
  <2> QED
    BY <1>1, <1>3, <2>1, RunIs DEF RunShape
<1>6. FilesShape' /\ EmptyTorn'
  BY <1>1, <1>3 DEF ProjectInv, FilesShape, FileShape, EmptyTorn
<1>7. Delivered' /\ FreshIsDue'
  BY <1>1, <1>3, <1>4 DEF ProjectInv, Delivered, FreshIsDue, Fresh
<1>8. PbThere' /\ PbChosen'
  BY <1>1, <1>3 DEF Protoc, PbThere, PbChosen, MainPb
<1> QED
  BY <1>1, <1>5, <1>6, <1>7, <1>8 DEF ProjectInv, Numbered

LEMMA CollectedKeeps ==
    ASSUME ProjectInv, WalkTypeOK, Collected
    PROVE  ProjectInv'
<1>1. /\ RunShape /\ run.at = "imports" /\ run.todo = <<>> /\ run.pb = NoDir /\ run # Idle
      /\ UNCHANGED <<layout, proto, files, pbs, torn, runs>> /\ result \in Seq(ProtoFile)
  BY RunningIsRun DEF ProjectInv, Collected, RunShape, WalkTypeOK, walkVars, Stages
<1>2. run' = [run EXCEPT !.at = "job", !.imported = result, !.todo = Once(Etc(run.proto), Blank)]
  BY DEF Collected
<1>3. /\ run' = [at |-> "job", proto |-> run.proto, multiple |-> run.multiple, client |-> run.client,
                 imported |-> result, pb |-> run.pb, todo |-> Once(Etc(run.proto), Blank)]
  BY <1>1, <1>2, RunIs
<1>4. Due' = {EtcJob(run.proto)} /\ Once(Etc(run.proto), Blank) \in Seq(Due') /\ run' # Idle
  <2>1. Due' = {EtcJob(run.proto)}
    BY <1>1, <1>3 DEF Due
  <2>2. Once(Etc(run.proto), Blank) \in Seq({EtcJob(run.proto)})
    BY OnceFacts DEF EtcJob
  <2> QED
    BY <1>3, <2>1, <2>2 DEF Idle
<1>5. RunShape'
  <2>1. run' \in [at : Stages, proto : Proto, multiple : BOOLEAN, client : BOOLEAN,
                  imported : Seq(ProtoFile), pb : ToSet(GoDirs) \cup {NoDir}, todo : Seq(Due')]
    BY <1>1, <1>3, <1>4, RunIs DEF Stages
  <2> QED
    BY <1>1, <1>3, <2>1, RunIs DEF RunShape
<1>6. FilesShape' /\ EmptyTorn'
  BY <1>1, <1>3 DEF ProjectInv, FilesShape, FileShape, EmptyTorn
<1>7. Delivered' /\ PbThere' /\ PbChosen'
  BY <1>1, <1>3 DEF Delivered, PbThere, PbChosen
<1>8. FreshIsDue'
  BY <1>1, <1>3 DEF ProjectInv, FreshIsDue, Fresh
<1> QED
  BY <1>1, <1>5, <1>6, <1>7, <1>8 DEF ProjectInv, Numbered

\* The walk for the pb file comes by the one of the source, and may stop before.
LEMMA FirstMatch ==
    ASSUME MainPb \in pbs, run.proto \in Proto
    PROVE  \E i, j \in DOMAIN GoDirs :
             i \in Matches(FALSE) /\ i <= j /\ findPbFile(FALSE) = GoDirs[i] /\ GoDirs[j] = Says[run.proto].dir
<1>1. PICK j \in DOMAIN GoDirs : GoDirs[j] = Says[run.proto].dir
  BY DirsAssumption DEF ToSet
<1>2. DOMAIN GoDirs \subseteq Nat
  BY DirsAssumption
<1>3. j \in Matches(FALSE) /\ Matches(FALSE) \subseteq DOMAIN GoDirs
  <2>1. MainPb.dir = GoDirs[j] /\ MainPb.name \in Alike
    BY <1>1, DirsAssumption DEF MainPb
  <2> QED
    BY <2>1 DEF Matches
<1> DEFINE M == Matches(FALSE)
           i == CHOOSE n \in M : \A m \in M : n <= m
<1>4. M \subseteq Nat /\ M # {}
  BY <1>2, <1>3
<1>5. \E n \in M : \A m \in M : n <= m
  <2> HIDE DEF M
  <2> QED
    BY <1>4, LeastOfSome
<1>6. i \in M /\ \A m \in M : i <= m
  <2> HIDE DEF M
  <2> QED
    BY <1>5
<1>7. findPbFile(FALSE) = GoDirs[i]
  BY DEF findPbFile
<1> HIDE DEF i
<1> QED
  BY <1>1, <1>3, <1>6, <1>7

LEMMA SetPbDirKeeps ==
    ASSUME ProjectInv, SetPbDir
    PROVE  ProjectInv'
<1>1. /\ RunShape /\ run.at = "protoc" /\ run.todo = <<>> /\ run.pb = NoDir /\ run # Idle
      /\ UNCHANGED <<layout, proto, files, pbs, torn, runs>> /\ MainPb \in pbs
  BY RunningIsRun DEF ProjectInv, SetPbDir, RunShape, PbThere, walkVars, Stages
<1> DEFINE dir == findPbFile(FALSE)
           plan == Plan(run.proto, run.imported, dir, run.multiple, run.client)
<1>2. run' = [run EXCEPT !.at = "job", !.pb = dir, !.todo = plan]
  BY DEF SetPbDir
<1>3. PICK i, j \in DOMAIN GoDirs :
        i \in Matches(FALSE) /\ i <= j /\ dir = GoDirs[i] /\ GoDirs[j] = Says[run.proto].dir
  BY <1>1, RunIs, FirstMatch
<1>4. dir \in ToSet(GoDirs) /\ dir # NoDir
  <2>1. GoDirs[i] \in STRING \ {NoDir}
    BY DirsAssumption
  <2> QED
    BY <1>3, <2>1 DEF ToSet
<1> HIDE DEF dir, plan
<1>5. /\ run' = [at |-> "job", proto |-> run.proto, multiple |-> run.multiple, client |-> run.client,
                 imported |-> run.imported, pb |-> dir, todo |-> plan]
  BY <1>1, <1>2, RunIs
<1>6. Due' = JobsOf(run.proto, run.imported, dir, run.multiple, run.client) /\ run' # Idle
  <2>1. Due' = JobsOf(run.proto, run.imported, run.pb, run.multiple, run.client)'
    BY <1>4, <1>5 DEF Due
  <2>2. run'.proto = run.proto /\ run'.imported = run.imported /\ run'.pb = dir
        /\ run'.multiple = run.multiple /\ run'.client = run.client
    BY <1>5
  <2> QED
    BY <1>1, <1>5, <2>1, <2>2, SameJobs DEF Idle
<1>7. plan \in Seq(Due') /\ ToSet(plan) = Due'
  BY <1>1, <1>6, RunIs, PlanFacts DEF plan
<1>8. RunShape'
  <2>1. run' \in [at : Stages, proto : Proto, multiple : BOOLEAN, client : BOOLEAN,
                  imported : Seq(ProtoFile), pb : ToSet(GoDirs) \cup {NoDir}, todo : Seq(Due')]
    BY <1>1, <1>4, <1>5, <1>7, RunIs DEF Stages
  <2> QED
    BY <1>1, <1>5, <2>1, RunIs DEF RunShape
<1>9. FilesShape' /\ EmptyTorn'
  BY <1>1, <1>5 DEF ProjectInv, FilesShape, FileShape, EmptyTorn
<1>10. Delivered' /\ PbThere'
  BY <1>5, <1>7 DEF Delivered, PbThere
<1>11. FreshIsDue'
  BY <1>1, <1>5 DEF ProjectInv, FreshIsDue, Fresh
<1>12. PbChosen'
  <2>1. CASE i = j
    BY <1>3, <1>5, <2>1 DEF PbChosen
  <2>2. CASE i # j
    <3>1. i < j
      BY <1>3, <2>2, DirsAssumption
    <3>2. PICK b \in pbs : b.dir = dir /\ b.name \in Alike
      BY <1>3 DEF Matches
    <3>3. CASE b \in {PbFile(f) : f \in ToSet(run.imported)}
      <4>1. PICK f \in ToSet(run.imported) : On[layout].goPackage[f] = dir /\ f[2] \in Alike
        BY <3>2, <3>3 DEF PbFile
      <4> QED
        BY <1>1, <1>3, <1>5, <3>1, <4>1 DEF PbChosen
    <3>4. CASE b \notin {PbFile(f) : f \in ToSet(run.imported)}
      <4>1. {PbFile(f) : f \in ToSet(run.imported)}' = {PbFile(f) : f \in ToSet(run.imported)}
        BY <1>1, <1>5 DEF PbFile
      <4>2. b \in (pbs \ {PbFile(f) : f \in ToSet(run.imported)})'
        BY <1>1, <3>4, <4>1
      <4> QED
        BY <1>1, <1>3, <1>5, <3>1, <3>2, <4>2 DEF PbChosen
    <3> QED
      BY <3>3, <3>4
  <2> QED
    BY <2>1, <2>2
<1> QED
  BY <1>1, <1>8, <1>9, <1>10, <1>11, <1>12 DEF ProjectInv, Numbered

LEMMA GenerateKeeps ==
    ASSUME ProjectInv, NEW multiple \in BOOLEAN, NEW client \in BOOLEAN, Generate(multiple, client)
    PROVE  ProjectInv'
<1>1. /\ proto \in Proto /\ Accepts(proto, multiple) /\ ~Running
      /\ runs \in Nat /\ runs' = runs + 1
      /\ UNCHANGED <<proto, files, pbs, torn>>
  BY DEF ProjectInv, Generate
<1>2. run' = [at |-> "imports", proto |-> proto, multiple |-> multiple, client |-> client,
              imported |-> <<>>, pb |-> NoDir, todo |-> <<>>]
  BY DEF Generate
<1>3. run' # Idle /\ runs' \in Nat /\ runs' \in 1 .. runs' /\ 1 .. runs \subseteq 1 .. runs' /\ runs' \notin 1 .. runs
  BY <1>1, <1>2 DEF Idle
<1>4. RunShape'
  <2>1. run' \in [at : Stages, proto : Proto, multiple : BOOLEAN, client : BOOLEAN,
                  imported : Seq(ProtoFile), pb : ToSet(GoDirs) \cup {NoDir}, todo : Seq(Due')]
    BY <1>1, <1>2 DEF Stages
  <2>2. Accepts(proto, multiple)' = Accepts(proto, multiple)
    BY <1>1
  <2> QED
    BY <1>1, <1>2, <2>1, <2>2 DEF RunShape
<1>5. FilesShape'
  BY <1>1, <1>3 DEF ProjectInv, FilesShape, FileShape
<1>6. EmptyTorn'
  BY <1>1, <1>2 DEF ProjectInv, EmptyTorn, Running
<1>7. Delivered' /\ PbThere' /\ PbChosen'
  BY <1>2 DEF Delivered, PbThere, PbChosen
<1>8. FreshIsDue'
  <2>1. ASSUME NEW f \in RpcFile PROVE ~Fresh(f)'
    <3>1. files'[f] = files[f] /\ FileShape(f)
      BY <1>1 DEF ProjectInv, FilesShape
    <3> QED
      BY <1>3, <3>1 DEF FileShape, Fresh, Absent, Empty, Edited
  <2> QED
    BY <2>1 DEF FreshIsDue
<1> QED
  BY <1>1, <1>3, <1>4, <1>5, <1>6, <1>7, <1>8 DEF ProjectInv, Numbered

LEMMA DieKeeps ==
    ASSUME ProjectInv, Die
    PROVE  ProjectInv'
<1>1. /\ run' = Idle /\ UNCHANGED <<proto, files, pbs, runs>>
      /\ torn' = IF run.at = "opened" THEN torn \cup {Current.file} ELSE torn
  BY DEF Die
<1>2. FilesShape'
  BY <1>1 DEF ProjectInv, FilesShape, FileShape
<1>3. EmptyTorn'
  BY <1>1 DEF ProjectInv, EmptyTorn
<1> QED
  BY <1>1, <1>2, <1>3, RunningIsRun
     DEF ProjectInv, RunShape, Numbered, Delivered, FreshIsDue, PbThere, PbChosen

(***************************************************************************)
(* The user                                                                *)
(***************************************************************************)
LEMMA ProtoKeeps ==
    ASSUME ProjectInv, NEW p \in Proto, proto' = p,
           UNCHANGED <<layout, files, pbs, run, torn, runs>>
    PROVE  ProjectInv'
<1>1. Due' = Due
  BY SameDue
<1>2. RunShape' /\ Numbered' /\ EmptyTorn'
  BY <1>1 DEF ProjectInv, RunShape, Numbered, EmptyTorn, Current
<1>3. FilesShape'
  BY DEF ProjectInv, FilesShape, FileShape
<1>4. Delivered' /\ FreshIsDue'
  BY <1>1 DEF ProjectInv, Delivered, FreshIsDue, Fresh
<1>5. PbThere' /\ PbChosen'
  BY DEF ProjectInv, PbThere, PbChosen, PbFile, MainPb
<1> QED
  BY <1>2, <1>3, <1>4, <1>5 DEF ProjectInv

LEMMA WalkKeeps ==
    ASSUME ProjectInv, UNCHANGED layout, UNCHANGED rpcVars
    PROVE  ProjectInv'
<1>1. Due' = Due
  BY SameDue DEF rpcVars
<1>2. RunShape' /\ Numbered' /\ EmptyTorn'
  BY <1>1 DEF ProjectInv, RunShape, Numbered, EmptyTorn, Current, rpcVars
<1>3. FilesShape'
  BY DEF ProjectInv, FilesShape, FileShape, rpcVars
<1>4. Delivered' /\ FreshIsDue'
  BY <1>1 DEF ProjectInv, Delivered, FreshIsDue, Fresh, rpcVars
<1>5. PbThere' /\ PbChosen'
  BY DEF ProjectInv, PbThere, PbChosen, PbFile, MainPb, rpcVars
<1> QED
  BY <1>2, <1>3, <1>4, <1>5 DEF ProjectInv, rpcVars

LEMMA UserKeeps ==
    ASSUME ProjectInv, NEW f \in Touched, Edit(f) \/ DeleteFile(f)
    PROVE  ProjectInv'
<1>1. /\ run' = Idle /\ UNCHANGED <<proto, pbs, runs>> /\ torn' = torn \ {f} /\ ~Running
      /\ files' = [files EXCEPT ![f] = Edited] \/ files' = [files EXCEPT ![f] = Absent]
  BY DEF Edit, DeleteFile
<1>2. f \in Kept /\ f \in RpcFile
  BY TouchedInFiles DEF Kept
<1>3. /\ files' = [g \in RpcFile |-> files'[g]]
      /\ files'[f] \in {Edited, Absent}
      /\ \A g \in RpcFile : g # f => files'[g] = files[g]
  <2>1. files = [g \in RpcFile |-> files[g]]
    BY DEF ProjectInv, FilesShape
  <2> QED
    BY <1>1, <1>2, <2>1
<1>4. FilesShape'
  <2>1. ASSUME NEW g \in RpcFile PROVE FileShape(g)'
    <3>1. CASE g = f
      BY <1>2, <1>3, <3>1 DEF FileShape
    <3>2. CASE g # f
      BY <1>1, <1>3, <3>2 DEF ProjectInv, FilesShape, FileShape
    <3> QED
      BY <3>1, <3>2
  <2> QED
    BY <1>3, <2>1 DEF FilesShape
<1>5. EmptyTorn'
  <2> SUFFICES ASSUME NEW g \in RpcFile, files'[g] = Empty PROVE g \in torn'
    BY DEF EmptyTorn
  <2>1. g # f
    BY <1>3 DEF Edited, Absent, Empty
  <2> QED
    BY <1>1, <1>3, <2>1 DEF ProjectInv, EmptyTorn, Running
<1> QED
  BY <1>1, <1>4, <1>5, RunningIsRun
     DEF ProjectInv, RunShape, Numbered, Delivered, FreshIsDue, PbThere, PbChosen

(***************************************************************************)
(* Every behaviour                                                         *)
(***************************************************************************)
LEMMA ProjectInit == Init => ProjectInv /\ WalkInit
<1> SUFFICES ASSUME Init PROVE ProjectInv
  BY DEF Init
<1>1. FilesShape /\ EmptyTorn
  BY DEF Init, FilesShape, FileShape, EmptyTorn, Absent, Empty
<1> QED
  BY <1>1, RunningIsRun
     DEF Init, ProjectInv, RunShape, Numbered, Delivered, FreshIsDue, PbThere, PbChosen

\* A step of a project is one of the walk for its imports, or leaves that alone.
LEMMA StepIsWalk == ProjectInv /\ [Next]_vars => [WalkNext]_walkVars
<1> SUFFICES ASSUME ProjectInv, [Next]_vars PROVE [WalkNext]_walkVars
  OBVIOUS
<1>1. ASSUME NEW m \in BOOLEAN, NEW c \in BOOLEAN, Generate(m, c) PROVE WalkNext
  <2>1. proto \in Proto /\ ResolveImports(Says[proto].layout)
    BY <1>1 DEF ProjectInv, Generate
  <2>2. Says[proto].layout \in Layouts
    BY <2>1, ProtoAssumption
  <2> QED
    BY <2>1, <2>2 DEF WalkNext
<1>2. CASE proto # NoProto /\ \E m \in Modes[proto] : Generate(m[1], m[2])
  <2>1. PICK m \in Modes[proto] : Generate(m[1], m[2])
    BY <1>2
  <2>2. m \in BOOLEAN \X BOOLEAN
    BY <1>2, ProtoAssumption DEF ProjectInv
  <2> QED
    BY <1>1, <2>1, <2>2
<1>3. CASE Collect
  BY <1>3 DEF Collect, WalkNext
<1>4. CASE Die
  BY <1>4 DEF Die, WalkNext
<1>5. CASE ProtoTmpl \/ Collected \/ Protoc \/ SetPbDir \/ Skip \/ Open \/ Write \/ Finish
  BY <1>5 DEF ProtoTmpl, Collected, Protoc, SetPbDir, Skip, Open, Write, Finish
<1>6. CASE proto # NoProto /\ \E p \in Becomes[proto] : ChangeProto(p)
  BY <1>6 DEF ChangeProto
<1>7. CASE \E f \in Touched : Edit(f) \/ DeleteFile(f)
  BY <1>7 DEF Edit, DeleteFile
<1>8. CASE UNCHANGED vars
  BY <1>8 DEF vars
<1> QED
  BY <1>2, <1>3, <1>4, <1>5, <1>6, <1>7, <1>8 DEF Next

LEMMA ProjectStep == ProjectInv /\ WalkInv /\ [Next]_vars => ProjectInv'
<1> SUFFICES ASSUME ProjectInv, WalkInv, [Next]_vars PROVE ProjectInv'
  OBVIOUS
<1>1. CASE ProtoTmpl
  BY <1>1, ProtoKeeps, ProtoAssumption DEF ProtoTmpl, walkVars
<1>2. CASE proto # NoProto /\ \E m \in Modes[proto] : Generate(m[1], m[2])
  <2>1. PICK m \in Modes[proto] : Generate(m[1], m[2])
    BY <1>2
  <2>2. m[1] \in BOOLEAN /\ m[2] \in BOOLEAN
    BY <1>2, ProtoAssumption DEF ProjectInv
  <2> QED
    BY <2>1, <2>2, GenerateKeeps
<1>3. CASE Collect
  <2>1. UNCHANGED layout
    BY <1>3 DEF Collect, collectImports, Read, Fail, SkipImport, Descend, Return
  <2> QED
    BY <1>3, <2>1, WalkKeeps DEF Collect
<1>4. CASE Collected
  BY <1>4, CollectedKeeps DEF WalkInv
<1>5. CASE Protoc
  BY <1>5, ProtocKeeps
<1>6. CASE SetPbDir
  BY <1>6, SetPbDirKeeps
<1>7. CASE Skip
  BY <1>7, SkipKeeps
<1>8. CASE Open
  BY <1>8, OpenKeeps
<1>9. CASE Write
  BY <1>9, WriteKeeps
<1>10. CASE Finish
  BY <1>10, FinishKeeps
<1>11. CASE Die
  BY <1>11, DieKeeps
<1>12. CASE proto # NoProto /\ \E p \in Becomes[proto] : ChangeProto(p)
  <2>1. PICK p \in Becomes[proto] : ChangeProto(p)
    BY <1>12
  <2>2. p \in Proto
    BY <1>12, ProtoAssumption DEF ProjectInv
  <2> QED
    BY <2>1, <2>2, ProtoKeeps DEF ChangeProto, walkVars
<1>13. CASE \E f \in Touched : Edit(f) \/ DeleteFile(f)
  BY <1>13, UserKeeps
<1>14. CASE UNCHANGED vars
  BY <1>14, WalkKeeps DEF vars, walkVars, rpcVars
<1> QED
  BY <1>1, <1>2, <1>3, <1>4, <1>5, <1>6, <1>7, <1>8, <1>9, <1>10, <1>11, <1>12, <1>13, <1>14 DEF Next

\* The invariant of any number of runs, and of the walk in each of them.
THEOREM ProjectInvariant == Spec => [](ProjectInv /\ WalkInv)
<1>1. Init => ProjectInv /\ WalkInv
  BY ProjectInit, NothingVisited DEF WalkInit
<1>2. (ProjectInv /\ WalkInv) /\ [Next]_vars => (ProjectInv /\ WalkInv)'
  BY StepIsWalk, WalkStep, ProjectStep
<1>3. QED
  BY <1>1, <1>2, PTL DEF Spec

\* A run on a project walks the imports as ProtoImports specifies it.
THEOREM ProjectWalks == Spec => WalkSpec
<1>1. Init => WalkInit
  BY ProjectInit
<1>2. ProjectInv /\ [Next]_vars => [WalkNext]_walkVars
  BY StepIsWalk
<1>3. QED
  BY <1>1, <1>2, ProjectInvariant, PTL DEF Spec, WalkSpec

(***************************************************************************)
(* What a run that got through has left                                    *)
(***************************************************************************)
\* The files of a run that is done.
LEMMA DoneFacts ==
    ASSUME ProjectInv, Done
    PROVE  /\ run.proto \in Proto /\ run.multiple \in BOOLEAN /\ run.client \in BOOLEAN
           /\ Accepts(run.proto, run.multiple) /\ run.pb # NoDir /\ run # Idle
           /\ Due = JobsOf(run.proto, run.imported, run.pb, run.multiple, run.client)
           /\ \A j \in Due : \/ j.rewrite /\ files[j.file] = Generated(j.text, runs)
                             \/ ~j.rewrite /\ files[j.file] # Absent
           /\ \A j \in Due : Fresh(j.file) => files[j.file].text = j.text
<1>1. run.at = "done" /\ run # Idle /\ RunShape /\ Delivered /\ FreshIsDue
  BY RunningIsRun DEF Done, ProjectInv, Stages
<1>2. run.pb # NoDir /\ run.todo = <<>>
  BY <1>1 DEF RunShape
<1>3. ToSet(run.todo) = {}
  BY <1>2 DEF ToSet
<1>4. Due = JobsOf(run.proto, run.imported, run.pb, run.multiple, run.client)
  BY <1>2 DEF Due
<1>5. ASSUME NEW j \in Due, Fresh(j.file) PROVE files[j.file].text = j.text
  <2>1. j.file \in RpcFile /\ j.file # Etc(run.proto)
    BY <1>1, <1>2, DueFacts
  <2>2. PICK k \in Due : k.file = j.file /\ k.text = files[j.file].text
    BY <1>1, <1>5, <2>1 DEF FreshIsDue
  <2>3. k = j
    BY <1>1, <2>2, DueFacts
  <2> QED
    BY <2>2, <2>3
<1>6. \A j \in Due : \/ j.rewrite /\ files[j.file] = Generated(j.text, runs)
                     \/ ~j.rewrite /\ files[j.file] # Absent
  <2> TAKE j \in Due
  <2>1. j \notin ToSet(run.todo)
    BY <1>3
  <2> QED
    BY <1>1, <1>2, <2>1 DEF Delivered
<1> QED
  BY <1>1, <1>2, <1>4, <1>5, <1>6, RunIs

\* The jobs of a service, and what there is of them.
LEMMA ServiceFacts ==
    ASSUME ProjectInv, Done, NEW s \in Services(run.proto)
    PROVE  /\ files[ServerFile(run.multiple, s)] =
                 Generated(ServerText(run.proto, run.imported, run.pb, s), runs)
           /\ run.client => files[CallFile(run.multiple, s)] =
                 Generated(CallText(run.proto, run.imported, run.pb, run.multiple, s), runs)
           /\ \A r \in ToSet(s.rpcs) :
                LET f == LogicFile(run.multiple, s, r)
                IN  /\ f \in RpcFile /\ files[f] # Absent
                    /\ Fresh(f) => files[f].text = LogicText(run.proto, run.imported, run.pb, r)
<1> DEFINE server == ServerJob(run.proto, run.imported, run.pb, run.multiple, s)
           call == CallJob(run.proto, run.imported, run.pb, run.multiple, s)
           logic(r) == LogicJob(run.proto, run.imported, run.pb, run.multiple, s, r)
<1>1. server \in Due /\ (run.client => call \in Due) /\ \A r \in ToSet(s.rpcs) : logic(r) \in Due
  BY DoneFacts, JobsAreThere
<1>2. files[ServerFile(run.multiple, s)] = Generated(ServerText(run.proto, run.imported, run.pb, s), runs)
  <2>1. server.rewrite = TRUE /\ server.file = ServerFile(run.multiple, s)
        /\ server.text = ServerText(run.proto, run.imported, run.pb, s)
    BY DEF ServerJob, Job
  <2> HIDE DEF server
  <2> QED
    BY <1>1, <2>1, DoneFacts
<1>3. ASSUME run.client = TRUE
      PROVE  files[CallFile(run.multiple, s)] =
               Generated(CallText(run.proto, run.imported, run.pb, run.multiple, s), runs)
  <2>1. call.rewrite = TRUE /\ call.file = CallFile(run.multiple, s)
        /\ call.text = CallText(run.proto, run.imported, run.pb, run.multiple, s)
    BY DEF CallJob, Job
  <2> HIDE DEF call
  <2> QED
    BY <1>1, <1>3, <2>1, DoneFacts
<1>4. ASSUME NEW r \in ToSet(s.rpcs)
      PROVE  LET f == LogicFile(run.multiple, s, r)
             IN  /\ f \in RpcFile /\ files[f] # Absent
                 /\ Fresh(f) => files[f].text = LogicText(run.proto, run.imported, run.pb, r)
  <2> DEFINE l == logic(r)
  <2>1. l.rewrite = FALSE /\ l.file = LogicFile(run.multiple, s, r)
        /\ l.text = LogicText(run.proto, run.imported, run.pb, r) /\ l \in Due
    BY <1>1 DEF LogicJob, Job
  <2> HIDE DEF l
  <2>2. l.file \in RpcFile
    BY <2>1, DoneFacts, DueFacts DEF ProjectInv
  <2> QED
    BY <2>1, <2>2, DoneFacts
<1> QED
  BY <1>2, <1>3, <1>4, DoneFacts

LEMMA InvWires == ProjectInv => ServicesWired
<1> SUFFICES ASSUME ProjectInv, Done
             PROVE  /\ Fresh(MainFile(run.proto)) => files[MainFile(run.proto)].text.for = Registered(run.proto)
                    /\ \A s \in Services(run.proto) :
                         LET server == ServerFile(run.multiple, s)
                         IN  /\ Fresh(server) /\ files[server].text.for = Methods(s)
                             /\ run.client => Fresh(CallFile(run.multiple, s))
                             /\ \A r \in ToSet(s.rpcs) :
                                  LET f == LogicFile(run.multiple, s, r)
                                  IN  files[f] # Absent /\ (files[f] = Empty => f \in torn)
  BY DEF ServicesWired, Services
<1>1. ASSUME Fresh(MainFile(run.proto))
      PROVE  files[MainFile(run.proto)].text.for = Registered(run.proto)
  <2> DEFINE main == MainJob(run.proto, run.pb)
  <2>1. main \in Due
    BY DoneFacts, JobsAreThere
  <2>2. main.file = MainFile(run.proto) /\ main.text.for = Registered(run.proto)
    BY DEF MainJob, MainText, Text, Job
  <2> HIDE DEF main
  <2> QED
    BY <1>1, <2>1, <2>2, DoneFacts
<1>2. ASSUME NEW s \in Services(run.proto)
      PROVE  /\ Fresh(ServerFile(run.multiple, s))
             /\ files[ServerFile(run.multiple, s)].text.for = Methods(s)
             /\ run.client => Fresh(CallFile(run.multiple, s))
  <2>1. files[ServerFile(run.multiple, s)] =
          Generated(ServerText(run.proto, run.imported, run.pb, s), runs)
    BY ServiceFacts
  <2>2. ServerText(run.proto, run.imported, run.pb, s).for = Methods(s)
    BY DEF ServerText, Text
  <2>3. run.client => files[CallFile(run.multiple, s)] =
          Generated(CallText(run.proto, run.imported, run.pb, run.multiple, s), runs)
    BY ServiceFacts
  <2>4. \A f, w : files[f] = Generated(w, runs) => Fresh(f) /\ files[f].text = w
    BY DEF Fresh, Generated
  <2> QED
    BY <2>1, <2>2, <2>3, <2>4
<1>3. ASSUME NEW s \in Services(run.proto), NEW r \in ToSet(s.rpcs), NEW f, f = LogicFile(run.multiple, s, r)
      PROVE  files[f] # Absent /\ (files[f] = Empty => f \in torn)
  <2>1. f \in RpcFile /\ files[f] # Absent
    BY <1>3, ServiceFacts
  <2>2. run.at # "opened"
    BY DEF Done
  <2> QED
    BY <2>1, <2>2 DEF ProjectInv, EmptyTorn
<1> QED
  BY <1>1, <1>2, <1>3

LEMMA InvFindsPb == ProjectInv => PbIsFresh
BY DoneFacts DEF ProjectInv, PbChosen, PbIsFresh

LEMMA EditStep ==
    ProjectInv /\ [Next]_vars => [\A f \in RpcFile : Running /\ files[f] = Edited => files'[f] = Edited]_vars
<1> SUFFICES ASSUME ProjectInv, Next, NEW f \in RpcFile, Running, files[f] = Edited
             PROVE  files'[f] = Edited
  BY DEF vars
<1>1. CASE Open
  <2>1. run # Idle /\ run.todo # <<>> /\ RunShape
    BY <1>1, RunningIsRun DEF Open, AtJob, ProjectInv
  <2>2. f \in Kept
    BY DEF ProjectInv, FilesShape, FileShape, Edited, Absent, Empty, Generated
  <2>3. f # Current.file
    BY <1>1, <2>1, <2>2, CurrentFacts, DueFacts DEF Open, Edited, Absent
  <2> QED
    BY <1>1, <2>3 DEF Open, ProjectInv, FilesShape
<1>2. CASE Write
  <2>1. f # Current.file
    BY <1>2, RunningIsRun DEF Write, ProjectInv, RunShape, Edited, Empty, Stages
  <2> QED
    BY <1>2, <2>1 DEF Write, ProjectInv, FilesShape
<1>3. CASE ~Open /\ ~Write
  <2>1. UNCHANGED files
    BY <1>3 DEF Next, ProtoTmpl, Generate, Collect, rpcVars, Collected, Protoc, SetPbDir, Skip, Finish, Die,
                ChangeProto, Edit, DeleteFile
  <2> QED
    BY <2>1
<1> QED
  BY <1>1, <1>2, <1>3

(***************************************************************************)
(* What the files of a service import                                      *)
(***************************************************************************)
LEMMA GreatestOfSome ==
    ASSUME NEW n \in Nat, NEW S, S \subseteq 1 .. n, S # {}
    PROVE  \E i \in S : \A j \in S : j <= i
<1> DEFINE T == {n - i : i \in S}
<1>1. T \subseteq Nat /\ T # {}
  <2>1. \A i \in S : n - i \in Nat
    OBVIOUS
  <2> QED
    BY <2>1
<1>2. PICK m \in T : \A k \in T : m <= k
  <2> HIDE DEF T
  <2> QED
    BY <1>1, LeastOfSome
<1>3. PICK i \in S : m = n - i
  OBVIOUS
<1>4. ASSUME NEW j \in S PROVE j <= i
  <2>1. n - j \in T
    OBVIOUS
  <2>2. n - i <= n - j /\ i \in 1 .. n /\ j \in 1 .. n
    BY <1>2, <1>3, <2>1
  <2> QED
    BY <2>2
<1> QED
  BY <1>4

\* The code takes a message that it can know for what it is.
LEMMA PlainMessage ==
    ASSUME RunShape, run # Idle, NEW s \in Services(run.proto), Plain(s),
           NEW r \in ToSet(s.rpcs), NEW t \in Messages(r)
    PROVE  LET go == resolveRPCTypeRef(run.proto, run.imported, t)
           IN  /\ go = GoPackage(run.proto, t.go)
               /\ go \notin {"interface{}", "unknown"}
               /\ Streams(r) => go = "pb"
<1> DEFINE go == resolveRPCTypeRef(run.proto, run.imported, t)
<1>1. run.proto \in Proto /\ run.imported \in Seq(ProtoFile) /\ s \in Service /\ t \in {r.req, r.resp}
  BY RunIs, ServicesType DEF Messages
<1>2. ~Misread(t) /\ (Streams(r) => t.go = Says[run.proto].dir)
  BY DEF Plain, StreamsForeign
<1>3. t.go \notin {"interface{}", "unknown"} /\ (t.wellKnown => t.go # Says[run.proto].dir)
  BY <1>1, MessagesAssumption
<1>4. CASE t.pkg = ""
  BY <1>2, <1>4 DEF Misread, resolveRPCTypeRef, GoPackage
<1>5. CASE t.pkg = "google"
  <2>1. t.wellKnown
    BY <1>2, <1>5 DEF Misread
  <2> QED
    BY <1>2, <1>3, <1>5, <2>1 DEF resolveRPCTypeRef, GoPackage
<1>6. CASE t.pkg \notin {"", "google"}
  <2> DEFINE S == InPackage(run.imported, t.pkg)
             i == CHOOSE n \in S : \A m \in S : m <= n
  <2>1. {On[layout].goPackage[run.imported[n]] : n \in S} = {t.go}
    BY <1>2, <1>6 DEF Misread
  <2>2. Len(run.imported) \in Nat /\ S \subseteq 1 .. Len(run.imported)
    BY <1>1, LenProperties DEF InPackage
  <2>3. S # {}
    BY <2>1
  <2> HIDE DEF S
  <2>4. i \in S
    BY <2>2, <2>3, GreatestOfSome
  <2>5. BuildProtoPackageMap(run.imported, t.pkg) = On[layout].goPackage[run.imported[i]]
    BY DEF BuildProtoPackageMap, S
  <2> HIDE DEF i
  <2>6. BuildProtoPackageMap(run.imported, t.pkg) = t.go
    BY <2>1, <2>4, <2>5
  <2>7. go = GoPackage(run.proto, t.go)
    BY <1>6, <2>3, <2>6 DEF resolveRPCTypeRef, S
  <2> QED
    BY <1>2, <1>3, <2>7 DEF GoPackage
<1> QED
  BY <1>4, <1>5, <1>6

\* A method names only its own messages, and all of them unless it streams.
LEMMA NamedFacts ==
    ASSUME NEW r
    PROVE  Named(r) \subseteq Messages(r) /\ (~Streams(r) => Named(r) = Messages(r))
BY DEF Named, Messages, Streams

LEMMA LogicFits ==
    ASSUME RunShape, run # Idle, NEW s \in Services(run.proto), Plain(s), NEW r \in ToSet(s.rpcs), NEW pb
    PROVE  LogicText(run.proto, run.imported, pb, r).imports = LogicText(run.proto, run.imported, pb, r).uses
<1> DEFINE go(t) == resolveRPCTypeRef(run.proto, run.imported, t)
<1>1. \A t \in Messages(r) : go(t) \notin {"interface{}", "unknown"} /\ (Streams(r) => go(t) = "pb")
  BY PlainMessage
<1>2. \A ts : Foreign(run.proto, run.imported, ts) = {go(t) : t \in ts} \ {"pb", "interface{}", "unknown"}
  BY DEF Foreign
<1> HIDE DEF go
<1>3. addLogicImports(run.proto, run.imported, r) = Mentioned(run.proto, run.imported, r)
  <2>1. CASE Streams(r)
    <3>1. addLogicImports(run.proto, run.imported, r) = {"pb"}
      BY <2>1 DEF addLogicImports
    <3>2. Mentioned(run.proto, run.imported, r) = {"pb"} \cup {go(t) : t \in Named(r)}
      BY <2>1 DEF Mentioned, go
    <3>3. \A t \in Named(r) : go(t) = "pb"
      BY <1>1, <2>1, NamedFacts
    <3> QED
      BY <3>1, <3>2, <3>3
  <2>2. CASE ~Streams(r)
    <3>1. Mentioned(run.proto, run.imported, r) = {go(t) : t \in Messages(r)}
      BY <2>2, NamedFacts DEF Mentioned, go
    <3>2. \A t \in Messages(r) : Foreign(run.proto, run.imported, {t}) = {} <=> go(t) = "pb"
      <4> TAKE t \in Messages(r)
      <4>1. Foreign(run.proto, run.imported, {t}) = {go(t)} \ {"pb", "interface{}", "unknown"}
        <5>1. {go(u) : u \in {t}} = {go(t)}
          OBVIOUS
        <5> QED
          BY <1>2, <5>1
      <4> QED
        BY <1>1, <4>1
    <3>3. Foreign(run.proto, run.imported, Messages(r)) = {go(t) : t \in Messages(r)} \ {"pb"}
      BY <1>1, <1>2
    <3>4. addLogicImports(run.proto, run.imported, r) =
            ({go(t) : t \in Messages(r)} \ {"pb"}) \cup (IF \E t \in Messages(r) : go(t) = "pb" THEN {"pb"} ELSE {})
      BY <2>2, <3>2, <3>3 DEF addLogicImports
    <3> QED
      BY <3>1, <3>4
  <2> QED
    BY <2>1, <2>2
<1> QED
  BY <1>3 DEF LogicText, Text

\* What the methods of a service mention, they import.
LEMMA MentionedIsForeign ==
    ASSUME RunShape, run # Idle, NEW s \in Services(run.proto), Plain(s)
    PROVE  {"pb"} \cup AllMentioned(run.proto, run.imported, s)
             = {"pb"} \cup Foreign(run.proto, run.imported, AllMessages(s))
<1> DEFINE go(t) == resolveRPCTypeRef(run.proto, run.imported, t)
<1>1. \A r \in ToSet(s.rpcs) : \A t \in Messages(r) :
        go(t) \notin {"interface{}", "unknown"} /\ (Streams(r) => go(t) = "pb")
  BY PlainMessage
<1>2. Foreign(run.proto, run.imported, AllMessages(s)) =
        {go(t) : t \in AllMessages(s)} \ {"pb", "interface{}", "unknown"}
  BY DEF Foreign
<1>3. \A r : Mentioned(run.proto, run.imported, r) =
        (IF Streams(r) THEN {"pb"} ELSE {}) \cup {go(t) : t \in Named(r)}
  BY DEF Mentioned
<1> HIDE DEF go
<1>4. ASSUME NEW x \in AllMentioned(run.proto, run.imported, s), x # "pb"
      PROVE  x \in Foreign(run.proto, run.imported, AllMessages(s))
  <2>1. PICK r \in ToSet(s.rpcs) : x \in Mentioned(run.proto, run.imported, r)
    BY DEF AllMentioned
  <2>2. PICK t \in Named(r) : x = go(t)
    BY <1>3, <1>4, <2>1
  <2>3. t \in Messages(r) /\ t \in AllMessages(s)
    BY <2>2, NamedFacts DEF AllMessages
  <2> QED
    BY <1>1, <1>2, <1>4, <2>2, <2>3
<1>5. ASSUME NEW x \in Foreign(run.proto, run.imported, AllMessages(s))
      PROVE  x \in AllMentioned(run.proto, run.imported, s)
  <2>1. PICK t \in AllMessages(s) : x = go(t) /\ x # "pb"
    BY <1>2, <1>5
  <2>2. PICK r \in ToSet(s.rpcs) : t \in Messages(r)
    BY <2>1 DEF AllMessages
  <2>3. t \in Named(r)
    BY <1>1, <2>1, <2>2, NamedFacts
  <2>4. x \in Mentioned(run.proto, run.imported, r)
    BY <1>3, <2>1, <2>3
  <2> QED
    BY <2>4 DEF AllMentioned
<1> QED
  BY <1>4, <1>5

LEMMA ServerFits ==
    ASSUME RunShape, run # Idle, NEW s \in Services(run.proto), Plain(s), NEW pb
    PROVE  ServerText(run.proto, run.imported, pb, s).imports = ServerText(run.proto, run.imported, pb, s).uses
<1> DEFINE F == Foreign(run.proto, run.imported, AllMessages(s))
           A == AllMentioned(run.proto, run.imported, s)
           C == If(Unary(s), {"context"})
<1>1. {"pb"} \cup A = {"pb"} \cup F
  BY MentionedIsForeign
<1>2. If(s.rpcs # <<>>, {"logic"}) = {"logic"}
  BY DEF Plain, If
<1>3. ServerText(run.proto, run.imported, pb, s).imports = {"logic", "svc", "pb"} \cup C \cup F
  BY DEF ServerText, Text
<1>4. ServerText(run.proto, run.imported, pb, s).uses = {"svc", "pb"} \cup C \cup {"logic"} \cup A
  BY <1>2 DEF ServerText, Text
<1> HIDE DEF F, A, C
<1> QED
  BY <1>1, <1>3, <1>4

LEMMA CallFits ==
    ASSUME RunShape, run # Idle, NEW s \in Services(run.proto), Plain(s), NEW pb, NEW multiple,
           ~(InPbDir(run.proto, pb, multiple, s) /\ Qualified(run.proto, run.imported, s))
    PROVE  CallText(run.proto, run.imported, pb, multiple, s).imports
             = CallText(run.proto, run.imported, pb, multiple, s).uses
<1> DEFINE F == Foreign(run.proto, run.imported, AllMessages(s))
           A == AllMentioned(run.proto, run.imported, s)
           C == If(Aliases(multiple, run.proto, s), {"pb"})
<1>1. {"pb"} \cup A = {"pb"} \cup F
  BY MentionedIsForeign
<1>2. If(s.rpcs # <<>>, {"pb", "context"}) = {"pb", "context"} /\ C \subseteq {"pb"}
  BY DEF Plain, If
<1>3. "pb" \notin F
  BY DEF Foreign
<1>4. CASE InPbDir(run.proto, pb, multiple, s)
  <2>1. CallText(run.proto, run.imported, pb, multiple, s).imports = {"context"} \cup F
    BY <1>4 DEF CallText, Text
  <2>2. If(s.rpcs # <<>>, {"context"}) = {"context"} /\ If(Qualified(run.proto, run.imported, s), {"pb"}) = {}
    BY <1>4 DEF Plain, If
  <2>3. CallText(run.proto, run.imported, pb, multiple, s).uses = {"context"} \cup (A \ {"pb"})
    BY <1>4, <2>2 DEF CallText, Text
  <2> HIDE DEF F, A
  <2> QED
    BY <1>1, <1>3, <2>1, <2>3
<1>5. CASE ~InPbDir(run.proto, pb, multiple, s)
  <2>1. CallText(run.proto, run.imported, pb, multiple, s).imports = {"pb", "context"} \cup F
    BY <1>5 DEF CallText, Text
  <2>2. CallText(run.proto, run.imported, pb, multiple, s).uses = {"pb", "context"} \cup C \cup A
    BY <1>2, <1>5 DEF CallText, Text
  <2> HIDE DEF F, A, C
  <2> QED
    BY <1>1, <1>2, <2>1, <2>2
<1> QED
  BY <1>4, <1>5

LEMMA InvBuilds == ProjectInv => GeneratedBuilds
<1> SUFFICES ASSUME ProjectInv, Done, NEW s \in Services(run.proto), Plain(s)
             PROVE  /\ \A r \in ToSet(s.rpcs) :
                         /\ LET f == LogicFile(run.multiple, s, r) IN Fresh(f) => Fits(f)
                         /\ \A t \in Messages(r) :
                              resolveRPCTypeRef(run.proto, run.imported, t) = GoPackage(run.proto, t.go)
                    /\ Fits(ServerFile(run.multiple, s))
                    /\ run.client /\ ~AliasUnimported(s) => Fits(CallFile(run.multiple, s))
  BY DEF GeneratedBuilds, Services
<1>1. RunShape /\ run # Idle
  BY DoneFacts DEF ProjectInv
<1>2. \A f, w : files[f] = Generated(w, runs) => files[f].text = w
  BY DEF Generated
<1>3. ASSUME NEW r \in ToSet(s.rpcs), NEW f, f = LogicFile(run.multiple, s, r), Fresh(f) PROVE Fits(f)
  <2>1. files[f].text = LogicText(run.proto, run.imported, run.pb, r)
    BY <1>3, ServiceFacts
  <2> QED
    BY <1>1, <2>1, LogicFits DEF Fits
<1>4. Fits(ServerFile(run.multiple, s))
  <2>1. files[ServerFile(run.multiple, s)].text = ServerText(run.proto, run.imported, run.pb, s)
    BY <1>2, ServiceFacts
  <2> QED
    BY <1>1, <2>1, ServerFits DEF Fits
<1>5. ASSUME run.client, ~AliasUnimported(s) PROVE Fits(CallFile(run.multiple, s))
  <2>1. files[CallFile(run.multiple, s)].text = CallText(run.proto, run.imported, run.pb, run.multiple, s)
    BY <1>2, <1>5, ServiceFacts
  <2> QED
    BY <1>1, <1>5, <2>1, CallFits DEF Fits, AliasUnimported
<1> QED
  BY <1>1, <1>3, <1>4, <1>5, PlainMessage

\* The imports that a run on a project passes to protoc are those the walk reaches.
THEOREM ProjectReachesImports == Spec => []ImportsReached
BY ProjectWalks, ResolvesImports, PTL

\* ServicesWired, however often the project was generated before.
THEOREM RunsWireServices == Spec => []ServicesWired
BY ProjectInvariant, InvWires, PTL

\* PbIsFresh, whatever pb files there are from before.
THEOREM RunsFindPb == Spec => []PbIsFresh
BY ProjectInvariant, InvFindsPb, PTL

\* No run touches what the user wrote into a file that is generated once.
THEOREM RunsKeepEdits == Spec => EditsStay
BY ProjectInvariant, EditStep, PTL DEF Spec, EditsStay

\* GeneratedBuilds, whatever the messages of the services are.
THEOREM RunsBuild == Spec => []GeneratedBuilds
BY ProjectInvariant, InvBuilds, PTL
=============================================================================
