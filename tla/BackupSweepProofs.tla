------------------------- MODULE BackupSweepProofs -------------------------
(* What the end of "api go" keeps, for any number of runs on any files, kept *)
(* for any time.                                                             *)
EXTENDS BackupSweep, TLAPS

\* An error that a goroutine has met is in the variable the two share.
ErrorsKnown ==
    \A p \in Proc : copy[p] = "failed" \/ sweep[p] = "failed" => err[p] # "none"

\* keepTime is old enough for whatever it sweeps: what is before the limit is
\* Keep seconds old.
LimitsPast == \A p \in Proc : limit[p] = 0 \/ limit[p] + Keep <= now + 1

\* The api file is torn in one place of the run only, and never read there.
TornWhere ==
    \A p \in Proc : /\ file[p] = Torn => at[p] \in {"write", "killed"} /\ copy[p] = "done"

\* A copy that is made stays, but for a run that gives its own the same name
\* and for a sweep.
CopyStays ==
    \A p \in Proc : copy[p] = "done" =>
      \/ tmpDir[target[p]] = Whole(p, taken[p])
      \/ \E q \in Proc \ {p} : target[q] = target[p] /\ copy[q] \notin {"none", "name"}
      \/ now >= target[p][2] + Keep

\* What a run has listed and finds gone, another run has removed.
ListedStay ==
    \A p \in Proc : \A c \in listed[p] :
      There(c) \/ \E q \in Proc \ {p} : tmpDir[c] = GoneBy(q)

\* A run has no copy before its goroutines are started.
NotBegun == \A p \in Proc : at[p] = "generate" => copy[p] = "none"

\* The inductive invariant.
SweepInv == /\ BackupTypeOK /\ NotBegun /\ ErrorsKnown /\ ErrorStopsRun
            /\ LimitsPast /\ TornWhere /\ CopyStays /\ ListedStay

\* The steps of a run, without their number.
RunStep(p) == \/ Backup(p) \/ NameCopy(p) \/ CreateCopy(p) \/ WriteCopy(p) \/ CopyFails(p)
              \/ ListCopies(p) \/ WalkPanics(p) \/ Swept(p) \/ Join(p)
              \/ \E c \in Copy : Visit(p, c) \/ VisitPanics(p, c) \/ SweepFails(p, c)
              \/ ReadFile(p) \/ FormatFails(p) \/ Truncate(p) \/ WriteFile(p)
              \/ Kill(p) \/ Save(p)

LEMMA Clock ==
    /\ MaxTime \in Nat /\ Start \in 0 .. MaxTime /\ Keep \in Nat /\ MaxSaves \in Nat
    /\ Version = 0 .. MaxSaves /\ Torn = MaxSaves + 1 /\ Torn \notin Version
    /\ \A c \in Copy : c[2] \in 0 .. MaxTime
BY ClockAssumption DEF Version, Torn, Copy

LEMMA SweepInit == ASSUME Init PROVE SweepInv
<1>1. \A p \in Proc : <<Name[p], Start>> \in Copy
  BY Clock DEF Copy
<1>2. BackupTypeOK
  BY <1>1, Clock DEF Init, BackupTypeOK, NoCopy, Partial
<1>3. ErrorsKnown /\ ErrorStopsRun /\ LimitsPast /\ CopyStays /\ ListedStay /\ NotBegun
  BY DEF Init, NotBegun, ErrorsKnown, ErrorStopsRun, LimitsPast, CopyStays, ListedStay
<1>4. TornWhere
  <2>1. \A p \in Proc : file[p] = 0
    BY DEF Init
  <2>2. Torn # 0
    BY Clock
  <2> QED
    BY <2>1, <2>2 DEF TornWhere
<1> QED
  BY <1>2, <1>3, <1>4 DEF SweepInv

LEMMA TypeStep ==
    ASSUME SweepInv, NEW p \in Proc, RunStep(p) PROVE BackupTypeOK'
<1>1. BackupTypeOK /\ file[p] \in Version \cup {Torn}
  BY DEF SweepInv, BackupTypeOK
<1>2. at[p] \in {"wait", "read"} => file[p] \in Version
  BY <1>1 DEF SweepInv, TornWhere
<1>0. [limit EXCEPT ![p] = 0] \in [Proc -> 0 .. MaxTime + 1]
  <2>1. 0 \in 0 .. MaxTime + 1
    BY Clock
  <2> QED
    BY <1>1, <2>1 DEF BackupTypeOK
<1>3. CASE Backup(p)
  BY <1>1, <1>3 DEF Backup, BackupTypeOK, Ended
<1>4. CASE NameCopy(p)
  <2>1. now \in 0 .. MaxTime
    <3>1. now \in Start .. MaxTime
      BY <1>1 DEF BackupTypeOK
    <3> QED
      BY <3>1, Clock
  <2>2. <<Name[p], now>> \in Copy
    BY <2>1 DEF Copy
  <2> QED
    BY <1>1, <1>4, <2>2 DEF NameCopy, BackupTypeOK, Ended
<1>5. CASE CreateCopy(p)
  BY <1>1, <1>5 DEF CreateCopy, BackupTypeOK, Ended, Partial
<1>6. CASE WriteCopy(p)
  BY <1>1, <1>2, <1>6 DEF WriteCopy, BackupTypeOK, Ended
<1>7. CASE CopyFails(p)
  BY <1>1, <1>7 DEF CopyFails, Record, BackupTypeOK, Ended
<1>8. CASE ListCopies(p)
  <2>1. (IF now < Keep THEN {0} ELSE {now - Keep, now - Keep + 1}) \subseteq 0 .. MaxTime + 1
    <3>1. now \in Start .. MaxTime
      BY <1>1 DEF BackupTypeOK
    <3> QED
      BY <3>1, Clock
  <2>2. limit' \in [Proc -> 0 .. MaxTime + 1]
    <3>1. PICK s \in 0 .. MaxTime + 1 : limit' = [limit EXCEPT ![p] = s]
      BY <1>8, <2>1 DEF ListCopies
    <3> QED
      BY <1>1, <3>1 DEF BackupTypeOK
  <2> QED
    BY <1>1, <1>8, <2>2 DEF ListCopies, BackupTypeOK, Ended
<1>9. CASE Swept(p)
  BY <1>1, <1>0, <1>9 DEF Swept, BackupTypeOK, Ended
<1>10. CASE Join(p)
  BY <1>1, <1>10 DEF Join, BackupTypeOK, Ended
<1>11. ASSUME NEW c \in Copy, Visit(p, c) PROVE BackupTypeOK'
  BY <1>1, <1>11 DEF Visit, BackupTypeOK, Ended
<1>12. ASSUME NEW c \in Copy, VisitPanics(p, c) PROVE BackupTypeOK'
  BY <1>1, <1>12 DEF VisitPanics, BackupTypeOK, Ended
<1>13. ASSUME NEW c \in Copy, SweepFails(p, c) PROVE BackupTypeOK'
  BY <1>1, <1>0, <1>13 DEF SweepFails, Record, BackupTypeOK, Ended
<1>14. CASE ReadFile(p)
  BY <1>1, <1>2, <1>14 DEF ReadFile, BackupTypeOK, Ended
<1>15. CASE WalkPanics(p) \/ FormatFails(p) \/ Truncate(p) \/ WriteFile(p) \/ Kill(p)
  BY <1>1, <1>15 DEF WalkPanics, FormatFails, Truncate, WriteFile, Kill, BackupTypeOK, Ended
<1>16. CASE Save(p)
  <2>1. file[p] + 1 \in Version
    BY <1>1, <1>16, Clock DEF Save
  <2> QED
    BY <1>1, <1>16, <2>1 DEF Save, procVars, BackupTypeOK, Ended
<1> QED
  BY <1>3, <1>4, <1>5, <1>6, <1>7, <1>8, <1>9, <1>10, <1>11, <1>12, <1>13, <1>14, <1>15, <1>16
    DEF RunStep

LEMMA ErrorsStep ==
    ASSUME SweepInv, NEW p \in Proc, RunStep(p) PROVE ErrorsKnown' /\ ErrorStopsRun' /\ NotBegun'
<1> USE DEF ErrorsKnown, ErrorStopsRun, NotBegun
<1>1. BackupTypeOK /\ ErrorsKnown /\ ErrorStopsRun /\ NotBegun
  BY DEF SweepInv
<1>2. CASE Backup(p) \/ NameCopy(p) \/ CreateCopy(p) \/ WriteCopy(p)
  BY <1>1, <1>2 DEF Backup, NameCopy, CreateCopy, WriteCopy, BackupTypeOK
<1>3. CASE CopyFails(p)
  <2>1. \A e \in Record(p, "copy") : e # "none"
    BY DEF Record
  <2> QED
    BY <1>1, <1>3, <2>1 DEF CopyFails, BackupTypeOK
<1>4. CASE ListCopies(p) \/ WalkPanics(p) \/ Swept(p)
  BY <1>1, <1>4 DEF ListCopies, WalkPanics, Swept, BackupTypeOK
<1>5. ASSUME NEW c \in Copy, SweepFails(p, c) PROVE ErrorsKnown' /\ ErrorStopsRun' /\ NotBegun'
  <2>1. \A e \in Record(p, "sweep") : e # "none"
    BY DEF Record
  <2> QED
    BY <1>1, <1>5, <2>1 DEF SweepFails, BackupTypeOK
<1>6. ASSUME NEW c \in Copy, Visit(p, c) \/ VisitPanics(p, c) PROVE ErrorsKnown' /\ ErrorStopsRun' /\ NotBegun'
  BY <1>1, <1>6 DEF Visit, VisitPanics, BackupTypeOK
<1>7. CASE Join(p)
  BY <1>1, <1>7 DEF Join, Over, BackupTypeOK
<1>8. CASE ReadFile(p) \/ FormatFails(p) \/ Truncate(p) \/ WriteFile(p) \/ Kill(p)
  BY <1>1, <1>8 DEF ReadFile, FormatFails, Truncate, WriteFile, Kill, BackupTypeOK
<1>9. CASE Save(p)
  BY <1>1, <1>9 DEF Save, procVars
<1> QED
  BY <1>2, <1>3, <1>4, <1>5, <1>6, <1>7, <1>8, <1>9 DEF RunStep

LEMMA TornStep ==
    ASSUME SweepInv, NEW p \in Proc, RunStep(p) PROVE TornWhere'
<1> USE DEF TornWhere
<1>1. BackupTypeOK /\ ErrorStopsRun /\ TornWhere
  BY DEF SweepInv
<1>2. CASE Backup(p) \/ NameCopy(p) \/ CreateCopy(p) \/ WriteCopy(p) \/ CopyFails(p)
  BY <1>1, <1>2 DEF Backup, NameCopy, CreateCopy, WriteCopy, CopyFails, BackupTypeOK
<1>3. CASE ListCopies(p) \/ WalkPanics(p) \/ Swept(p) \/ Join(p)
  BY <1>1, <1>3 DEF ListCopies, WalkPanics, Swept, Join, BackupTypeOK, Ended
<1>4. ASSUME NEW c \in Copy, Visit(p, c) \/ VisitPanics(p, c) \/ SweepFails(p, c) PROVE TornWhere'
  BY <1>1, <1>4 DEF Visit, VisitPanics, SweepFails, BackupTypeOK
<1>5. CASE ReadFile(p) \/ FormatFails(p) \/ Kill(p)
  BY <1>1, <1>5 DEF ReadFile, FormatFails, Kill, BackupTypeOK, Ended
<1>6. CASE Truncate(p)
  BY <1>1, <1>6 DEF Truncate, BackupTypeOK, ErrorStopsRun
<1>7. CASE WriteFile(p)
  <2>1. data[p] # Torn
    BY <1>1, Clock DEF BackupTypeOK
  <2> QED
    BY <1>1, <1>7, <2>1 DEF WriteFile, BackupTypeOK
<1>8. CASE Save(p)
  <2>1. file[p] \in Version \cup {Torn} /\ file[p] < MaxSaves
    BY <1>1, <1>8 DEF Save, BackupTypeOK
  <2>2. file[p] + 1 # Torn
    BY <2>1, Clock
  <2> QED
    BY <1>1, <1>8, <2>2 DEF Save, procVars, BackupTypeOK
<1> QED
  BY <1>2, <1>3, <1>4, <1>5, <1>6, <1>7, <1>8 DEF RunStep

\* keepTime is the only one of the facts about the clock that a run changes.
LEMMA LimitStep ==
    ASSUME SweepInv, NEW p \in Proc, RunStep(p) PROVE LimitsPast'
<1> USE DEF LimitsPast
<1>1. BackupTypeOK /\ LimitsPast
  BY DEF SweepInv
<1>2. CASE ListCopies(p)
  <2>1. now \in Nat /\ Keep \in Nat
    <3>1. now \in Start .. MaxTime
      BY <1>1 DEF BackupTypeOK
    <3> QED
      BY <3>1, Clock
  <2>2. PICK s \in IF now < Keep THEN {0} ELSE {now - Keep, now - Keep + 1} :
          limit' = [limit EXCEPT ![p] = s]
    BY <1>2 DEF ListCopies
  <2>3. s = 0 \/ s + Keep <= now + 1
    BY <2>1, <2>2
  <2>4. now' = now
    BY <1>2 DEF ListCopies
  <2> QED
    BY <1>1, <2>2, <2>3, <2>4 DEF BackupTypeOK
<1>3. CASE Swept(p) \/ \E c \in Copy : SweepFails(p, c)
  <2>1. limit' = [limit EXCEPT ![p] = 0] /\ now' = now
    BY <1>3 DEF Swept, SweepFails
  <2> QED
    BY <1>1, <2>1 DEF BackupTypeOK
<1>4. CASE ~ListCopies(p) /\ ~Swept(p) /\ ~\E c \in Copy : SweepFails(p, c)
  <2>1. UNCHANGED <<now, limit>>
    BY <1>4 DEF RunStep, Backup, NameCopy, CreateCopy, WriteCopy, CopyFails, WalkPanics, Join,
         Visit, VisitPanics, ReadFile, FormatFails, Truncate, WriteFile, Kill, Save, procVars
  <2> QED
    BY <1>1, <2>1
<1> QED
  BY <1>2, <1>3, <1>4

\* A copy that is made stays, whichever run r the question is about.
LEMMA CopyStep ==
    ASSUME SweepInv, NEW p \in Proc, RunStep(p) PROVE CopyStays'
<1> USE DEF CopyStays
<1>1. BackupTypeOK /\ CopyStays /\ LimitsPast /\ NotBegun
  BY DEF SweepInv
<1>2. CASE Backup(p) \/ NameCopy(p) \/ CopyFails(p)
  <2>1. UNCHANGED <<now, tmpDir, taken>>
    BY <1>2 DEF Backup, NameCopy, CopyFails
  <2>2. /\ \A q \in Proc : copy[q] \notin {"none", "name"} =>
              target'[q] = target[q] /\ copy'[q] \notin {"none", "name"}
        /\ \A q \in Proc : copy'[q] = "done" => copy[q] = "done"
    BY <1>1, <1>2 DEF Backup, NameCopy, CopyFails, BackupTypeOK, NotBegun
  <2>3. ASSUME NEW r \in Proc, copy'[r] = "done"
        PROVE  \/ tmpDir'[target'[r]] = Whole(r, taken'[r])
               \/ \E q \in Proc \ {r} : target'[q] = target'[r] /\ copy'[q] \notin {"none", "name"}
               \/ now' >= target'[r][2] + Keep
    <3>1. copy[r] = "done" /\ target'[r] = target[r]
      BY <2>2, <2>3
    <3>2. \/ tmpDir[target[r]] = Whole(r, taken[r])
          \/ \E q \in Proc \ {r} : target[q] = target[r] /\ copy[q] \notin {"none", "name"}
          \/ now >= target[r][2] + Keep
      BY <1>1, <3>1
    <3> QED
      BY <2>1, <2>2, <3>1, <3>2
  <2> QED
    BY <2>3 DEF Whole
<1>3. CASE CreateCopy(p) \/ WriteCopy(p)
  <2>1. /\ \A c \in Copy : c # target[p] => tmpDir'[c] = tmpDir[c]
        /\ target' = target /\ now' = now /\ copy[p] \in {"create", "write"}
        /\ copy'[p] \in {"write", "done"}
        /\ \A r \in Proc \ {p} : copy'[r] = copy[r] /\ taken'[r] = taken[r]
    BY <1>1, <1>3 DEF CreateCopy, WriteCopy, BackupTypeOK
  <2>2. copy'[p] = "done" => tmpDir'[target[p]] = Whole(p, taken'[p])
    BY <1>1, <1>3 DEF CreateCopy, WriteCopy, BackupTypeOK
  <2>3. ASSUME NEW r \in Proc \ {p}, copy'[r] = "done"
        PROVE  \/ tmpDir'[target'[r]] = Whole(r, taken'[r])
               \/ \E q \in Proc \ {r} : target'[q] = target'[r] /\ copy'[q] \notin {"none", "name"}
               \/ now' >= target'[r][2] + Keep
    <3>1. CASE target[r] = target[p]
      BY <3>1, <2>1
    <3>2. CASE target[r] # target[p]
      <4>1. target[r] \in Copy
        BY <1>1 DEF BackupTypeOK
      <4>2. tmpDir'[target[r]] = tmpDir[target[r]]
        BY <2>1, <3>2, <4>1
      <4>3. \/ tmpDir[target[r]] = Whole(r, taken[r])
            \/ \E q \in Proc \ {r} : target[q] = target[r] /\ copy[q] \notin {"none", "name"}
            \/ now >= target[r][2] + Keep
        BY <1>1, <2>1, <2>3
      <4> QED
        BY <2>1, <4>2, <4>3
    <3> QED
      BY <3>1, <3>2
  <2> QED
    BY <2>1, <2>2, <2>3
<1>4. ASSUME NEW c \in Copy, Visit(p, c) PROVE CopyStays'
  <2>1. /\ \A d \in Copy : d # c => tmpDir'[d] = tmpDir[d]
        /\ c[2] >= limit[p] => tmpDir' = tmpDir
        /\ UNCHANGED <<now, copy, target, taken>>
    <3>1. c[2] \in Nat /\ limit[p] \in Nat
      BY <1>1, Clock DEF BackupTypeOK
    <3> QED
      BY <1>1, <1>4, <3>1 DEF Visit, BackupTypeOK
  <2>2. c[2] < limit[p] => now >= c[2] + Keep
    <3>1. now \in Nat /\ c[2] \in Nat /\ limit[p] \in Nat /\ Keep \in Nat
      <4>1. now \in Start .. MaxTime /\ limit[p] \in 0 .. MaxTime + 1
        BY <1>1 DEF BackupTypeOK
      <4> QED
        BY <4>1, Clock
    <3>2. limit[p] = 0 \/ limit[p] + Keep <= now + 1
      BY <1>1 DEF LimitsPast
    <3> QED
      BY <3>1, <3>2
  <2>3. c[2] >= limit[p] \/ c[2] < limit[p]
    <3>1. c[2] \in Nat /\ limit[p] \in Nat
      BY <1>1, Clock DEF BackupTypeOK
    <3> QED
      BY <3>1
  <2>4. \A r \in Proc : target[r] \in Copy
    BY <1>1 DEF BackupTypeOK
  <2> QED
    BY <1>1, <2>1, <2>2, <2>3, <2>4
<1>5. ASSUME NEW c \in Copy, VisitPanics(p, c) \/ SweepFails(p, c) PROVE CopyStays'
  BY <1>1, <1>5 DEF VisitPanics, SweepFails, Whole
<1>6. CASE \/ ListCopies(p) \/ WalkPanics(p) \/ Swept(p) \/ Join(p) \/ ReadFile(p)
           \/ FormatFails(p) \/ Truncate(p) \/ WriteFile(p) \/ Kill(p) \/ Save(p)
  <2>1. UNCHANGED <<now, tmpDir, copy, target, taken>>
    BY <1>6 DEF ListCopies, WalkPanics, Swept, Join, ReadFile, FormatFails, Truncate, WriteFile, Kill,
         Save, procVars
  <2> QED
    BY <1>1, <2>1 DEF Whole
<1> QED
  BY <1>2, <1>3, <1>4, <1>5, <1>6 DEF RunStep

\* What is not there and was listed, a run of another number removed.
LEMMA ListedStep ==
    ASSUME SweepInv, NEW p \in Proc, RunStep(p) PROVE ListedStay'
<1> USE DEF ListedStay
<1>1. BackupTypeOK /\ ListedStay
  BY DEF SweepInv
<1>2. CASE CreateCopy(p) \/ WriteCopy(p)
  <2>1. /\ \A c \in Copy : c # target[p] => tmpDir'[c] = tmpDir[c]
        /\ tmpDir'[target[p]].is \in {"partial", "whole"}
        /\ listed' = listed
    BY <1>1, <1>2 DEF CreateCopy, WriteCopy, BackupTypeOK, Partial, Whole
  <2>2. \A q \in Proc : listed[q] \subseteq Copy
    BY <1>1 DEF BackupTypeOK
  <2> QED
    BY <1>1, <2>1, <2>2 DEF There, GoneBy
<1>3. CASE ListCopies(p)
  <2>1. /\ tmpDir' = tmpDir /\ listed'[p] = {c \in Copy : There(c)}
        /\ \A q \in Proc \ {p} : listed'[q] = listed[q]
    BY <1>1, <1>3 DEF ListCopies, BackupTypeOK
  <2>2. ASSUME NEW q \in Proc, NEW c \in listed'[q]
        PROVE  There(c)' \/ \E o \in Proc \ {q} : tmpDir'[c] = GoneBy(o)
    <3>1. There(c)' <=> There(c)
      BY <2>1 DEF There
    <3>2. CASE q = p
      BY <2>1, <2>2, <3>1, <3>2
    <3>3. CASE q # p
      BY <1>1, <2>1, <2>2, <3>1, <3>3
    <3> QED
      BY <3>2, <3>3
  <2> QED
    BY <2>2 DEF GoneBy
<1>4. ASSUME NEW c \in Copy, Visit(p, c) PROVE ListedStay'
  <2>1. /\ \A d \in Copy : d # c => tmpDir'[d] = tmpDir[d]
        /\ tmpDir'[c] = tmpDir[c] \/ tmpDir'[c] = GoneBy(p)
        /\ listed'[p] = listed[p] \ {c}
        /\ \A q \in Proc \ {p} : listed'[q] = listed[q]
    BY <1>1, <1>4 DEF Visit, BackupTypeOK
  <2>2. \A q \in Proc : listed[q] \subseteq Copy
    BY <1>1 DEF BackupTypeOK
  <2>3. There(c)
    BY <1>4 DEF Visit
  <2> QED
    BY <1>1, <2>1, <2>2, <2>3 DEF There, GoneBy
<1>5. ASSUME NEW c \in Copy, VisitPanics(p, c) PROVE ListedStay'
  <2>1. tmpDir' = tmpDir /\ \A q \in Proc : listed'[q] \subseteq listed[q]
    BY <1>1, <1>5 DEF VisitPanics, BackupTypeOK
  <2> QED
    BY <1>1, <2>1 DEF There, GoneBy
<1>6. ASSUME NEW c \in Copy, SweepFails(p, c) PROVE ListedStay'
  <2>1. tmpDir' = tmpDir /\ \A q \in Proc : listed'[q] \subseteq listed[q]
    BY <1>1, <1>6 DEF SweepFails, BackupTypeOK
  <2> QED
    BY <1>1, <2>1 DEF There, GoneBy
<1>7. CASE \/ Backup(p) \/ NameCopy(p) \/ CopyFails(p) \/ WalkPanics(p) \/ Swept(p) \/ Join(p)
           \/ ReadFile(p) \/ FormatFails(p) \/ Truncate(p) \/ WriteFile(p) \/ Kill(p) \/ Save(p)
  <2>1. UNCHANGED <<tmpDir, listed>>
    BY <1>7 DEF Backup, NameCopy, CopyFails, WalkPanics, Swept, Join, ReadFile, FormatFails, Truncate,
         WriteFile, Kill, Save, procVars
  <2> QED
    BY <1>1, <2>1 DEF There, GoneBy
<1> QED
  BY <1>2, <1>3, <1>4, <1>5, <1>6, <1>7 DEF RunStep

LEMMA TickStep == ASSUME SweepInv, Tick PROVE SweepInv'
<1>1. now \in Nat /\ now + 1 \in Start .. MaxTime /\ now' = now + 1
  <2>1. now \in Start .. MaxTime
    BY DEF SweepInv, BackupTypeOK
  <2> QED
    BY <2>1, Clock DEF Tick
<1>2. UNCHANGED <<dir, tmpDir, file, at, copy, target, taken, sweep, limit, listed, err, data>>
  BY DEF Tick, procVars
<1>3. BackupTypeOK'
  BY <1>1, <1>2 DEF SweepInv, BackupTypeOK, Whole, GoneBy, NoCopy, Partial, Copy, Version, Torn, Ended
<1>4. ErrorsKnown' /\ ErrorStopsRun' /\ NotBegun' /\ TornWhere' /\ ListedStay'
  <2>1. ErrorsKnown' /\ ErrorStopsRun' /\ NotBegun'
    BY <1>2 DEF SweepInv, ErrorsKnown, ErrorStopsRun, NotBegun
  <2>2. TornWhere'
    BY <1>2 DEF SweepInv, TornWhere, Torn
  <2>3. ListedStay'
    BY <1>2 DEF SweepInv, ListedStay, There, GoneBy
  <2> QED
    BY <2>1, <2>2, <2>3
<1>5. LimitsPast'
  <2>1. \A p \in Proc : limit[p] \in 0 .. MaxTime + 1 /\ (limit[p] = 0 \/ limit[p] + Keep <= now + 1)
    <3>1. BackupTypeOK /\ LimitsPast
      BY DEF SweepInv
    <3>2. \A p \in Proc : limit[p] \in 0 .. MaxTime + 1
      BY <3>1 DEF BackupTypeOK
    <3> QED
      BY <3>1, <3>2 DEF LimitsPast
  <2>2. \A p \in Proc : limit[p] = 0 \/ limit[p] + Keep <= now + 1 + 1
    BY <1>1, <2>1, Clock
  <2> QED
    BY <1>1, <1>2, <2>2 DEF LimitsPast
<1>6. CopyStays'
  <2>1. \A p \in Proc : target[p][2] \in Nat
    BY Clock DEF SweepInv, BackupTypeOK
  <2>2. \A p \in Proc : now >= target[p][2] + Keep => now + 1 >= target[p][2] + Keep
    BY <1>1, <2>1, Clock
  <2> QED
    BY <1>1, <1>2, <2>2 DEF SweepInv, CopyStays, Whole
<1> QED
  BY <1>3, <1>4, <1>5, <1>6 DEF SweepInv

LEMMA SweepStep == SweepInv /\ [Next]_vars => SweepInv'
<1> SUFFICES ASSUME SweepInv, [Next]_vars PROVE SweepInv'
  OBVIOUS
<1>1. CASE UNCHANGED vars
  <2>1. UNCHANGED <<now, dir, tmpDir, file, at, copy, target, taken, sweep, limit, listed, err, data>>
    BY <1>1 DEF vars, procVars
  <2>2. BackupTypeOK'
    <3>1. BackupTypeOK
      BY DEF SweepInv
    <3> QED
      BY <2>1, <3>1 DEF BackupTypeOK, Ended
  <2>3. ErrorsKnown' /\ ErrorStopsRun' /\ NotBegun' /\ LimitsPast'
    BY <2>1 DEF SweepInv, ErrorsKnown, ErrorStopsRun, NotBegun, LimitsPast
  <2>4. TornWhere'
    BY <2>1 DEF SweepInv, TornWhere, Torn
  <2>5. CopyStays'
    BY <2>1 DEF SweepInv, CopyStays, Whole
  <2>6. ListedStay'
    BY <2>1 DEF SweepInv, ListedStay, There, GoneBy
  <2> QED
    BY <2>2, <2>3, <2>4, <2>5, <2>6 DEF SweepInv
<1>2. ASSUME NEW p \in Proc, RunStep(p) PROVE SweepInv'
  BY <1>2, TypeStep, ErrorsStep, TornStep, LimitStep, CopyStep, ListedStep DEF SweepInv
<1>3. [Next]_vars => \/ Tick \/ UNCHANGED vars \/ \E p \in Proc : RunStep(p)
  BY DEF Next, Stopped, Step, RunStep
<1> QED
  BY <1>1, <1>2, <1>3, TickStep

\* Whatever the runs, the users and the clock do, the invariant holds.
THEOREM SweepInvariant == Spec => []SweepInv
<1>1. Init => SweepInv
  BY SweepInit
<1> QED
  BY <1>1, SweepStep, PTL DEF Spec

\* An error of either goroutine ends the run before the api file is touched.
THEOREM SweepStopsOnError == Spec => []ErrorStopsRun
<1>1. SweepInv => ErrorStopsRun
  BY DEF SweepInv
<1> QED
  BY <1>1, SweepInvariant, PTL

\* While the api file is truncated, the copy of the run holds what was read.
THEOREM SweepKeepsCopy == Spec => []TornHasCopy
<1>1. SweepInv => TornHasCopy
  BY DEF SweepInv, TornWhere, CopyStays, TornHasCopy
<1> QED
  BY <1>1, SweepInvariant, PTL

\* What a step of a run removes is over its time.
LEMMA OldRemoved ==
    ASSUME SweepInv, [Next]_vars, NEW c \in Copy, There(c), tmpDir'[c].is = "gone"
    PROVE  now >= c[2] + Keep
<1>1. BackupTypeOK /\ LimitsPast
  BY DEF SweepInv
<1>2. tmpDir'[c] # tmpDir[c]
  BY DEF There
<1>3. PICK p \in Proc : Visit(p, c) /\ c[2] < limit[p]
  <2>1. CASE UNCHANGED tmpDir
    BY <1>2, <2>1
  <2>2. ASSUME NEW p \in Proc, CreateCopy(p) \/ WriteCopy(p) PROVE FALSE
    <3>1. tmpDir'[c] = tmpDir[c] \/ tmpDir'[c] = Partial \/ tmpDir'[c] = Whole(p, file[p])
      BY <1>1, <2>2 DEF CreateCopy, WriteCopy, BackupTypeOK
    <3> QED
      BY <1>2, <3>1 DEF Partial, Whole
  <2>3. ASSUME NEW p \in Proc, NEW d \in Copy, Visit(p, d)
        PROVE  Visit(p, c) /\ c[2] < limit[p]
    <3>1. tmpDir' = IF d[2] < limit[p] THEN [tmpDir EXCEPT ![d] = GoneBy(p)] ELSE tmpDir
      BY <2>3 DEF Visit
    <3>2. d[2] < limit[p] /\ d = c
      BY <1>1, <1>2, <3>1 DEF BackupTypeOK
    <3> QED
      BY <2>3, <3>2
  <2>4. \/ UNCHANGED tmpDir
        \/ \E p \in Proc : CreateCopy(p) \/ WriteCopy(p) \/ \E d \in Copy : Visit(p, d)
    BY DEF Next, Step, Tick, Stopped, Backup, NameCopy, CopyFails, ListCopies, WalkPanics, Swept, Join,
       VisitPanics, SweepFails, ReadFile, FormatFails, Truncate, WriteFile, Kill, Save, vars
  <2> QED
    BY <2>1, <2>2, <2>3, <2>4
<1>4. now \in Nat /\ c[2] \in Nat /\ limit[p] \in Nat /\ Keep \in Nat
  <2>1. now \in Start .. MaxTime /\ limit[p] \in 0 .. MaxTime + 1
    BY <1>1 DEF BackupTypeOK
  <2> QED
    BY <2>1, Clock
<1>5. limit[p] = 0 \/ limit[p] + Keep <= now + 1
  BY <1>1 DEF LimitsPast
<1> QED
  BY <1>3, <1>4, <1>5

\* No copy is removed before its time.
THEOREM SweepRemovesOld == Spec => OnlyOldSwept
<1> DEFINE Kept == \A c \in Copy : There(c) /\ tmpDir'[c].is = "gone" => now >= c[2] + Keep
<1>1. SweepInv /\ [Next]_vars => Kept
  BY OldRemoved
<1>2. SweepInv /\ [Next]_vars => [Kept]_vars
  BY <1>1
<1> QED
  BY <1>2, SweepInvariant, PTL DEF Spec, OnlyOldSwept

\* Only the walk panics: over the directory, or over a name it has listed.
LEMMA PanicsInWalk ==
    ASSUME SweepInv, Next, NEW p \in Proc, at[p] # "panicked", at'[p] = "panicked"
    PROVE  WalkPanics(p) \/ \E c \in Copy : VisitPanics(p, c)
<1>1. BackupTypeOK
  BY DEF SweepInv
<1>2. CASE Tick \/ Stopped
  BY <1>2 DEF Tick, Stopped, procVars, vars
<1>3. ASSUME NEW q \in Proc, Step(q) \/ Kill(q) \/ Save(q)
      PROVE  WalkPanics(p) \/ \E c \in Copy : VisitPanics(p, c)
  <2>1. CASE \/ NameCopy(q) \/ CreateCopy(q) \/ WriteCopy(q) \/ CopyFails(q) \/ ListCopies(q)
             \/ Swept(q) \/ (\E c \in Copy : Visit(q, c) \/ SweepFails(q, c)) \/ Save(q)
    <3>1. UNCHANGED at
      BY <2>1 DEF NameCopy, CreateCopy, WriteCopy, CopyFails, ListCopies, Swept, Visit,
           SweepFails, Save, procVars
    <3> QED
      BY <3>1
  <2>2. CASE \/ Backup(q) \/ Join(q) \/ ReadFile(q) \/ FormatFails(q) \/ Truncate(q)
             \/ WriteFile(q) \/ Kill(q)
    <3>1. \E v \in {"wait", "read", "failed", "format", "write", "done", "killed"} :
            at' = [at EXCEPT ![q] = v]
      BY <2>2 DEF Backup, Join, ReadFile, FormatFails, Truncate, WriteFile, Kill
    <3> QED
      BY <1>1, <3>1 DEF BackupTypeOK
  <2>3. CASE WalkPanics(q) \/ \E c \in Copy : VisitPanics(q, c)
    <3>1. at' = [at EXCEPT ![q] = "panicked"]
      BY <2>3 DEF WalkPanics, VisitPanics
    <3>2. q = p
      BY <1>1, <3>1 DEF BackupTypeOK
    <3> QED
      BY <2>3, <3>2
  <2> QED
    BY <1>3, <2>1, <2>2, <2>3 DEF Step
<1> QED
  BY <1>2, <1>3 DEF Next

\* A run that has the directory panics only over a copy that another run has
\* removed.
THEOREM SweepPanicsRaced == Spec => PanicIsRaced
<1> DEFINE Raced == \A p \in Proc : at[p] # "panicked" /\ at'[p] = "panicked" =>
             \/ dir # "open"
             \/ listed'[p] # {} /\ \A c \in listed'[p] : \E q \in Proc \ {p} : tmpDir[c] = GoneBy(q)
<1>1. ASSUME SweepInv, Next, NEW p \in Proc, at[p] # "panicked", at'[p] = "panicked"
      PROVE  \/ dir # "open"
             \/ listed'[p] # {} /\ \A c \in listed'[p] : \E q \in Proc \ {p} : tmpDir[c] = GoneBy(q)
  <2>1. BackupTypeOK /\ ListedStay
    BY <1>1 DEF SweepInv
  <2>2. CASE WalkPanics(p)
    BY <2>2 DEF WalkPanics
  <2>3. ASSUME NEW c \in Copy, VisitPanics(p, c)
        PROVE  listed'[p] # {} /\ \A d \in listed'[p] : \E q \in Proc \ {p} : tmpDir[d] = GoneBy(q)
    <3>1. listed'[p] = {c} /\ c \in listed[p] /\ ~There(c)
      BY <2>1, <2>3 DEF VisitPanics, BackupTypeOK
    <3> QED
      BY <2>1, <3>1 DEF ListedStay
  <2> QED
    BY <1>1, <2>2, <2>3, PanicsInWalk
<1>2. SweepInv /\ [Next]_vars => [Raced]_vars
  BY <1>1
<1> QED
  BY <1>2, SweepInvariant, PTL DEF Spec, PanicIsRaced
=============================================================================
