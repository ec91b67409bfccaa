---------------------------- MODULE BackupSweep ----------------------------
(***************************************************************************)
(* The end of "api go" (backupAndSweep and ApiFormatByPath, api/gogen and  *)
(* api/format): two goroutines copy the api file to a directory that all   *)
(* runs on the machine share and sweep old copies from it, then the file   *)
(* is rewritten in place. Several runs, on projects of their own, do this  *)
(* at the same time.                                                       *)
(***************************************************************************)
EXTENDS Naturals

CONSTANTS Proc,      \* runs of the generator, each on a project of its own
          Name,      \* Name[p]: the file name, without directory, of p's api file
          Keep,      \* seconds a copy is kept: seven days
          Old,       \* copies that are there at first, if the directory is
          Start,     \* the time at first
          MaxTime,   \* bound: the clock
          MaxSaves,  \* bound: times the user saves an api file
          Saving     \* bound: the runs whose users do

\* The name of a copy: of the file, and the second it was made.
Copy == {Name[p] : p \in Proc} \X (0 .. MaxTime)

ASSUME NameAssumption == DOMAIN Name = Proc
ASSUME ClockAssumption ==
    /\ Keep \in Nat /\ MaxTime \in Nat /\ Start \in 0 .. MaxTime /\ MaxSaves \in Nat
    /\ Old \subseteq Copy /\ \A c \in Old : c[2] <= Start

VARIABLES now,      \* the clock, in seconds
          dir,      \* the directory of copies: absent, open, or barred: a file of
                    \* its name, or one that the users may not enter
          tmpDir,   \* what is under the name of a copy
          file,     \* file[p]: the version the api file holds, or Torn
          at,       \* at[p]: where run p is
          copy,     \* copy[p]: where its first goroutine is
          target,   \* target[p]: the name of its copy
          taken,    \* taken[p]: the version it copied
          sweep,    \* sweep[p]: where its second goroutine is
          limit,    \* limit[p]: keepTime, copies before it are removed
          listed,   \* listed[p]: the names Walk has read and not yet visited
          err,      \* err[p]: the variable the two goroutines share
          data      \* data[p]: the version ApiFormatByPath has read

procVars == <<at, copy, target, taken, sweep, limit, listed, err, data>>
vars == <<now, dir, tmpDir, file, procVars>>

Version == 0 .. MaxSaves
Torn == MaxSaves + 1         \* truncated and not written
NoCopy == [is |-> "absent"]
Partial == [is |-> "partial"]
Whole(p, v) == [is |-> "whole", of |-> p, version |-> v]
GoneBy(p) == [is |-> "gone", by |-> p]
There(c) == tmpDir[c].is \in {"partial", "whole"}

Init == /\ now = Start
        /\ dir \in {"absent", "barred", "open"}
        /\ tmpDir \in [Copy -> {NoCopy, Partial}]
        /\ \A c \in Copy : tmpDir[c] = Partial <=> c \in Old /\ dir = "open"
        /\ file = [p \in Proc |-> 0]
        /\ at = [p \in Proc |-> "generate"]
        /\ copy = [p \in Proc |-> "none"]
        /\ target = [p \in Proc |-> <<Name[p], Start>>]
        /\ taken = [p \in Proc |-> 0]
        /\ sweep = [p \in Proc |-> "none"]
        /\ limit = [p \in Proc |-> 0]
        /\ listed = [p \in Proc |-> {}]
        /\ err = [p \in Proc |-> "none"]
        /\ data = [p \in Proc |-> 0]

\* MkdirAll makes the directory where there is none, or fails: its error is
\* dropped, and the two goroutines are started.
Backup(p) == /\ at[p] = "generate"
             /\ dir' \in IF dir = "absent" THEN {"absent", "open"} ELSE {dir}
             /\ at' = [at EXCEPT ![p] = "wait"]
             /\ copy' = [copy EXCEPT ![p] = "name"]
             /\ sweep' = [sweep EXCEPT ![p] = "list"]
             /\ UNCHANGED <<now, tmpDir, file, target, taken, limit, listed, err, data>>
-----------------------------------------------------------------------------
(* The goroutine that copies.                                                *)

\* The name is worked out before the copy is made.
NameCopy(p) ==
    /\ at[p] = "wait" /\ copy[p] = "name"
    /\ target' = [target EXCEPT ![p] = <<Name[p], now>>]
    /\ copy' = [copy EXCEPT ![p] = "create"]
    /\ UNCHANGED <<now, dir, tmpDir, file, at, taken, sweep, limit, listed, err, data>>

\* os.Create truncates a copy of this name.
CreateCopy(p) ==
    /\ at[p] = "wait" /\ copy[p] = "create" /\ dir = "open"
    /\ tmpDir' = [tmpDir EXCEPT ![target[p]] = Partial]
    /\ copy' = [copy EXCEPT ![p] = "write"]
    /\ UNCHANGED <<now, dir, file, at, target, taken, sweep, limit, listed, err, data>>

WriteCopy(p) ==
    /\ at[p] = "wait" /\ copy[p] = "write"
    /\ tmpDir' = [tmpDir EXCEPT ![target[p]] = Whole(p, file[p])]
    /\ taken' = [taken EXCEPT ![p] = file[p]]
    /\ copy' = [copy EXCEPT ![p] = "done"]
    /\ UNCHANGED <<now, dir, file, at, target, sweep, limit, listed, err, data>>

\* Two unsynchronized writes of err, an interface of two words: one of the two
\* values, or the type of one with the data of the other.
Record(p, own) == IF err[p] = "none" THEN {own} ELSE {err[p], own, "mixed"}

\* Mutation: the goroutine returns before wg.Done when it fails.
CopyFailsUndone(p) ==
    /\ at[p] = "wait" /\ copy[p] \in {"create", "write"}
    /\ copy' = [copy EXCEPT ![p] = "stuck"]
    /\ \E e \in Record(p, "copy") : err' = [err EXCEPT ![p] = e]
    /\ UNCHANGED <<now, dir, tmpDir, file, at, target, taken, sweep, limit, listed, data>>

\* No directory, one of another user, or a full disk.
CopyFails(p) ==
    /\ at[p] = "wait" /\ copy[p] \in {"create", "write"}
    /\ copy' = [copy EXCEPT ![p] = "failed"]
    /\ \E e \in Record(p, "copy") : err' = [err EXCEPT ![p] = e]
    /\ UNCHANGED <<now, dir, tmpDir, file, at, target, taken, sweep, limit, listed, data>>
-----------------------------------------------------------------------------
(* The goroutine that sweeps.                                                *)

\* Mutation: keepTime is in the future.
ListCopiesAhead(p) ==
    /\ at[p] = "wait" /\ sweep[p] = "list" /\ dir # "absent"
    /\ limit' = [limit EXCEPT ![p] = now + Keep]
    /\ listed' = [listed EXCEPT ![p] = {c \in Copy : There(c)}]
    /\ sweep' = [sweep EXCEPT ![p] = "walk"]
    /\ UNCHANGED <<now, dir, tmpDir, file, at, copy, target, taken, err, data>>

\* keepTime, and the names filepath.Walk reads: none in a barred directory.
\* The seconds before keepTime: it has nanoseconds, so the second it is in is
\* one of them, but where it falls on a whole second.
ListCopies(p) ==
    /\ at[p] = "wait" /\ sweep[p] = "list" /\ dir # "absent"
    /\ \E s \in IF now < Keep THEN {0} ELSE {now - Keep, now - Keep + 1} :
          limit' = [limit EXCEPT ![p] = s]
    /\ listed' = [listed EXCEPT ![p] = {c \in Copy : There(c)}]
    /\ sweep' = [sweep EXCEPT ![p] = "walk"]
    /\ UNCHANGED <<now, dir, tmpDir, file, at, copy, target, taken, err, data>>

\* There is no directory, or one whose names can be read and no more: lstat of
\* the first path fails, and info.IsDir() panics on the nil info.
WalkPanics(p) ==
    /\ at[p] = "wait" /\ sweep[p] = "list" /\ dir # "open"
    /\ at' = [at EXCEPT ![p] = "panicked"]
    /\ UNCHANGED <<now, dir, tmpDir, file, copy, target, taken, sweep, limit, listed, err, data>>

\* Mutation: a copy that has been removed is visited again.
VisitStays(p, c) ==
    /\ at[p] = "wait" /\ sweep[p] = "walk"
    /\ c \in listed[p]
    /\ There(c)
    /\ tmpDir' = IF c[2] < limit[p] THEN [tmpDir EXCEPT ![c] = GoneBy(p)] ELSE tmpDir
    /\ listed' = IF c[2] < limit[p] THEN listed ELSE [listed EXCEPT ![p] = @ \ {c}]
    /\ UNCHANGED <<now, dir, file, at, copy, target, taken, sweep, limit, err, data>>

\* Walk visits the names in order; which comes first does not matter here.
Visit(p, c) ==
    /\ at[p] = "wait" /\ sweep[p] = "walk"
    /\ c \in listed[p]
    /\ There(c)
    /\ tmpDir' = IF c[2] < limit[p] THEN [tmpDir EXCEPT ![c] = GoneBy(p)] ELSE tmpDir
    /\ listed' = [listed EXCEPT ![p] = @ \ {c}]
    /\ UNCHANGED <<now, dir, file, at, copy, target, taken, sweep, limit, err, data>>

\* The file is gone: Walk calls the function with the error and a nil info,
\* and info.IsDir() panics, in a goroutine: the process ends.
VisitPanics(p, c) ==
    /\ at[p] = "wait" /\ sweep[p] = "walk"
    /\ c \in listed[p]
    /\ ~There(c)
    /\ at' = [at EXCEPT ![p] = "panicked"]
    /\ listed' = [listed EXCEPT ![p] = {c}]
    /\ UNCHANGED <<now, dir, tmpDir, file, copy, target, taken, sweep, limit, err, data>>

\* Mutation: the result of sweep is stored in err, whatever it is.
SweptStores(p) ==
    /\ at[p] = "wait" /\ sweep[p] = "walk" /\ listed[p] = {}
    /\ sweep' = [sweep EXCEPT ![p] = "done"]
    /\ err' = [err EXCEPT ![p] = "none"]
    /\ UNCHANGED <<now, dir, tmpDir, file, at, copy, target, taken, limit, listed, data>>

Swept(p) ==
    /\ at[p] = "wait" /\ sweep[p] = "walk" /\ listed[p] = {}
    /\ sweep' = [sweep EXCEPT ![p] = "done"] /\ limit' = [limit EXCEPT ![p] = 0]
    /\ UNCHANGED <<now, dir, tmpDir, file, at, copy, target, taken, listed, err, data>>

\* A copy that another user owns cannot be removed.
SweepFails(p, c) ==
    /\ at[p] = "wait" /\ sweep[p] = "walk"
    /\ c \in listed[p] /\ There(c) /\ c[2] < limit[p]
    /\ sweep' = [sweep EXCEPT ![p] = "failed"]
    /\ limit' = [limit EXCEPT ![p] = 0] /\ listed' = [listed EXCEPT ![p] = {}]
    /\ \E e \in Record(p, "sweep") : err' = [err EXCEPT ![p] = e]
    /\ UNCHANGED <<now, dir, tmpDir, file, at, copy, target, taken, data>>
-----------------------------------------------------------------------------
(* The run goes on.                                                          *)

Over(goroutine) == goroutine \in {"done", "failed"}

\* Mutation: the copy is not waited for.
JoinSweep(p) ==
    /\ at[p] = "wait" /\ Over(sweep[p])
    /\ at' = [at EXCEPT ![p] = IF err[p] = "none" THEN "read" ELSE "failed"]
    /\ UNCHANGED <<now, dir, tmpDir, file, copy, target, taken, sweep, limit, listed, err, data>>

Join(p) ==
    /\ at[p] = "wait" /\ Over(copy[p]) /\ Over(sweep[p])
    /\ at' = [at EXCEPT ![p] = IF err[p] = "none" THEN "read" ELSE "failed"]
    /\ UNCHANGED <<now, dir, tmpDir, file, copy, target, taken, sweep, limit, listed, err, data>>

ReadFile(p) ==
    /\ at[p] = "read"
    /\ data' = [data EXCEPT ![p] = file[p]]
    /\ at' = [at EXCEPT ![p] = "format"]
    /\ UNCHANGED <<now, dir, tmpDir, file, copy, target, taken, sweep, limit, listed, err>>

\* What the user has saved since the run began does not parse.
FormatFails(p) ==
    /\ at[p] = "format"
    /\ data[p] # 0
    /\ at' = [at EXCEPT ![p] = "failed"]
    /\ UNCHANGED <<now, dir, tmpDir, file, copy, target, taken, sweep, limit, listed, err, data>>

\* os.WriteFile truncates the file, and writes.
Truncate(p) ==
    /\ at[p] = "format"
    /\ file' = [file EXCEPT ![p] = Torn]
    /\ at' = [at EXCEPT ![p] = "write"]
    /\ UNCHANGED <<now, dir, tmpDir, copy, target, taken, sweep, limit, listed, err, data>>

WriteFile(p) ==
    /\ at[p] = "write"
    /\ file' = [file EXCEPT ![p] = data[p]]
    /\ at' = [at EXCEPT ![p] = "done"]
    /\ UNCHANGED <<now, dir, tmpDir, copy, target, taken, sweep, limit, listed, err, data>>

Ended == {"done", "failed", "panicked", "killed"}

Kill(p) == /\ at[p] \notin Ended
           /\ at' = [at EXCEPT ![p] = "killed"]
           /\ UNCHANGED <<now, dir, tmpDir, file, copy, target, taken, sweep, limit, listed, err, data>>

\* The user saves the api file, at any time but between the two calls of
\* os.WriteFile.
Save(p) == /\ p \in Saving
           /\ file[p] < MaxSaves
           /\ file' = [file EXCEPT ![p] = @ + 1]
           /\ UNCHANGED <<now, dir, tmpDir, procVars>>

Tick == /\ now < MaxTime
        /\ now' = now + 1
        /\ UNCHANGED <<dir, tmpDir, file, procVars>>

Step(p) == \/ Backup(p) \/ NameCopy(p) \/ CreateCopy(p) \/ WriteCopy(p) \/ CopyFails(p)
           \/ ListCopies(p) \/ WalkPanics(p) \/ Swept(p) \/ Join(p)
           \/ \E c \in Copy : Visit(p, c) \/ VisitPanics(p, c) \/ SweepFails(p, c)
           \/ ReadFile(p) \/ FormatFails(p) \/ Truncate(p) \/ WriteFile(p)

Stopped == /\ \A p \in Proc : at[p] \in Ended
           /\ UNCHANGED vars

Next == Tick \/ Stopped \/ \E p \in Proc : Step(p) \/ Kill(p) \/ Save(p)

\* The scheduler runs every process that has something to do.
Spec == Init /\ [][Next]_vars /\ \A p \in Proc : WF_vars(Step(p))
-----------------------------------------------------------------------------
BackupTypeOK ==
    /\ now \in Start .. MaxTime
    /\ dir \in {"absent", "barred", "open"}
    /\ tmpDir \in [Copy -> {NoCopy, Partial} \cup {Whole(p, v) : p \in Proc, v \in Version}
                             \cup {GoneBy(p) : p \in Proc}]
    /\ file \in [Proc -> Version \cup {Torn}]
    /\ at \in [Proc -> {"generate", "wait", "read", "format", "write"} \cup Ended]
    /\ copy \in [Proc -> {"none", "name", "create", "write", "done", "failed"}]
    /\ sweep \in [Proc -> {"none", "list", "walk", "done", "failed"}]
    /\ target \in [Proc -> Copy]
    /\ taken \in [Proc -> Version] /\ data \in [Proc -> Version]
    /\ limit \in [Proc -> 0 .. MaxTime + 1]
    /\ listed \in [Proc -> SUBSET Copy]
    /\ err \in [Proc -> {"none", "copy", "sweep", "mixed"}]

\* While the api file is truncated, also if the run is killed there, the copy
\* of the run holds what was read from it: unless the user has saved the file
\* between the copy and the reading, another run has made a copy of that name
\* in the same second, or the time to keep copies is over.
TornHasCopy ==
    \A p \in Proc : file[p] = Torn =>
      \/ tmpDir[target[p]] = Whole(p, data[p])
      \/ taken[p] # data[p]
      \/ \E q \in Proc \ {p} : target[q] = target[p]
      \/ now >= target[p][2] + Keep

\* No copy is removed before the second in its name is Keep seconds ago, whoever
\* sweeps.
OnlyOldSwept ==
    [][\A c \in Copy : There(c) /\ tmpDir'[c].is = "gone" => now >= c[2] + Keep]_vars

\* An error of either goroutine ends the run before the api file is touched,
\* whatever becomes of the variable they share.
ErrorStopsRun ==
    \A p \in Proc :
      at[p] \in {"read", "format", "write", "done"} => copy[p] = "done" /\ sweep[p] = "done"

\* A run panics only over a copy that another run has removed since it listed
\* the directory: unless MkdirAll, whose error is dropped, has left it without
\* a directory that it may use.
PanicIsRaced ==
    [][\A p \in Proc : at[p] # "panicked" /\ at'[p] = "panicked" =>
         \/ dir # "open"
         \/ listed'[p] # {} /\ \A c \in listed'[p] : \E q \in Proc \ {p} : tmpDir[c] = GoneBy(q)]_vars

\* Every run ends, also when a goroutine fails.
RunsEnd == \A p \in Proc : <>(at[p] \in Ended)
=============================================================================
