# goctlx in TLA+

goctlx (a fork of goctl) is a code generator. It reads `.api` files, `.proto`
files and database schemas and writes go-zero projects; the projects then run
code that goctlx wrote, which is as much its behaviour as the generator's own.
This directory holds TLA+ modules of the parts where order, failure or
concurrency decide whether the result is right, the TLC configurations that
check them on small instances, and proofs that TLAPS checks for all instances.

All paths below are relative to the root of the repository.

Contents: [1 The system](#1-the-system) · [2 The modules](#2-the-modules) ·
[3 What is checked](#3-what-is-checked) · [4 Bounds and fairness](#4-bounds-and-fairness) ·
[5 What is proved](#5-what-is-proved) · [6 Where code and documents disagree](#6-where-code-and-documents-disagree) ·
[7 What is not modelled](#7-what-is-not-modelled) · [8 Plan](#8-plan) · [9 Running it](#9-running-it)

## 1 The system

```
 .api file ──> scanner ──────> parser ─────────────> import loader ─> checks ─> conversion ─> ApiSpec
   ^         (ApiScanner)  (ApiGrammar, ApiParser)    (ApiImport)     (ApiAnalyze, ApiTypes, ApiParse)
   │                            │ tree                                                        │
   └──────── formatter <────────┘                                                             │
             (ApiFormat)                                                                      │
 .api file ──> ANTLR parser, visitor, checks, with GOCTL_EXPERIMENTAL off ──> ApiSpec         │
               (LegacyGrammar, LegacyParser, LegacyApi)                          │            │
                    ┌────────────────────────────────────────────────────────────┴────────────┤
                    v                                                                         v
   project generator: genFile, file by file                              clients, swagger, docs
   (GenProject)                                                           (text only)
                    │ last two steps of "api go"
                    v
   backup and sweep, then format of the api file in place  (BackupSweep)

 generated and then run:  server-sent-events handler (SseHandler, SseStream)
                          cached database models     (ModelCache)

 .proto ──> proto parser ─> import walk ─> protoc ─> RPC generator, file by file
                            (ProtoImports)           (RpcProject)
 schema ──> SQL/Mongo model generator          ~/.goctl: environment, tools, templates
 go.mod and sources ──> migrate
```

The components, with the state each keeps, its operations and what is hard
about it:

| component | state | operations | what is hard | correct means |
|---|---|---|---|---|
| import loader, `pkg/parser/api/parser/{analyzer,api}.go`, `importstack` | import stack, set of imported paths, the nested APIs of each call, statements of each API value | `Parse`, `parseReverse`, `parseImportedAPI`, `mergeAPI`, `Push`/`Pop` | recursion over an arbitrary graph, in Go's random map order, over one stack and one set that all API values share | every reachable file loaded and merged once; a cycle reported exactly when there is one; the verdict does not depend on the order |
| checks and conversion, `api.go`, `filter.go`, `analyzer.go` | the merged statements, the `ApiSpec` under construction | `SelfCheck` and its six checks, `convert2Spec` and its passes | a sequence of passes each of which relies on what earlier ones refused; duplicates told by position | what is accepted converts without an error into a spec that lacks nothing and repeats nothing |
| project generator, `api/gogen` | the files of the project | `genEtc` … `genIntegrationTest`, all through `genFile` | runs that die between creating and writing, runs after the api file has changed, user edits in between | nothing the user wrote is overwritten; after a run that got through, the project serves the api |
| backup, sweep and format, `api/gogen/gen.go`, `api/format` | a directory of copies shared by all runs on the machine, the api file itself | `backupAndSweep`, `sweep`, `Copy`, `ApiFormatByPath` | two goroutines with a shared error, several processes in one directory, an in-place rewrite | the user's api file is never lost; an error stops the run before it is touched |
| server-sent-events handler, `api/gogen/sse_handler.tpl` | a bounded channel, two goroutines, a context | receive, marshal, write, close, cancel | clients that go, logic that panics, ends or does not listen, a full channel | order kept, nothing lost before the close, the handler always returns |
| cached models, `model/sql/template/tpl/customized.tpl` with go-zero's `cachenode.go`, `cleaner.go`, `cachedsql.go` | a table, a Redis, deletes to be retried | `Insert` … `DeleteBatch`, `invalidateCache`, lookups | write and delete are two steps; deletes fail, processes die, lookups overlap | a stale cached answer is on its way out, or there is a known reason why it is not |
| scanner, `pkg/parser/api/scanner` | the text, a position, the newlines seen | `NextToken` and a function for each kind of token | handwritten machines for documents and durations; lines are counted in white space only | no character is lost, no word split, no two tokens at one position |
| parser, `pkg/parser/api/parser/parser.go` | the current token and the next, the tree, a list of errors | a function for each node | a function that gives up returns nil and relies on another to have recorded an error; loops end when a token does not fit | a tree or an error, never both or neither; every loop eats |
| printer and formatter, `pkg/parser/api/{ast,format}` | a buffer of nodes and the line they stand on | `Format` of each node, `format.File` | a line comment swallows what is printed behind it, and comments hang on tokens that move or vanish | what was formatted is accepted and means what it meant, and formatting it again changes nothing |
| legacy parser, `api/parser/g4`, with GOCTL_EXPERIMENTAL off | four maps of what was seen, an import stack, a list of trees | `Parse`, `invoke`, `invokeImportedApi`, `accept…`, `fillTypes`, `fillService` | a struct is read by lines by a grammar without lines; what is stored under one key is looked up under another; nothing recovers after the checks | what the checks accept converts; each file once; names apart |
| proto imports, `rpc/parser/import.go` | a list of files and the set of those visited | `ResolveImports`, `collectImports`, `lookupProtoFile`, `BuildProtoPackageMap` | cycles, diamonds and files shadowed by an earlier directory | what imports lead to, each once |
| RPC generator, `rpc/generator` | the files of a project, the pb files of protoc | `Generate` and its `Gen…` | the pb directory is searched for; imported types decide which packages a file must import; half of the files are written once | generated files import what they mention and build; services are served; edits stay |
| migration, `migrate` | go.mod, sources | four edits, signals | partial failure, interrupted edits | a failed migration can be run again |
| tools and environment, `pkg/goctl`, `pkg/env`, `pkg/downloader` | a cache of binaries, a file of variables | install, download, read, write | torn files taken for good ones | what is installed is whole |
| clients, swagger, docker, kube, mongo, quickstart, plugin, docs | none | text from a spec | nothing but wording | not a question for a model checker |

Interactions that matter: the loader and the checks share the API value (the
checks run on what the loader merged, which is why `ApiAnalyze` extends
`ApiImport`); the project generator reads nothing but the `ApiSpec`, whose
guarantees (`HandlersUnique`, `TypesUnique`) are what makes its file names
distinct; `BackupSweep` begins where `GenProject` ends, on the same api file,
and interacts with other processes only, through the directory of copies; the
generated handler and models share nothing with the generator.

PROJECT.json lists every component with its status and, under "hazards", every
place of the code where one of these difficulties bites.

## 2 The modules

**`ApiImport`** — the loader. The Go call stack of `parseReverse` is
`importManager` itself (each call is between a `Push` and a `Pop`), so the
locals of a call are functions of its file: `todo` is what its range loop over
the map of imports has left, in any order, `list` its nested APIs, `content` the
statements in its API value. `ParseRoot` is `Parse` up to the first
`parseReverse`; for each import, `ImportCycle` is a `Push` that fails,
`SkipImported` a path found in `importSet`, `OpenImport` a new file, with the
four ways in which it may not load (an error, a repeated statement, `log.Fatalln`,
the panic on a file without statements). `MergeNested` and `MergeMismatch` are
`mergeAPI`; `ReturnNested` and `ReturnRoot` the returns. The text of a file is
abstracted to its status, its imports and its syntax version.

**`ApiTypes`**, **`ApiAnalyze`**, **`ApiParse`** — what happens to the loaded
files. `ApiTypes` holds the pure functions over data types, as recursive
functions on terms: what is unresolved (`checkTypeExprContext`), what
`astTypeToSpec` refuses, and what it returns. `ApiAnalyze` extends `ApiImport`
with one action for each pass in the order of the code: `CheckImportStmt`,
`CheckInfoStmt`, `CheckTypeStmt`, `CheckServiceStmt` (or `CheckServiceCrash`,
the nil handler), `CheckTypeDeclareContext`, `FillTypes`, `ResolveTypes`,
`FillService`, `SortSpec`. A token is its text and its position; positions hold
the base name of a file only, so an instance may give two files the same ones, and does
(`TwinBodies`). Comments are left out but for two that a check takes for text: a struct
is empty when it prints as `{}`, which a comment prevents (`Commented`), and routes are
compared as they are printed (`note`).
`ApiParse` is the abstract specification: one step that accepts or rejects,
defined on the set of reachable files without mentioning any order, and that must
come, and that lists the declarations of accepted files in order. `ApiAnalyze` implements it (`ImplementsParse`). A stable sort is defined by rank: an
element comes n-th if n - 1 elements are before it.

**`ApiScanner`** — `NextToken` on any text over an alphabet: `DocumentMode`,
`DurationStep` and `Behind` are the machines of the code; a token is its kind, the
characters it was made from and its position, which `newPosition` computes from
the newlines that were counted.

**`ApiGrammar`**, **`ApiParser`**, **`ApiFormat`** — the recursive descent and the
printer. `ApiGrammar` has one operator for each function of `parser.go`: the list of
steps (expect a token, test the next one, call) that the function may take, as data, so that
`ApiParser` is one small machine, the Go call stack being `stack`. The file is not
given beforehand: `Scanned` lets the scanner return any token of the family when it is asked,
so that every function meets every token it tells apart, with line comments above
and behind. `ApiFormat` says of each node which comments its `Format` keeps, what it leaves out when
empty, and where lines break: also at a comment that is not printed, because the writer
asks a node for its comments and not what its `Format` makes of them (`BreaksLine`).
`Formatted` is the printed file, which a second pass reads with the same parser.

**`LegacyGrammar`**, **`LegacyParser`**, **`LegacyApi`** — the old parser. A rule of
the grammar is a sequence of elements, translated from the generated function
of that rule with the actions of `baseparser.go` and the one predicate, `isNormal`, which
asks whether a field stands alone on its line. ANTLR itself (the prediction of
an alternative, the text of a context) is external and is modelled by what it does; `Visit…` are the
visitor's functions, each with the cases in which it panics, and `accept…` the
checks of a tree. `LegacyApi` is `Parse`: the walk over imports with the maps that all
files share, then the check of type declarations, then the conversion, where a panic
ends the process.

**`ProtoImports`**, **`RpcProject`** — `ProtoImports` is `ResolveImports`, a
step for each iteration of `collectImports` over an explicit stack of calls.
`RpcProject` extends it to `rpc protoc` on one directory, run after run: `Generate`, the walk,
`Protoc` (an outside program, which writes a pb file for each file it is given), `SetPbDir` (the search
for the pb directory), then the files of `Plan` in order, each `Skip`, or
`Open` and `Write`; `Die` comes anywhere. A file stands for what it is for, the packages it imports
and those it mentions.

**`GenProject`** — `DoGenProjectWithModule` on one project, again and again.
`Plan` is the list of calls of `genFile` that a run makes, in order: the fixed
files, the types files (grouped by `KeyOf` as `genTypesWithGroup` does, in any
map order), `routes.go`, handlers, logic, tests. A call is up to three steps:
`RemoveOld` (only types and routes are removed first), `Create` or `Skip`
(`MaybeCreateFile`), `Write`. `Refuse` is the error of `genRoutes` on a timeout or
maxBytes that does not parse, which comes after the types are written and
before routes.go is removed. `Die` may come between any two steps. Between and
during runs the user changes the api file, edits and deletes files. A file is
abstracted to who wrote it and what it declares, serves or is for. `torn` is a
history variable: the files a dead run left empty.

**`BackupSweep`** — the last two steps of the run, for several runs at once.
Each process has its main thread (`Backup`, `Join`, `ReadFile`, `FormatFails`,
`Truncate`, `WriteFile`), the goroutine that copies (`NameCopy`, `CreateCopy`,
`WriteCopy`, `CopyFails`) and the one that sweeps (`ListCopies`, `WalkPanics`,
`Visit`, `VisitPanics`, `Swept`, `SweepFails`). The directory may be missing, and
`MkdirAll`, whose error the code drops, may leave it so (`Backup`); or it is barred:
a file has its name, or its owner lets nobody in. Then `Create` fails, and the walk
finds nothing or panics at its first `lstat` (`WalkPanics`). `keepTime` has
nanoseconds and a name whole seconds, so the second `keepTime` falls into may count
as before it (`ListCopies`). The two goroutines write `err` without
synchronization: when both do, the value is either, or a mixture of the two words
of the interface, but never nil (`Record`). `Kill`, `Save` and `Tick` are the
operating system, the user and the clock. `gone` entries remember who removed a
copy; that is history, used by one property.

**`SseStream`**, **`SseHandler`** — `SseStream` is what the route promises: a
stream of messages, one at a time, that ends only when nothing is pending or
breaks because the client has gone. `SseHandler` is the generated code: the
select loop of the handler goroutine, the logic in its own goroutine with the
deferred close, a channel of `Capacity`, the client and the server's
cancellation outside. The logic is the user's: it sends, ends, panics, and may or
may not watch its context (`watches`). The refinement maps `pending` to what the
handler holds followed by the channel.

**`ModelCache`** — the GORM models generated with `--cache`. Each write method
is the database write, which then leaves in `clearing` the keys that
`invalidateCache` will delete; `Clear` and `ClearFails` are `DelCtx`, key by key
on a cluster; `Retry` and `RetryGivesUp` are go-zero's cleaner; `Crash` loses
both. The generated query methods read the database only, so the cache is
filled by a service that reads the same keys through go-zero's `CachedConn`:
`Miss`, `Query`, `FillRow`, `Fill` are its `QueryRowIndexCtx`. `ghost` is a
history variable: stale keys for which nobody has a delete to do any more.

**`*Proofs`** extend the module they are about; `ApiAnalyzeProofs` and `RpcProjectProofs` also hold the
proofs about `ApiImport` and `ProtoImports`, which those modules extend; **`MC*`** give its constants
values. `RECURSIVE` operators stand only in the legacy modules, about
which nothing is proved.

In every module the operators that carry "Mutation:" in their comment are
plausible bugs of the definition that follows; no specification uses them.
PROJECT.json pairs each with the property that finds it.

## 3 What is checked

Passing runs:

- **import** (`Import.cfg`): `LoadedIsClosed`, a successful load opened exactly what
  the root reaches and that has no cycle; `CycleIsReal`, a diamond of imports is
  not a cycle; `OutcomeDetermined`, the random order never decides whether a load
  succeeds; `MergedOnce`, every loaded file's statements are in the root's API
  once; `LoadTerminates`.
- **api_scanner** (`ApiScanner.cfg`): `ReadAsWritten`, what is written is what is parsed, but for
  two dots in a row and a rune 0, and a timeout names each unit once in descending
  order; `TokensApart`, no two tokens have one position, although newlines in
  documents and strings are not counted.
- **api_parser** (`ApiParser.cfg`): `NilHasError`, a parse that gives up has recorded an error
  and one that gives a tree has not; `BracketsMatch`; `LoopsEat`, every loop consumes; `FormatKeepsMeaning`,
  the formatted file is accepted and means the same, wherever comments stand, with
  the exceptions that section 6 tells of; `FormatSettles`, formatting twice is formatting once, but for a line that was broken by
  a comment that is lost, which formatting again joins.
- **analyze** (`Analyze.cfg`): `SpecIsWhole`, once the checks have passed no type is
  missing in the conversion, no member of an accepted spec, however deep, names a
  struct that the spec lacks, and sorting loses nothing; `NothingTwice`, no type and no
  handler of a group is there twice, but where both stand at one place of files of one base
  name; `ImplementsParse`, the passes implement the order-free verdict and reach one.
- **legacy** (`LegacyApi.cfg`): `ChecksSuffice`, what is checked neither crashes nor lacks a type in the
  conversion; `NamesApart`, routes and handlers differ in a spec of several files, as far
  as the keys of the code can tell; `ImportedOnce`; `LinesAreFields`, the predicate makes the grammar read
  a struct by lines.
- **rpc_project** (`RpcProject.cfg`): `ImportsReached`, the walk returns what imports lead to, each
  once; `GeneratedBuilds`, every file imports what it mentions and nothing else, with the
  exceptions of stale and streaming logic and of a client among the pb files that has an
  alias of their messages; `ServicesWired`, main registers the services it
  was written for and each has its server and its logic; `PbIsFresh`, the pb directory that is found is
  the one just written, unless another file's name ends like the source's; `EditsStay`.
- **gen_project** (`GenProject.cfg`): `EditsKept`, a run never changes what the
  user wrote into a file headed "Safe to edit"; `RoutesAreServed`, after a run
  that got through routes.go serves exactly the routes and each has its handler
  and logic, unless an earlier run died while writing them — later runs take
  the empty file for one the user keeps; `TypesAreDeclared`, every type is in the file
  of its group, which holds nothing else, unless two groups are made into one
  file name, and what is declared twice is so in a file that lost all its types;
  `RefusalKeepsRoutes`, a run that refuses leaves routes.go as it is.
- **backup_sweep** (`BackupSweep.cfg`): `TornHasCopy`, while the api file is
  truncated (also after a kill there) the copy holds it, with three exceptions that
  the code has and the property names: a save between the copy and the reading,
  a copy of the same name in the same second, a time limit that is over; `ErrorStopsRun`, the
  race for the error variable never lets a failed backup through, nor does a
  directory that could not be made;
  `PanicIsRaced`, where the directory is there the nil `FileInfo` is reached only
  over another run's removal; `OnlyOldSwept`; `RunsEnd`, the two goroutines always let the run go on.
- **sse_handler** (`SseHandler.cfg`): `WrittenInOrder`; `ClosedDeliversAll`;
  `HandlerLeaves`, the handler returns when the client has gone and when the
  logic has ended; `LeakOnlyWhenFull`, the logic's goroutine is left behind
  only in a send on a full channel and only if it does not watch its context;
  `ImplementsStream`.
- **model_cache** (`ModelCache.cfg`): `StaleIsAccounted`, with every method, overlapping
  lookups, failing deletes, a cluster and crashes: a stale key is still going
  to be deleted, or it is one of those the methods leave to expiry, lost its
  delete, or was filled late. It fails if anything else could make the cache
  stale. `OnlyGivenUpStale`, when no lookup overlaps a write, the three methods
  that clear the cache leave nothing stale but unique values that rows have
  given up. `setting` says which of the two uses a behaviour is about.

The type invariants of the modules are parts of the inductive invariants of
section 5, and in `ApiAnalyze` of `SpecIsWhole`, which is proved as well.

Runs that TLC must find violated, each of one property that the code or a
document states: **api_format** (`FormattedParses`) and **rpc_stream**
(`LogicImportsFit`); see section 6.

## 4 Bounds and fairness

- **import**: every import graph on three files, self imports included, with every
  assignment of two syntax versions and at most one file that does not load,
  in each of the four ways; and every graph without self imports on four
  files. Three files are the smallest set with a cycle that does not contain
  the root, four the smallest with a diamond below which a cycle may hang. The proofs do not
  bound the number of files.
- **analyze**: every data type of nesting three or less over five leaves, as the
  member of a struct, alone and beside a declaration that refers to it; three
  files that import each other in every way with declarations that fit and
  clash; services in the two imported files with every kind of clash; and two imported files of
  one base name, where what the second declares stands at the places that the first
  uses, or at others. A check compares two statements at a time, so two of a kind are enough.
- **api_scanner**: seven families of texts, each with the characters that one
  function tells apart, up to seven of them: enough for a document to be opened, half closed and
  closed, and for three units of a duration.
- **api_parser**: thirteen families of files, each with a lead that takes the parser to one
  part of the language and then up to eight tokens of all that it tells apart there,
  with one line comment anywhere (none in the three largest families, two behind the
  path of a route). A function
  looks one token ahead, so that all its branches are met within a few tokens.
- **legacy**: twelve families of root files over all tokens of a part of the
  language, up to five of them after the lead; and every world of a root and two
  files of a small catalogue, in which files share a handler under different routes and
  a route under different handlers, with a group and without, with imports of each other, of the root and of a file that is not
  there, reached by an absolute or a relative path.
- **rpc_project**: two runs over five proto files that change services, streams, packages
  and imports, with and without `--multiple` and a client; and one run over each of 432
  graphs of imports of three files in two directories, shadowed and broken files among
  them, and over services whose client is made in the directory of the pb files. The user edits or deletes main and one logic file.
- **gen_project**: three runs, five api files: one run to create, one after
  a change or a death, one to see what the second left. Types and routes move
  between two groups whose types files have one name, and one group is named
  like `types.go`. `WithTest` is `{FALSE}`: tests are written like logic files,
  by the same actions. The user touches one handler and one logic file. A run may
  stop for good, so deadlock is not checked.
- **backup_sweep**: two runs on api files of one name, a directory that is there
  with one old copy, missing or barred, a clock of two values and copies kept for
  two seconds, so that copies of one name in one second and in two both happen, and
  the old copy is over its limit in the second it reaches it or in the next; one
  user saves once. What a sweep has listed and the limit it works with are locals
  of the goroutine, and cleared when it returns.
- **sse_handler**: every subset of the messages marshals; the capacity is far
  below the 16 of the template, so that the channel fills. The proofs do not
  bound either.
- **model_cache**: one row and two writers with every fault, or two rows and two writers
  without (batches need two rows). Unique values, writers and readers are
  symmetric; no liveness is checked under symmetry.

Fairness. `Parse` is sequential code: it goes on while it has a step (weak
fairness of the next-state relation). In `SseHandler` the scheduler runs the
handler goroutine and the server notices a client that has gone (`Fairness`);
nothing makes the user's logic go on, and `LeakOnlyWhenFull` states that
assumption (`LogicGoesOn`) in its own antecedent. In `BackupSweep` the operating
system runs every process that has something to do; ticks, saves and kills are
not fair. `GenProject`, `RpcProject` and `ModelCache` claim no liveness: the first two may be
abandoned at any time, and in the third the promise of the code is about what
remains to be done, not when. That the parser ends is a safety property
(`LoopsEat`, proved): between two tokens it makes a bounded number of calls, and a file is finite.

## 5 What is proved

TLAPS checks these for every value of the constants, under the named
assumptions of the modules (which TLC evaluates in every run).

- **`ApiAnalyzeProofs`**, part I, about `ApiImport`: `LoadTypes`, `LoadInvariant`, `LoadSuccess`
  (`LoadedIsClosed`), `CycleErrorsAreReal` (`CycleIsReal`), for any set of
  files, finite or not. The invariant `LoadInv` says that the stack is a chain of imports
  without repetition, that what left the stack is good, closed under imports and
  acyclic, and that what a file on the stack has not left to visit is finished
  but for the one it waits for. Acyclic is "every set of files has one that imports
  none of the set", which needs no induction; a file that leaves the stack
  keeps it because all its imports left before. At the end the stack is the root
  alone, so everything loaded is finished or the root.
  `MergeInvariant` adds what merging does: the values still to be merged (those of the
  calls on the stack, and of what they have in their lists) hold together exactly the
  loaded files, no file is in two of them or twice in one, and they have one syntax.
  When the root's is the last, it holds each file once: `LoadMergesOnce`
  (`MergedOnce`, where the length of a sequence without repetition is the cardinality
  of its elements). Since each failure is also the fault of a file or a circle that the
  root reaches, and a load without failure has seen them all, the outcome does not
  depend on the order: `LoadIsDetermined` (`OutcomeDetermined`).
- **`ApiAnalyzeProofs`**, part II, about `ApiAnalyze`: `AnalyzeInvariant`, `AnalyzeTypes` (`AnalyzeTypeOK`),
  `AcceptedNothingTwice` (`NothingTwice`), `SortKeepsGroups` (`GroupsKept`),
  `CheckedTypesAreFound` (`CheckedTypesResolve`), `AcceptedSpecIsWhole` (`SpecIsWhole`),
  `ParseGivesTheVerdict` (the safety part of `ImplementsParse`, step by step), for any files,
  imports, statements and data types. `AnalyzeInv` is `MergeInv`, with what each check has seen
  of the merged statements (`Passed`) and what each pass has made of them (`Built`). That the merged
  statements are those of the reachable files, each at one place, comes from `MergeInvariant`
  and a lemma on `FlattenSeq` that says where each element went (`FlattenPlaces`). A stable sort
  is a bijection of places (`SortPlaces`, by `Ranks`: every number below the size of a finite
  set is the rank of one element), so that sorting loses and doubles nothing and the names come out as
  `ApiParse` says, one for each declaration and in order. `WholeInv` says that no resolved member refers to an undeclared name.
  `NothingTwice` excuses what `filterBuilder.check` cannot tell apart, two statements at one place
  of files of one base name (section 6), and so does `ApiParse`: what it refuses is a name at two places.
  One hypothesis is stated where it is needed. `PartsSmaller`: a data type is
  deeper than its parts, as every term that a parser has built is; without it the recursive functions on types
  would not be determined (`ToSpecUnfolds`).
- **`ApiScannerProofs`**: `ScanInvariant`, `ScanReadsAsWritten` (`ReadAsWritten`),
  `ScanSetsTokensApart` (`TokensApart`), for any text. `ScanInv` says that tokens follow each
  other before the current character, that a column counts from a line that stays where it is, and
  that what lies behind belongs to a token or is white space or the first of two dots
  (`Accounted`); for a duration each state of the machine says which units were read
  and that they descend. That positions are different then needs no more than that tokens
  do not overlap: a newline that is not counted moves no line back.
- **`ApiParserProofs`**: `ParserInvariant`, `NilAlwaysHasError` (`NilHasError`), `AcceptedBracketsMatch`
  (`BracketsMatch`), `EveryLoopEats` (`LoopsEat`), for any tokens and comments,
  however many, on both passes. The stack of `ApiParser` is what is left to do, and nothing about
  single tokens is inductive. So a path of *places* is laid over it, one between two steps (`Path`): at a place
  it is known which brackets are open, how many functions may still be called before the next
  token, and what is known of the tokens (`Modes`). `Leads` says which places a step may lie
  between. Each function has a contract (`Cost`, `After`, the mode it returns in), for
  which its `…Keeps` lemma shows that its body is a path that keeps it
  (`BodyKeeps` puts the 55 together), so that a call may be replaced by its body. `ParserInv` says that the
  parser stands at the beginning of a path that ends with nothing open and nothing left to call.
  Two places in the code needed thought. `AdvanceUnchecked` ignores the result of `nextToken`; the error is not
  lost, because whatever comes behind a route returns to the loop over items, whose expectation
  the token that could not be scanned does not meet (`Overlooked`, the mode "rest").
  And `expectPeekToken` is called for its error where nil is returned whatever it says: it always
  records one, because its callers have tried each token it would take (the mode "now").
- **`SseHandlerProofs`**: `SseOrder` (`WrittenInOrder`), `SseClosedDelivers`
  (`ClosedDeliversAll`), `SseImplementsStream` (the refinement, step by step), for
  any capacity and number of messages. The invariant adds to the order of the
  channel how far each goroutine can be seen from the other (`Stages`): the
  channel is closed exactly when the logic has ended, and a handler that left
  over the close left an empty channel.
- **`GenProjectProofs`**: `RunInvariant`, `RunServesRoutes`
  (`RoutesAreServed`), `RunKeepsEdits` (`EditsKept`), `RunRefuses`
  (`RefusalKeepsRoutes`), `RunDeclaresTypes` (`TypesAreDeclared`), for any routes, types,
  api files, groups, fixed files and number of runs. `RunInv` says that what is not served yet is still on the
  list of the run, that an empty file is torn or about to be written, and that
  a run about to refuse has not removed routes.go. What is on the list is proved
  of `Plan` by lemmas on concatenation. For the types `Declared` is added: the types
  file of each key of the run is still on the list, or declares exactly the types of a key
  of that file name.
- **`BackupSweepProofs`**: `SweepInvariant`, `SweepStopsOnError`
  (`ErrorStopsRun`), `SweepKeepsCopy` (`TornHasCopy`), `SweepRemovesOld`
  (`OnlyOldSwept`), `SweepPanicsRaced` (`PanicIsRaced`), for any number of runs
  on any file names, any time to keep copies and any clock. `SweepInv` says
  that an error that was met is in the variable, that what is before a time limit is old enough,
  where the file may be torn, that a finished copy stays but for a copy of its
  name or its age, and that what is listed and gone was removed by another.

- **`RpcProjectProofs`**, about `ProtoImports`: `WalkInvariant`, `ResolvesImports`
  (`ImportsReached`), for any directories, names, proto paths and import graphs.
  `WalkInv` says that a visited file of which an import is not visited is the one
  about to be read or the file of a call, that a call still has before it whatever of
  its file's imports is not visited, and that the walk stays in every set of files
  that holds the source and is closed under imports. When no call is left the first
  two make the visited files closed, and the last makes them the least such set.
  That the first directory of several exists is proved by the well-foundedness
  of finite sets.
- **`RpcProjectProofs`**, about `RpcProject`: `ProjectInvariant`, `ProjectWalks` (the walk of a project is a
  walk of `ProtoImports`, step by step, so that `ImportsReached` holds of it:
  `ProjectReachesImports`), `RunsWireServices` (`ServicesWired`), `RunsFindPb` (`PbIsFresh`),
  `RunsKeepEdits` (`EditsStay`), `RunsBuild` (`GeneratedBuilds`), for any proto files,
  services, streams, imports, directories and number of runs. `ProjectInv` says that what
  a run has to write is still on its list or there, with the right text if it is rewritten each
  time; that what the run itself has written was on the list; that
  an empty file is torn or about to be written; and that the pb directory chosen is the
  right one or comes before it and looks like it. `PlanFacts` says which files a run's list has and that none is
  on it twice. The assumptions are what protoc sees to (`NamesAssumption`: services and the
  methods of one have names of their own), that the search for the pb directory comes by every directory
  (`DirsAssumption`), and what no Go package is called (`MessagesAssumption`). The
  attempt to prove `GeneratedBuilds` corrected it: `Misread`
  now has the case of an unqualified message in another file of the source's proto package, which
  the generator takes for one of the source file, and asks that the files of a package have exactly
  the Go package of the message, where before any one of them was enough.
- **`ModelCacheProofs`**: `CacheInvariant`, `CacheTypes`, `CacheAccountsForStale`
  (`StaleIsAccounted`), `CleaningMethodsClean` (`OnlyGivenUpStale`), for any rows,
  unique values, writers and readers. `StaleIsAccounted` is nearly inductive, since a write makes
  stale only keys of the rows it changes (`TruthMoves`), which it leaves to be deleted or
  to expiry. The other needs that without faults and overlaps a lookup in flight holds what the database says (`LookupsTrue`).

Induction. The provers cannot instantiate the library's induction rules, which
take an operator as a parameter. What is true of all numbers is therefore proved of the *set*
of them for which it holds (`SetInduction`: a set with the first number that with each has the next
one has them all, because otherwise there is a least number outside it). This gives what
`FlattenSeq`, by which statements are merged and the plans of the generators are made, returns
(`FlattenPlaces`, `FlattenFacts`), and what a recursive function on data types is, by the depth of types.

Only model-checked: everything about liveness (`LoadTerminates`, `HandlerLeaves`,
`LeakOnlyWhenFull`, `RunsEnd`, the eventual verdict in `ImplementsParse`), since the
prover has no rule for `ENABLED`; the legacy parser (`ChecksSuffice`, `NamesApart`, `ImportedOnce`,
`LinesAreFields`), whose derivations and visitor are `RECURSIVE` operators, which the prover does
not take; and that formatting keeps the meaning and settles (`FormatKeepsMeaning`, `FormatSettles`). These two compare
the printed text with what the parser makes of it, so that a proof is an induction over the syntax tree,
with a case for each way in which comments stand and lines end.

## 6 Where code and documents disagree

Shown by runs:

- `api_format`: some files that goctl accepts are printed as text that its own parser
  refuses. An empty service with a line comment behind its brace is printed as
  `service foo { // c}` (servicestatement.go:201), and a comment behind the key
  type of a map swallows the bracket (typestatement.go:519). A closing brace
  can stand for the word `@handler` after a `@doc`. `format.File` has replaced the file then.
- `rpc_stream`: for an RPC that streams, `addLogicImports` imports the package of
  the service alone (genlogic.go:177), while the logic of one that streams only its response
  has the request in its signature: with a request of an imported package it does not compile.

Met while modelling and not shown by a run:

- A file that was formatted may be changed by formatting it again. `Writer.write`
  (ast/writer.go:373) breaks the line for a comment of any node it is given, and
  `PathExpr.Format` and `BodyExpr.Format` (ast/servicestatement.go:453, 520) drop some of those
  comments: above the brackets or the star of a body, behind a path that a body follows,
  and at an empty request. The break is printed, the comment is not, and the next time there is no
  reason for the break. `FormatSettles` says that this is all that changes. A comment above the
  parenthesis that closes a request is kept while an empty reply follows and lost the second time.
- A client without `--multiple` in the directory of the pb files (a service `order_svc` and a Go package
  `ordersvc`) imports no pb package and makes no aliases, but for the messages that
  are written with the package of an imported file of the same Go package: `resolveCallTypeRef`
  (typeref.go:79) gives `T = ordersvc.T`, which does not compile there.
- A document ends at the first slash after any star, not after a star directly
  before it: `scanDocument` (scanner.go:494) never leaves its half closed mode, so that
  `/* a * b / c */` ends too early, whatever the comment on the mode says of the form.
- A type or a handler declared at the same line and column of two imported files with one base
  name stands twice in the spec, because `filterBuilder.check` compares positions and
  a position holds the base name only; the test `duplicate_types` says that
  duplicated types are an error.
- A method and path with two different bodies is accepted, because
  `checkServiceStmt` compares the printed route with its bodies;
  api/parser/readme.md:397 says a request method and path must not repeat.
- `Update` of a cached model deletes the keys of the new record only, so a unique
  value that a row gives up stays in the cache (`OnlyGivenUpStale` allows just
  that); README.md:24 says the caches are cleared.
- The comment of `Delete` sends the caller to `DeleteBatch` to have the cache
  cleared; `DeleteBatch` clears nothing, as its own comment says.
- The legacy parser asks nobody for the end of the file: what follows the first
  token that begins no declaration is ignored. Its lexer has no error listener, so that
  unknown characters vanish and `/a.b` is `/ab`. An empty `service foo {}` is read as a type and
  refused, `service foo-api {}` is accepted. `final.serviceM` is never filled, so that "multiple
  service declaration" never comes up; `nestedApiCheck` is never called. Handlers are
  stored without their group and looked up with it. A struct as the type of a field panics.
- `getLatest` (migrate/version.go:21) asks for the path of a module as if it were a
  URL; without a scheme the request fails, so that a migration stops at its beginning.
- api/parser/readme.md:135 says that importing one path twice is an error; only
  the root is checked (`CheckImportStmt`), another file may.
- api/parser/readme.md:398 demands a plain struct, no pointer, for a request body;
  a pointer and a base type are accepted (`BadBody`).
- A service that ends right after `@handler` parses, and `checkServiceStmt`
  dereferences the missing handler (`CheckServiceCrash`).
- `LoadTemplate` (util/pathx/file.go:220) returns the built-in text always, so
  what the `template` commands store has no effect.

## 7 What is not modelled

Text: the wording and layout of generated files, the indentation, alignment and blank lines of
formatted ones, the clients, swagger, docker, kube, docs. Each is a function from
a spec to a string without state. Flags and help. Third-party code, but for the
parts of go-zero's cache that the generated models call and the ANTLR runtime as far as the
legacy grammar needs it. The migration, which fails at its first step (section 6).

Within the modelled parts: the files of middlewares (`genMiddleware`: written
once, like logic); comments between slashes and stars in the formatter; docs in the
legacy parser, and its comparisons of trees, which only tests call; the grammar of proto files, which is that of a
library; collisions of handler names after `getHandlerName`; two
generators at once in one project directory; the values of docs, comments and info
properties; `json.Marshal` beyond whether it succeeds; Redis beyond get, set,
setnx and del; other programs that clean the temporary directory, where the copies
of the api file are kept; that `keepTime` counts calendar days.

## 8 Plan

The order is by weight in the system; what is done is marked.

1. `ApiImport` — done.
2. `ApiTypes`, `ApiAnalyze`, abstract specification `ApiParse`, `ApiAnalyzeProofs` (for both) — done.
3. `SseStream`, `SseHandler`, `SseHandlerProofs` — done.
4. `ModelCache`, `ModelCacheProofs` — done.
5. `GenProject`, `GenProjectProofs` — done; to add: middlewares, handler names that collide.
6. `BackupSweep`, `BackupSweepProofs` — done.
7. `ApiScanner`, `ApiScannerProofs`, `ApiGrammar`, `ApiParser`, `ApiFormat`, `ApiParserProofs` — done; to prove: that
   the printed file is accepted (`FormattedParses` where the exceptions of section 6 do not apply).
8. `ProtoImports`, `RpcProject`, `RpcProjectProofs` (for both) — done.
9. `LegacyGrammar`, `LegacyParser`, `LegacyApi` — done.
10. `InstallCache` — the installation of tools: install, cache and download with
    runs that die.
11. `EnvStore` — the environment in memory and on disk over `SortedMap`.

## 9 Running it

    tlc -workers 2 -config GenProject.cfg MCGenProject.tla
    tlapm BackupSweepProofs.tla

Each run takes at most a few minutes. PROJECT.json names the module and the
configuration of each, the mutants, the lines each definition models, the
hazards and the theorems.
