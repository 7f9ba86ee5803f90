# typepeek: a verification project

typepeek answers questions about the public TypeScript interface of an installed
npm package (its exports, declarations, members, signatures, differences between
two versions) from the declarations on disk, never by running the package. This
directory holds TLA+ models of the parts of it whose correctness depends on
order, interleaving, failure and limits, the TLC runs that check small
instances, and proofs that hold for every instance.

Paths below are relative to the repository (`src/` is the source directory of
the repository, so the implementation is under `src/src/`).

## 1. Inventory

| component | state it keeps | operations | what is hard | what makes it correct |
|---|---|---|---|---|
| **Inspection cache** (`inspection/inspection-cache*.ts`) | a private directory: one entry file per identity, `.integrity-key`, `.write-lock`, temporary files | look up, authenticate (HMAC), replay the proof, publish by rename, remove a bad hit | several processes share the directory; killed writers; deletion of the directory; evidence changing between any two reads | a cache may only save work: no answer depends on it; entries are faithful; writers exclude each other; the directory is bounded |
| **Evidence recorder and proof** (`installed-evidence-fingerprint.ts`, `installed-evidence-proof.ts`) | first fingerprint of every text, presence, listing and resolution; limits | record, build a proof, replay it | two readings of one file differ; limits reached half way | an uncertain recording yields no entry |
| **Analysis process** (`analysis-process.ts`, `node-process.ts`, `process-output.ts`) | a worker process, three pipes, an exit, a timer | spawn, collect concurrently, reap the group, judge, retry once, publish | full pipes, descendants that hold pipes open, deadline against a late answer, heap exhaustion | an accepted answer is a whole one; nothing outlives the collection; at most one retry |
| **Protocol wire** (`protocol-wire.ts`) | the pieces of an unfinished line, the exit code | read NDJSON, answer in order, stop on errors or interruption | lines and characters cut by chunks, the byte limit, broken pipes, interruption | each line answered once and in order; exit code 0 means all succeeded |
| **Declaration loading** (`installed-program-loader.ts`, `installed-declaration-resolution.ts`) | pending, loaded and scanned files; text snapshot; allowed package roots | read, scan, resolve, authorise dependencies, create or update the compiler snapshot | cycles, several library modes, order of discovery, budgets | the loaded program is closed under its own references and never leaves the authorised roots |
| **Compiler work session and native sessions** (`compiler-work-session.ts`, `compiler-session.ts`) | operation and byte counters, replay hosts, memoized lookups and the formats of directories, a stored callback error | look up a resolution, a format, a manifest; reserve, memoize, guard callbacks | a limit met inside a native callback, whose fallback must not be believed or kept; one memo for contexts with different roots | a lookup answers as if it were alone; a limit always fails the inspection |
| **Declaration graph** (`installed-declaration-graph.ts`) | work list, visited set, node counter | expand re-exports and references | cyclic re-exports, files met both expanded and not | acceptance means that every reachable re-export and reference resolves |
| **Evidence selection, package boundary** (`installed-evidence.ts`, `installed-package-boundary.ts`) | manifests kept, presences and resolutions observed | find context, package, provider and repository; resolve; choose the authority; trace a declaration | links, nested packages, Plug'n'Play, search depth, an installation that changes between two searches | the selection follows from what was observed; a declaration is attributed to the package that owns it |
| **Public subpath discovery** (`public-subpath-discovery.ts`, `public-subpath-files.ts`) | pending targets and directories, counts, found subpaths, observed listings | select a subpath; expand export-map patterns; traverse; resolve | blocked targets, links in circles, five limits, changes during the traversal | what is found follows from the observed listings; a limit is met exactly; what is listed can be asked for |
| **Declaration projection and queries** (`declaration-*`, `export-*`, `member-*`, `signature-*`, ...) | none between requests | project compiler types into results | TypeScript's own semantics | results match the compiler |
| **Result construction budget** (`result-construction-budget.ts`) | counters of objects, values, bytes and members | reserve, fail | one budget for all the results of a plan | never a partial result |
| **Export pagination** (`export-pagination.ts`) | none; the cursor is in the caller's hands | pages, cursors | a package updated between two pages | the pages of a walk are those of one index |
| **Inspection core and outcome authority** (`core.ts`, `inspection-outcome-authority.ts`) | the analyses of one request | dispatch, run two analyses, compare, enforce an outcome against its request, offer recovery | two analyses of a changing installation, one of which fails; an outcome of another request | both or a failure; an answer is of what was asked and of one evidence |
| **Inspection protocol and requests** (`protocol.ts`, `request-definitions.ts`) | none | validate, suggest recovery | schemas | data tables |
| **CLI and workspace selection** (`cli*.ts`, `workspace-repository.ts`) | parsed options, the repository's layout, directories to visit, an exit code | parse, find the workspace repository through manifests and `pnpm-workspace.yaml`, discover the consuming workspace, invoke, write | options before the command, excluded and nested patterns, four discovery bounds, interruption and broken pipes | the only consumer is selected, otherwise a bound or an ambiguity is told; exit code and output agree |
| **Untrusted data, output safety** | traversal budgets | copy, escape | cycles, getters | |
| **Profiling; benchmarks; tests** | | | | outside the program's answers |

How they interact: the CLI or the protocol wire hands a request to the
inspection core. The core starts an analysis process: the parent spawns a worker
and reads three pipes. The worker selects evidence, looks in the cache, replays
the proof of what it finds, and otherwise loads declarations into a compiler
session, walks the declaration graph, projects the result and sends it back,
with a receipt for the cache. The parent judges the answer and publishes the
entry. The recorder is called by every read the worker makes.

What is hard to test, at the line where it bites, is listed under `hazards` in
`PROJECT.json`, each with the properties that would catch it going wrong or with
the reason why none does yet.

## 2. Plan

The modules are ordered by what would do most harm if it were wrong.

1. **Inspection cache.** `InspectionAuthority` (what an inspection promises with
   no cache in sight), `InspectionCache` (all processes and the directory).
   *Done, with proofs.*
2. **Analysis process.** `AnalysisProcess`. *Done, with proofs.* It covers what
   `InspectionCache` takes as one step, `WorkerFails` or an answer.
3. **Protocol wire.** `ProtocolExchange` (abstract), `ProtocolWire` (detailed).
   *Done, with proofs.*
4. **Declaration loading.** `DeclarationLoading`. *Done, with proofs.*
5. **Declaration graph.** `DeclarationGraph`. *Done, with proofs.*
6. **Native lookups.** `CompilerLookups`. *Done, with proofs.*
7. **Public subpaths.** `PublicSubpaths`. *Done, model-checked.*
8. **Evidence selection.** `EvidenceSelection`. *Done, with proofs.*
9. **Inspection core, plans, comparison, pagination, result budgets.**
   `InspectionQueries`. *Done, with proofs.*
10. **Workspace repository and command line.** `WorkspaceRepository` (patterns as
    operators), `CliInvocation`. *Done, model-checked.*

Left: the entry limits of the evidence recorder and how it derives a search root
(a refinement of `ReadItem` of `InspectionCache`); the bounded traversal of
untrusted data; the choice of the Node augmentation.

Theorems still worth proving: `ExitTellsTheOutcome` of `CliInvocation`, without the
meaning of patterns; and that what a loaded program holds is what
`DeclarationGraph` walks, which would compose modules 4 and 5.

## 3. How the modules are built

Each component has a specification module, an `MC...` module with the values of
its constants, one `.cfg` for each question, and, where something is proved, a
`...Proofs` module. A mutant
(a definition that nothing uses, marked as such) stands before the definition
whose bug it imitates; every checked
property is violated by one of them.

    InspectionOutcomes <- InspectionAuthority <- (refined by) InspectionCache
    ProtocolLines      <- ProtocolExchange    <- (refined by) ProtocolWire
    AnalysisProcess     DeclarationLoading     DeclarationGraph
    CompilerLookups     PublicSubpaths         EvidenceSelection
    InspectionQueries   WorkspaceRepository <- CliInvocation
    Totals <- DeclarationGraph, InspectionQueries

The modules do not share variables, because the components meet only through
values: `InspectionCache` sees an analysis process as a worker that may fail at
any moment or answer; `AnalysisProcess` shows what such an answer is.
`DeclarationLoading` makes the program that `DeclarationGraph` walks, and asks the
lookups of `CompilerLookups`. `EvidenceSelection` ends where loading begins; its
result is the identity that `InspectionQueries` puts into every answer. `Totals` is
what a budget spends on a set of things: the number of the pairs they stand for,
rather than a sum added up by a fold, so that it can be reasoned about.
`CliInvocation` chooses the directory from which `EvidenceSelection` searches.

The newer modules state what an operation promises by a second definition, made
of sets and quantifiers over whole paths and whole installations (`Expected`,
`Reach`, `FilesBelow`, `OutcomesFor`, `Workspaces`, ...), and compare the
step-by-step machine with it. Where the environment may change while the machine
runs, the definition is applied to the installation that was *observed*, or to
some installation of the time.

### 3.1 InspectionOutcomes, InspectionAuthority, InspectionCache

*Data.* Installed evidence is a set of items, each with a version: a text, the
presence of a file, a listing or the answer of one resolution. An analysis is a
function of the request and of what it read, so that a success *is* that pair.
Which package is selected is a function (`Selection`) of the manifests.

*State.* `pc`, `view`, `recorder`, `cacheable`, `candidate`, `replayed` and
`reply` are one inspection's parent and worker; `dir`, `lock`, `keyFile`,
`entries` and `tmps` are the private directory with `.write-lock`,
`.integrity-key`, the entry files and the temporary files. `seen` is history:
every version an item had while the inspection ran.

*Actions.* `Begin`; the worker's `ReadManifest`, `SelectModule`, `LookUp`,
`Authenticate`, `ReplayItem`, `CacheMiss`, `CacheHit`, `AnalyzeItem`,
`FinishAnalysis` and `AnalysisFails` (`analyze.ts`, `inspection-cache*.ts`,
`installed-evidence-*.ts`); the parent's `AcceptAnswer`, `RejectAnswer`,
`RetryWithoutCache` and `WorkerFails` (`analysis-process.ts`); the publication
`PrepareDirectory` to `Unlock`, one action for each file-system call, because
other processes run between them (`inspection-cache-files.ts`). The environment
edits evidence at any moment, kills a parent, deletes the directory, damages an
entry or moves it under another name.

*Abstract specification.* `InspectionAuthority` has no cache: an inspection may
answer with a success only if every item of its view was current at some moment
of this inspection. `CacheIsInvisible` says that the cache implements it. It is
the sentence of ADR 0007, "can reduce reuse but cannot change an Inspection
Outcome", with its exact meaning: an answer need not be a snapshot, since neither
the analysis nor the replay is atomic, but it never uses evidence from before
the question.

### 3.2 AnalysisProcess

One worker process with three pipes, in chunks. `Write`, `Finish`,
`ExhaustHeap`, `Crash` and `Fork` (a descendant that keeps the pipes open) are
the worker; `Read`, `EndOfStream`, `Reap`, `Collected` and `Terminate` the
concurrent collection and the process-group finalizer (`process-output.ts`,
`node-process.ts`); `Deadline` and `PipeFails` interrupt it; `Fail`, `Invalidate`,
`RetryWithoutCache` and `Accept` judge what was collected
(`analysis-process.ts`). Output that passes its limit in the middle of a chunk,
an exit that arrives before or after the pipes end, and a deadline beside a late
answer are interleavings of these. The Windows finalizer (`taskkill`) is part of
the one action that ends the group.

### 3.3 ProtocolLines, ProtocolExchange, ProtocolWire

The stream is a sequence of byte classes: a newline, bytes of JSON text, bytes
that break it, blanks, and the two halves of a two-byte character. `ProtocolWire`
receives it in chunks cut anywhere (`Deliver`), scans (`KeepPiece`,
`CompleteLine`, `RejectLongLine`), answers one reading at a time and writes each
reply before it reads on, as the generator does (`protocol-wire.ts`).
`InputFails`, `WriteFails`, `CoreThrows` and `Abort` are its failures.
`ProtocolExchange` answers whole lines, one step each: `AnswersEachLine` says that
the wire implements it.

### 3.4 DeclarationLoading

Files are read, scanned and followed; each kind of reference (path, type
reference, relative import, bare import, library) is resolved by an action of its
own, because resolving one may allow a package that the next needs
(`installed-declaration-resolution.ts`). One loader makes up to three programs and
keeps texts and scans from one to the next (`installed-program-loader.ts`,
`installed-program.ts`). `Edit` makes a file disappear or become a link out of its
package at any moment. Which paths a specifier resolves to is a constant; byte and
work budgets are `OtherLimit`, which may happen at any step. The order in which
pending files are taken is left open, which covers the code's order.

### 3.5 DeclarationGraph

Two traversals over a fixed program: from the entrypoint along references
between files, star re-exports and named re-exports; then from the ambient
declarations of the module along all they name. Both spend one budget, which the
choice of a Node provider has already used. Syntax is a size and the set of what
it names; `Missing` stands for whatever does not resolve. The order of pending
entries is left open.

### 3.6 CompilerLookups

One compiler work session (`compiler-work-session.ts`, `compiler-session.ts`).
`AskResolver`, `AskProbe` and `AskFormat` begin a lookup: a resolution, a probe of
@types beside the package, the access style of a file. `ResolveModule` looks in
the kept resolutions; otherwise the native compiler runs and calls back, one
`Callback` at a time. A callback answers for paths inside the roots of the request
only (`Authorized`), from the replay host of the context or from the disk (`Look`,
`HostCall`), and spends operations and bytes (`Spend`). A limit is kept, and the
compiler is given a fallback; `Return` throws what was kept before it believes or
keeps anything, `NativeFails` is a compiler that throws by itself. `FormatStep`
walks up the manifests with a memo of its own. A lookup that throws ends the
session. A memo keeps its first answer (`Remember`), and what lies above a
directory is the least set that holds it and is closed under `Parent` (`Above`).
`PathsAssumption` says what paths are: no two directories are above each other;
the directory of a context is canonical; and when the canonical path of an allowed
root is above that directory, it is itself an allowed root, because
`allowPackageRoot` adds a root together with its canonical path. Without the last
part the memo of formats, whose key holds the roots above the directory, could
serve two contexts that differ.

### 3.7 PublicSubpaths

`Select` matches the requested subpath against the export keys, or chooses
discovery. `ExactKey` and `PatternKey` take the keys in order, `TakeTarget` walks the
tree of a target to the patterns that resolution could reach (`ReachableTargets`;
`public-subpath-discovery.ts`), `OpenSearchRoot` to `CloseSearchRoot` traverse
directories and links with the chain of ancestors that stops a circle
(`public-subpath-files.ts`), `CapturePattern` and `AddCaptures` insert what the
wildcard matched, `Resolve` keeps what resolves to a declaration.

`SearchRootOf` is the parent of the directory that the prefix of a target pattern
names: for `./dist/*` the package root, whose traversal `./gen/*` shares
(`filesBySearchRoot`), and whose entries, depth and listings count although only
those below `dist` can match. One directory takes three steps, because the code reads
it three times: `ListEntries` opens its canonical path (`Place`) and counts what it
lists, `FingerprintListing` finds the canonical path again and where each entry
leads, for the observer, and `FollowEntries` finds where each entry leads by its name
below the search root. A search root that cannot be read has no files; with an
observer (`recorded`) `TryAncestor` goes up to the nearest directory that can be read,
which is then listed, counted and fingerprinted and no more. Without one nothing is
counted for it. `Change` changes the tree between any two of these steps.
`opened`, `fingerprint` and `steady` are history for the premises of
`DiscoveryIsEvidenced`.

### 3.8 EvidenceSelection

One selection by steps that correspond to its searches: `FindContext`, `FindPackage`
(with the Plug'n'Play markers), `FindRepository`, `ReadPackage`, `Resolve`,
`SelectPackage` (a declaration inside the package; that of a platform module always
is), `SelectProvider`, `ReadProvenance`. Every presence, manifest and resolution that
a step uses is observed; a step fails as the code does when a manifest is broken or a
search gives up. `Change` moves to any installation that differs in one respect.

The loops of the code that go up from a directory are one operator, `Search`. What
is above a directory is the least set that holds it and is closed under `Parent`
(`Above`); a search reaches fewer than `MaxDepth` steps up (`Within`), takes the
nearest directory of those it looks for (`Nearest`), and gives up when there are more
directories than it may visit (`GivesUp`). What it visited before it stopped is what
it observed. `Follow` records where the package and its provider lead whenever
`canonicalPackageBoundary` follows their links; `followed` is history, for the
premise `SameRoots`. `Expected` says what a whole installation selects for a
request, or why nothing.

### 3.9 InspectionQueries

A caller sends requests (`Send`): single queries, plans and comparisons, the next
cursor of its walk or a stale one, or the recovery that the last failure offered
(`Recovery`). `Select` and `Prepare` are an analysis's two moments of reading
(subpaths are read when a query first needs them), `AnswerNext` answers one query
of a plan under the budgets, `Finish` ends it. The two analyses of a comparison
interleave. `Enforce` checks an outcome against the request, `Compare` sets two
overviews against each other, `Deliver` hands over the outcome and keeps the
caller's walk of pages. `Update` replaces a package at any moment; `Misplace`
gives an analysis the outcome of another one, which is what a misplaced cache
entry can do and `Enforce` must refuse. `IsRequest` is what the core may rely on
once a request was read (`IsReadable`): a query has the selectors of its intent
and no others. An index is the sorted list of names (`Sorted`). `Between` is the
time between two requests, when the last answer is judged.

### 3.10 WorkspaceRepository, CliInvocation

`WorkspaceRepository` holds the patterns: the block of `pnpm-workspace.yaml`
(`PnpmWorkspacePatterns`), normalisation, matching, exclusion, and the test whether
a directory could contain a match (`CouldContain`). `CliInvocation` parses the words
of an invocation with the options that may stand before the command
(`LeadingCommonOptionsEnd`), selects a context for each specifier (`Select`, `Ascend`,
`KeepOrDiscover`), visits directories under four bounds (`Visit`), takes the only
consumer (`SelectDeclared`), and ends in `Invoke`, `Write` or `Interrupt` with an exit
code.

## 4. What is checked

All runs finish; deadlock checking is off in every `.cfg`, because each of these
systems really stops: an inspection, an analysis, an exchange, a load or a
traversal ends, and after the last edit nothing need happen. Progress is stated
by liveness properties instead.

| run | instance | properties | shows |
|---|---|---|---|
| `cache_authority` | 2 inspections, 1 request, 1 manifest + 1 other item, 2 versions, either of two packages, storage faults | `TypeOK`, `EntriesFaithful`, `CacheIsInvisible` | no answer depends on the cache; authentic entries are faithful |
| `cache_storage` | 3 inspections, 2 requests, directory of 3, kills, 1 deletion | `WriterExclusion`, `CapacityBound`, `EntriesReadable` | writers exclude each other, the directory stays bounded, no entry is sealed by a replaced key |
| `cache_progress` | 2 inspections, kills, fair parents | `EveryInspectionEnds`, `LockReleased` | an orphaned lock stops nobody; a live writer gives its lock back |
| `process_deadline` | pipes of 1 chunk, limits of 1 and 2, workers that write up to one chunk too many | `TypeOK`, `NothingOutlives`, `AnswersAreWhole`, `HeapFailureReported`, `PublishedIsAccepted`, `RetriedOnce`, `AnalysisEnds` | what the parent accepts, publishes, retries and leaves behind; the analysis ends with a timer, and without one when the worker goes on, whatever its pipes and descendants hold |
| `wire_exchange` | streams of up to 5 bytes (3 over the whole alphabet), lines of up to 2 | `TypeOK`, `ZeroMeansAllSucceeded`, `AnswersEachLine`, `LinesAnsweredPromptly`, `AbortEnds` | chunks do not show; replies do not wait for more input; an interruption ends |
| `loading_authority` | 5 packages, 6 files, 2 libraries, circular, undeclared and nested references, 2 files that change | `TypeOK`, `AuthorityIsDeclared`, `LatestProgramIsClosed`, `LoadingEnds` | what may be read, and that programs are closed |
| `graph_resolved` | about 12 800 programs of re-exports and references over 2 files and 2 declarations, budget of 8 | `TypeOK`, `AcceptedIsResolved`, `RejectedIsUnresolved`, `CountedOnce` | acceptance and rejection are right on every order and at every limit |
| `lookups` | 5 directories (1 a link), 4 contexts, 16 contents, 2 lookups, 5/8/40 operations, 1/3/9 bytes, 2 kept resolutions | `AnswersAreExact`, `LimitsSurface`, `KeptAnswersAreExact` | a lookup answers as if it were alone, whatever was looked up or kept before; a limit inside a callback surfaces |
| `subpaths` | 12 trees, 4 lists of exports, 5 combinations of limits, with and without an observer, 2 changes | `DiscoveryIsEvidenced`, `LimitsAreExact`, `SubpathsAreDeclared` | what is found is what the observed listings imply, a limit is exceeded when and only when the package exceeds it, and a listed subpath is accepted when asked for |
| `selection` | 11 directories, 3 packages, a linked package and a linked provider, 5 requests, search depth 3, 1 change | `SelectionIsEvidenced`, `AuthorityOwnsDeclarations` | equal observations mean an equal selection; provenance names the owner |
| `queries` | 2 targets, 4 modules, 14 requests, pages of 2, 2 calls, 1 update | `AnswersAreOfOneSnapshot`, `WalksAreComplete` | no answer mixes two evidences, and pages followed by cursors are those of one index |
| `cli` | about 1 000 repositories, 12 invocations, 3 directories, bounds of 3 ancestors, 2 workspaces, depth 3, 20 operations | `SelectsTheOnlyConsumer`, `ExitTellsTheOutcome` | discovery finds exactly the consumers that the patterns select; exit code and output agree with the outcome |

*Why these bounds are enough to be of use.*

- Cache: two inspections are what it takes for one to publish while another looks
  up, and for a parent to remove an entry that another has replaced; two versions
  of two items are what it takes for two readings to differ and for a replay to
  mix moments; two selections let an entry be filed under the wrong package. Three
  inspections and two requests over a directory of three let a second writer meet
  an orphaned lock or temporary file of a first while a third publishes, at the
  limit. `MaxWipes` bounds deletions of the directory; the storage invariants are
  stated for as long as nobody deletes it (`wipes = 0`), since a deletion takes
  the lock file from a writer that still runs.
- Process: a pipe of one chunk blocks its writer at once; one chunk beyond a limit
  is all that a limit can tell.
- Wire: lines of two bytes let a chunk end inside a line, inside a character and
  exactly at the limit; five bytes hold two lines and the beginning of a third.
- Loading: chains of two dependencies, a circle, one nested package and three
  programs; `MaxFiles = 7` lets the file limit be met and be missed.
- Graph: two files are the least in which a file is re-exported by name and
  followed; a budget of 8 is met in every action that spends and still lets the
  longest traversals finish.
- Lookups: two lookups are what it takes for one to keep what the other must not
  use; the smallest limits are met in the first callback, the largest never.
  Manifests of sizes 1 to 3 lie below, at and above `MaxManifest`.
- Subpaths: two links are the least that give one file several names and make a
  circle. Two patterns share the package root as their search root; a third has one
  of two names, which may lead in a circle, to a file, out of the package or nowhere,
  so that a missing root has a nearest readable ancestor one or two steps up. A whole
  traversal reads 2 to 16 entries, and the limits of 5 and 12 entries, 1 and 2
  steps down, 1 and 3 subpaths, 2 and 5 targets and 1 and 2 levels of targets are
  met exactly or passed by some package each.
  Two changes let a directory change after it was listed and change back.
- Selection: four directories in a line and a depth of three let a search find,
  miss and give up. One change separates any two searches. The link of the package
  leads to a package of a shared store or to the one nested in it, that of the
  provider to the nested one.
- Queries: an index of one name more than a page has a second page. Two calls and
  one update let a cursor outlive the package it was made for, and an update fall
  between the two moments of an analysis or between two analyses.
- Command line: each of four directories has no manifest, a manifest, or one that
  declares the package, under twelve lists of patterns; eight more repositories
  are made for one bound or one refusal each.

*Fairness.* `InspectionCache!FairSpec` is weakly fair to each parent and each
publisher: they run on timers, process events and synchronous file-system calls.
It assumes nothing of the worker, which may loop for ever; the parent's deadline
(`WorkerFails`) is what ends it. `AnalysisProcess!FairSpec` is weakly fair to the
parent's event loop alone. That the analysis ends is stated under one of two
premises, `TimerFires` (an inspection with a deadline) or `WorkerGoesOn` (a worker
that writes and finishes when it can). `ProtocolWire!FairSpec` is weakly fair to
scanning, answering, writing and to the error of a destroyed stdin, but not to the
caller's input, which may never come or end. `DeclarationLoading!FairSpec` is weak
fairness of one synchronous loop. No strong fairness is assumed anywhere. The
other modules state no liveness: each is a sequence of bounded steps.

## 5. What is proved

The theorems hold for every value of the constants that the named assumptions
allow (`OutcomeAssumption`, `CacheAssumption`, `IdentityAssumption`,
`ProcessAssumption`, `LineAssumption`, `LoadingAssumption`, `GraphAssumption`,
`LookupsAssumption`, `PathsAssumption`, `QueriesAssumption`, `SelectionAssumption`
and `NoneAssumption`): finite sets where something is counted, natural limits,
distinct names, the shape of paths, of manifests and links, and of what was read
of a request. TLC evaluates each assumption in the runs.

- **InspectionCacheProofs** - `TypeCorrect`, `Faithful` (`EntriesFaithful`),
  `Invisible` (`CacheIsInvisible`), by one invariant, `Inv`. Its core, `RunOK`,
  says of each inspection that the readings of its worker, the replayed part of
  the candidate's proof and the answer in the parent's hands are drawn from the
  evidence the inspection lived through, and that recorder and analysis agree as
  long as the recorder calls itself cacheable. `EntriesFaithful` alone is not
  inductive: an entry is made from a receipt, which must be faithful first, and a
  receipt from a recorder, which must be first. The refinement maps `delivered` to
  the outcome of finished inspections; each action is a step of
  `InspectionAuthority` or a stutter. `Exclusion` (`WriterExclusion`) and
  `Readable` (`EntriesReadable`) are about the directory: the lock is held by
  exactly the inspection in the publishing phases; only its holder touches the
  key; a key that has been read is whole, and keys are fresh. `Bounded`
  (`CapacityBound`) adds that a publication leaves room: while its holder still
  has to write, the directory has room for the lock and one temporary file. It is
  stated under `~StorageFaults`, as its run is configured. With faults it is false
  of the model: an entry that turns up under another name is a file that no writer
  counted, and a temporary file whose rename and removal both fail stays behind
  with its lock released.
- **AnalysisProcessProofs** - `TypeCorrect`, `NothingLeft`, `WholeAnswers`,
  `HeapReported`, `Published`, `OneRetry`. The invariant is an account of the
  chunks: written is read plus in the pipe; a pipe read to its end is empty and
  has no writer left; an uninterrupted collection is judged only when all three
  pipes are in that state.
- **ProtocolWireProofs** - `TypeCorrect`, `ZeroIsSuccess`, `EachLine` (the
  refinement). What is kept of a line is the stream from the line's start to the
  scan (`LineKept`), the reading that was yielded is the one that the line on the
  stream deserves (`ReaderOK`), and the exit code covers the replies (`WriterOK`).
- **DeclarationLoadingProofs** - `TypeCorrect`, `Authority`, `Closed`. Whatever is
  allowed lies in every closed set of packages that holds the granted ones; in the
  current library mode, all that a taken file led to is taken or pending.
- **DeclarationGraphProofs** - `TypeCorrect`, `Accepted`, `Rejected`, `Counted`
  (`CountedOnce`). A worklist invariant in both directions: all that was examined
  leads to what is known (done, pending or in hand), and all that is known lies in
  every closed set. For the budget, what was spent is covered by the costs of the
  files and declarations recorded so far (`Paid`), even when what the declaration
  in hand has yet to cost is added (`Owed`).
- **CompilerLookupsProofs** - `AnswersExact` (`AnswersAreExact`),
  `LimitsAlwaysSurface` (`LimitsSurface`), `KeptAnswersExact`
  (`KeptAnswersAreExact`), by one invariant. No property is inductive without what
  the others say of the memos: the answers a host keeps are those of the disk, a
  kept resolution, style or manifest is the one that a lookup from nothing would
  find (`MemosAreExact`), and a lookup under way has refuted all candidates it has
  passed (`LookupIsExact`). While the compiler runs, that holds only as long as no
  limit was met in a callback; from there on it is given fallbacks, and what saves
  the memos is that the kept error is the first one met and is thrown when the
  compiler returns (`ErrorsAreKept`). The walk up to the nearest manifest rests on
  the order of directories (`AboveStep` and the lemmas beside it).
- **InspectionQueriesProofs** - `SortedExact`, `Answered`
  (`AnswersAreOfOneSnapshot`), `Walks` (`WalksAreComplete`), by the invariant
  `IInv`. Of an analysis that runs it says that the selection, the program and the
  list of subpaths each show what the target was at some moment since the request
  was sent, that the results so far are what their queries say of those three, and
  that the budgets are what these results cost (`Answering`, `Progress`); of one
  that has ended, that its outcome is one of `OutcomesOver`, or a success of
  another analysis (`Busy`, `Deliveries`). Of the caller's walk it says that its
  pages are, in order, those that the cursors of one identity and one index select
  (`IsWalk`, `CursorAt`): a cursor carries the whole index, so that a page of an
  updated package either belongs to the same index or is refused. `SortedExact`
  says that an index lists each name once and in order, which makes the blocks of
  pages add up.
- **EvidenceSelectionProofs** - `Invariance`, `Evidence` (`SelectionIsEvidenced`),
  `Ownership` (`AuthorityOwnsDeclarations`). The state alone says nothing of an
  installation: the manifests it keeps may be those of several moments. The invariant
  is therefore stated of each installation that agrees with what was observed
  (`Evidenced`): the kept manifests are its manifests (`Remembered`), and each stage
  has found in it what the selection went on with (`Stage`, down to `IsRead`,
  `IsProvided`, `IsResolved` and `IsOwned`). A step preserves it because two
  installations that agree on what a search observes have the same nearest directory
  (the lemmas on `Search` and `Nearest`), which rests on directories above a third one
  being above each other (`AboveChain`). At the end every such installation expects
  what was selected. That the present installation is one of them as long as nothing
  has changed (`Unchanged`) gives `Ownership`: the declaration's nearest installed
  package is the authority, or is read for its identity.

*Only model-checked.* Liveness under fairness and everything that needs `ENABLED`
(`EveryInspectionEnds`, `LockReleased`, `AnalysisEnds`, `LinesAnsweredPromptly`,
`AbortEnds`, `LoadingEnds`). All of `PublicSubpaths`, whose trees of export
targets are walked by `RECURSIVE` operators that the provers do not accept. All of
`CliInvocation`, which compares words and patterns with their meaning by induction
over sequences (`LeadingCommonOptionsEnd`, `CouldContain`). And whatever else would
need induction over data.

## 6. What is not modelled, and why

`PROJECT.json` gives a status and a reason for each component. In short: the
projection of compiler types into results is a pure function whose meaning is
TypeScript's own, and the models take it to be a function of what was read;
schemas, capability tables, help, completions and rendering are data and layout;
benchmarks and profiling change no answer. The evidence recorder's limits, the
traversal of untrusted data and the choice of the Node augmentation are in the
plan.

Abstractions to keep in mind when reading a result:

- HMAC and schemas are modelled by what they accept: an entry with a foreign or a
  damaged seal is not accepted. Nobody forges a seal.
- A process identity is not reused and a file name is not recycled.
- An absent file named by a path reference is not an item of evidence in
  `InspectionCache`; see the hazard at `installed-program-loader.ts:124`.
- `AcceptedIsResolved` and `RejectedIsUnresolved` do not speak of the import types
  of a file that is itself re-exported by name: whether the code scans them
  depends on whether it met that file by name first; see the hazard at
  `installed-declaration-graph.ts:371`. A file that is only re-exported by name
  has its re-exports left unexamined, in the code and in the model.
- Native resolution is external: a query has a list of candidates, and a manifest
  leads to the file it names. The caches of symbols and declarations
  (`compiler-queries.ts`) memoize pure queries of the compiler and are left out.
- `DiscoveryIsEvidenced` and `SelectionIsEvidenced` speak of runs that the
  recorder still calls cacheable, that is, in which no two readings of one thing
  differed. What decides an outcome without being observed is named as a premise:
  the links on the way to a search root (`SameRootLinks`), and where the package and
  its provider lead when they are followed after their search (`SameRoots`).
  `DiscoveryIsEvidenced` has one more, `steady`. The code finds where an entry leads
  once for the fingerprint (`installed-evidence-fingerprint.ts:262`) and once to
  follow it (`public-subpath-files.ts:173`), and looks for a search root before it
  reads the ancestor of a missing one. A change in between, seen by one reading and
  not by the other, gives an outcome that its proof does not support: without
  `steady` TLC finds, after one change, a root that was missing when it was looked
  for and is there when its ancestor is fingerprinted, and a link that is followed
  elsewhere than its fingerprint says. With it the property still speaks of every
  change between two directories, two visits of one directory or two search roots,
  and of one that all three readings of a directory see.
  A premise about the package alone, in place of `SameRoots`, was
  not enough: with it TLC finds a provider that is linked elsewhere between its search
  and the resolution, so that a declaration of the provider is said to escape
  although every observation agrees with an installation that declares it.
- A wildcard stands for whole names. How `String.replace` interprets dollar signs
  in what it inserts (`public-subpath-discovery.ts:404`) is left out.
- Within `ListEntries`, `FingerprintListing` and `FollowEntries` the entries of one
  directory are read together; the code reads them one after the other. The limits of
  the recorder, and kinds of entries other than files, directories and links, are
  left out.
- A resolution that is found again with another answer is kept beside the first by
  the recorder (`installed-evidence-fingerprint.ts:528`), and the proof then never
  replays; `InspectionCache` and `EvidenceSelection` call such a run uncacheable,
  which comes to the same: its outcome is never served.
- `EvidenceSelection` takes the subpath that is asked for to be declared
  (`assertPublicSubpath` is in `PublicSubpaths`), and leaves out that the package
  or its provider is gone when it is followed (`installed-package-boundary.ts:207`):
  that is a failure, and failures are not cached.
- In `InspectionQueries` an analysis fails because its package is absent, because of
  its queries and because of the two budgets; errors of the program that is built
  and the limits of subpath discovery are in other modules or left out. Of the
  recovery offered after a supporting-type limit only the declarations are followed,
  not the signatures (`protocol-recovery.ts:82`), and a name to search for is never
  too long.
- Workspace discovery runs over a repository that does not change. Braces that
  span several parts of a pattern (`{p/**,q}`), a part that is `.` inside a pattern
  (`p/./a`) and a doubled slash are left out. That a bound is met is compared with a
  traversal without pruning (`PassesABound`), so that operations counted for a
  directory that should have been pruned would not show.
  An option written `--workspace=x` before the command is left out: there the
  placement of options stops (`cli-execution.ts:150`), the overview is taken for the
  command, and what follows is not the command that the words name. The
  protocol and capabilities commands and the inspection commands that differ in
  their arguments only are not among the commands.
- Objects, values and bytes of a result are one size in `InspectionQueries`, and
  the nested results of a focused inspection are one item. Outcomes are read as a
  whole: how an untrusted outcome is copied within bounds is not modelled.

## 7. Running

    tlc -config CacheAuthority.cfg MCInspectionCache
    tlapm InspectionCacheProofs.tla

`CacheAuthority` is the longest run (about three minutes on two cores);
`ProcessDeadline` and `Queries` take about one minute each, `Subpaths` and
`Selection` up to two, `GraphResolved` about forty seconds, `LoadingAuthority`
about thirty, the others less.
