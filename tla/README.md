# Verification of Pogo

TLA+ models of Pogo (a language server for Django's ORM: a Go server, a Python
schema worker, editor clients), the TLC runs that check them on small instances
and the TLAPS proofs of what holds for every value of the constants. Every
definition is translated from the code; `PROJECT.json` ("map") names the lines
of each one. Paths below are relative to the repository.

    tlc -workers 2 -config SupervisorSaves.cfg MCSupervisor      # one run
    tlapm SupervisorProofs.tla                                    # its proofs

Contents: [1 the system](#1-the-system), [2 the modules](#2-the-modules),
[3 the runs](#3-the-runs), [4 fairness](#4-fairness), [5 the proofs](#5-the-proofs),
[6 findings](#6-findings), [7 what is not modelled](#7-what-is-not-modelled),
[8 the plan](#8-the-plan).

## 1. The system

An editor starts `pogo`, speaks LSP with it over stdio, and `pogo` starts a
Python worker that imports the Django project and reports its models.

    editor ──LSP──> Lifecycle ──> Features ──> Store (documents)
    (extension.ts)      │             │  └────> schema.Cache (one graph)
                        │             └─publishDiagnostics─> editor
                        └──Start/Stop──> Manager ──spawn/IPC──> Python worker
                                           │  publishes graphs into schema.Cache
                                           └──persistentSchemaCache on disk

| Component | State | Operations | What makes it correct |
|---|---|---|---|
| Worker supervisor, `internal/python/manager.go` | run and its context, three epochs, pending flag, timer, one-slot wake channel, failure counter, authority of the published graph | `Start`, `DidSave`, debounce callback, `loop`, `publishGraph`, `waitForRefresh`, `loadProvisional`, `persistGraph`, `Stop` | a published graph contains every handled save and never regresses; every save is served; one warning per outage; no second process after a leak; `Stop` leaves nothing |
| Schema cache, `internal/schema/cache.go` | one graph, a generation | `Replace`, `Load`, `Clear` | readers see whole graphs, newest first |
| Worker session, `manager.go` (`runSession`, `authenticate`), `client.go`, `endpoint*.go`, `process_*.go`, `src/daemon/protocol.py` | runtime directory, token file, endpoint, process, connection, place in both programs | acquire in order, authenticate, request, serve, shut down; deferred releases | everything acquired is released in order on every path; only the worker is talked to; every wait ends |
| IPC frames, `internal/python/frame.go`, `protocol.py` | bytes in transit, two read buffers | `WriteFrame`, `ReadFrame`, `FrameReader.read` | a reliable FIFO of messages up to the size limit |
| Persistent cache, `internal/python/schema_cache.go` | one file per identity, temporary files | `load`, `open`, `marshal`, `writeTemp`, `install` | entries are whole, newest, and current or a miss |
| Diagnostics, `internal/lsp/diagnostics.go`, `features.go` | what the client shows, `diagnosticMu` | `publishSnapshot`, `publishDiagnostics`, `RevalidateAll`, `Close` | never outdated, never resurrected, current once quiet |
| LSP lifecycle, `internal/lsp/lifecycle.go`, `server.go`, `cmd/pogo/main.go` | LSP state, exit code, once-only worker stop | `initialize`, `initialized`, `shutdown`, `exit`, end of stdin, `notify` | the worker starts once and does not outlive the process; the process ends; the status tells of the shutdown |
| Document store, `internal/analysis/document.go` | uri -> text, version, tree | `OpenFile`, `Change`, `Save`, `Close` | the server has the editor's text |
| Text positions, `document.go` | none | `ByteOffset`, `PositionAt`, points of the parser | positions and offsets agree, in UTF-16 and in UTF-8 |
| VS Code extension, `client/vscode/src/extension.ts` | clients per folder, chain of reconciliations | `scheduleReconcile`, `reconcile`, `startTarget`, `deactivate` | one process per folder, built from the current settings, none after deactivation |
| Schema graph, `internal/schema/graph.go` | the graph under construction, then immutable | `Build`, lookups of fields, accessors, managers, methods, classes | a graph for every well-formed snapshot and no other, whatever the order the models are visited in |
| ORM analysis, `internal/analysis/{path,infer,serializer,definition,diagnostic}.go`; completion and hover in `internal/lsp/features.go` | none: functions of a document and a graph | `CompletePath`, `ResolvePathSegment`, `ValidatePath`, `resolveExpression`, `Completion`, `Hover`, `DiagnoseORM` | what is offered resolves, what is wrong is reported, a value stays in its model |
| Names of a file, `internal/analysis/infer.go` (`buildEnvironmentAtPath`), `document.go` (`extractSyntax`) | none: the statements before the cursor | imports, assignments, loops, branches, functions, classes | what is claimed of a name is what Python makes of it |
| Save filter, `manager.go` (`schemaAffectingPath`), `graph.go`, `introspect.py` | the files the published graph lists, its authority | judge a save, import, publish | a save the schema depends on starts a session, another does not |
| Worker environment and settings, `environment.go`, `manager.go` (`NewManager`, `buildWorkerEnvironment`), `cmd/pogo/main.go`, `introspect.py` (`resolve_settings`) | the options, the environment file, the merged variables of a manager | `resolveWorkerConfig`, `NewManager`, the environment of each session | what the file and the options mean is what each worker gets, or there is no manager |
| Signature help, symbols, introspection, scripts | none or immutable | pure functions | see [7](#7-what-is-not-modelled) |

How they interact. Handlers of LSP messages run one at a time (`Lifecycle.opMu`)
on one goroutine; they call the store, the features and `Manager.DidSave`. The
manager has a goroutine of its own per run, timers, a loader per start, and
calls back: a published graph starts a `RevalidateAll` goroutine, a failure a
`notify` goroutine. `main` waits for the connection to close and stops the
worker itself, concurrently with a handler that may be doing the same. The
Python worker is a separate process with its own failures; the cache directory
is shared with other `pogo` processes; the extension runs in the editor's
single-threaded event loop where every `await` lets other callbacks in.

What is hard here, and hard to test: a save against every point of a session
that takes seconds; timers whose callback already runs when they are replaced;
lookups outside a lock and a check inside; a worker that hangs, dies or lies at
any step, while the releases of the previous step are under way; `Stop` from
two goroutines; crashes between two writes; a stream cut inside a frame; a
change between two awaits; UTF-16 columns over UTF-8 text; the random order of a
Go map; five functions that walk the same path each by code of its own. `PROJECT.json`
("hazards") lists each at its line with the properties that watch it.

## 2. The modules

Each module starts with a comment that says what one action stands for. The
names are those of the code. A definition introduced by `\* Mutant:` is not part of a
specification: it is the plausible bug with which one property of the module was
shown to fail.

- **SchemaRefresh** is the abstract specification of the schema cache: one graph,
  replaced as a whole; a worker's graph contains every handled save and is not
  older than the one it replaces; a provisional graph fills an empty cache only;
  outside a run nothing is replaced.
- **Supervisor** is `Manager`. One action is one critical section of
  `Manager.mu` or one step between two, so that `DidSave`, the timer callback
  (the timer fires, a callback gets the lock, then cancels or wakes after the unlock), `loop` (`top`, `open`, `decide`,
  the four waits), `publishGraph`, the loader and `Stop` interleave as they do in
  the code. A schema is the version of the sources it was read from, so "contains
  the save" is `>=`. A session is a handful of steps (spawn, connect, load,
  publish, announce, persist, serve, reap); WorkerSession has its inside.
  Every save is one that `schemaAffectingPath` accepts: SaveFilter has that decision. Supervisor implements
  SchemaRefresh (`ImplementsSchemaRefresh`).
- **SaveFilter** is which saves those are. A check of a save is its two reads (`LoadGraph`: the graph; `Judge`: the
  authority, under the lock), with publications in between; the worker imports file by file while files are
  written, break, are repaired and change what they import. The graph lists what its worker imported, up to a limit.
  Of the supervisor it keeps the debounce, the replaced session and the restart limit.
- **WorkerEnvironment** is the way from an environment file and a client's options to what a worker's process has. The
  parser is translated function by function, over symbols (a byte, or a word of a name). The file is written by somebody
  who follows DEV.md (`Write`: a name, a value, and one of the spellings that can express it) or makes a mistake in the
  last line; `NewManager` reads, merges, tries, and makes a manager, refuses or disables it; `Spawn` is one session. The file
  may change between the three.
- **WorkerSession** is one `runSession`. Its places are the statements that acquire,
  wait or release; `Returns` leaves for the first deferred function registered
  so far. The worker's program runs beside it. `conn`, `peer` and `wire` are the
  accepted connection, its other end and the frame on it. `PogoDies` closes what
  the kernel closes.
- **FrameCodec** is what `wire` stands for: bytes, cut by the connection anywhere,
  written by either side and read by `ReadFrame` through a `bufio.Reader` or by
  `FrameReader`. It implements **MessageChannel**, a FIFO.
- **PersistentCache** is the part of the cache that Supervisor writes in one step:
  the worker's introspection, `open`, the manifest hashed file by file while
  somebody edits, the temporary file, the rename, and the loader on the other
  side, in processes that are killed and launched again.
- **Diagnostics**: publishers (the handler and one goroutine per generation) compute
  outside locks and check and send under `diagnosticMu`; the lookups of snapshot
  and graph are separate steps. What a rule reports is a function of version, text
  and generation, so those name it.
- **Lifecycle**: the reader goroutine (`pc`), `main`, `workerStop` (a `sync.Once` with
  both callers), the notifier goroutines as counters (they are alike). `exit`
  closes the connection; messages after it are not delivered.
- **TextPositions** are the functions between positions, offsets and points, on texts of
  characters with their UTF-8 and UTF-16 widths. **DocumentSync** has an editor
  that keeps lines and sends ranges, and the store that keeps a source.
- **Extension**: each action is the code between two awaits of `reconcile`,
  `startTarget` and `deactivate`.
- **SchemaGraph** is `schema.Build`: a model is added at a time, then linked at a time, in
  any order, and the first defect ends the build. The indexes of a model (query
  access, instance access, relations, managers, QuerySet classes) are functions of it.
- **LookupPath** has the three walks over a path: `CompletePath`, `ResolvePathSegment`
  and `ValidatePath`, with relations, attributes, transforms and lookups and the five modes of
  `pathMethod`.
- **OrmAnalysis** is an expression as it is typed on a built graph: a class, a manager, a call, a relation,
  an iteration (`resolveExpression`), then an argument of a call, of `Q`, of an expression function, of a
  constructor, of a field list or of a serializer's `source`, segment by segment. At each place
  it compares what `Completion`, `Hover`, the definition and `DiagnoseORM` say of each word.
- **NameEnvironment** is what comes before an expression: a file typed statement by statement, the environment
  `buildEnvironmentAtPath` computes of it, and beside it what Python would make of the same statements (`ClaimsHold` compares
  the two).

`MC*` modules instantiate these; the `.cfg` files give the bounds. Parts that share no state are checked side by side in
one run, all but one of them at rest in any behaviour:

| MC module | Parts |
|---|---|
| MCSupervisor | Supervisor |
| MCManager | what a manager has beside its loop: PersistentCache, SaveFilter, WorkerEnvironment |
| MCClientAndServer | the server in its Lifecycle and its Diagnostics; Extension |
| MCWorkerSession | WorkerSession; FrameCodec, which is what its `wire` stands for |
| MCAnalysis | DocumentSync (the text); NameEnvironment (its names); SchemaGraph, LookupPath and OrmAnalysis (an expression in it) |

The proofs about a module stand beside it (`SupervisorProofs`, `DiagnosticsProofs`, `SaveFilterProofs`, and `TextProofs` about DocumentSync and TextPositions) or, where
they are about what a run composes, beside its MC module (`ClientAndServerProofs`, `ManagerProofs`, `WorkerSessionProofs`,
`AnalysisProofs`).

### Where a model is coarser than the code

- Durations are "may elapse now" (the 300 ms of the debounce, the backoff, the
  connect, request and shutdown timeouts): every order of a timeout and the answer
  it waits for is a behaviour.
- The error value of a step is one of "none", "error", "cleanup" as far as a
  caller distinguishes them.
- A file system step fails or not; permissions, sizes and decoding errors of a
  cache record are the outcome "miss".
- `command.Wait` returns once the worker is dead. That it also waits for the pipes of the worker's output
  (`manager.go:633-640`), which a child of the worker may keep open, is left out.
- Lifecycle leaves out the status 1 of `RunStdio`'s own error and what a request
  answers.
- DocumentSync leaves versions to Diagnostics. Handlers run one after the other, so
  `Save` never finds that the version changed under it. Its editor never
  produces a lone `\r`, as the editors Pogo supports do not.
- SchemaGraph, LookupPath and OrmAnalysis take names as given: what is checked of the spelling
  of a name, of a source range or of a list without repetitions is a flag ("sound") of what has it. The cursor stands in the last segment, nothing of
  which has been typed, so the filter by prefix is left out; hover and definition are asked for each word there.
- NameEnvironment passes once through each loop, and has no statement that the queries of the code do not capture (augmented
  assignment, `del`, star import, a walrus outside a guard). An assignment to several targets is "opaque" to both sides.
  `ClaimsHold` has exceptions, each named: after the last evaluated line a name may be forgotten, with what is
  computed from it; a binding in an *enclosing* function beside another one (`BoundAround`); an import over a variable (`ImportedOver`).
- SaveFilter tells nothing of processes and locks (Supervisor has them) and counts an edit of a file as a new version of it. Paths are
  the files themselves; files that are not Python are ignored at once.
- WorkerEnvironment counts a word of a name as one unit. A byte order mark, invalid UTF-8, NUL, the size of the file and its type are one
  outcome, "missing"; the UTF-16 count of the code, never above its count of bytes, is left out. Relative paths are the paths they
  stand for; what `os.Stat` says of an interpreter is one flag; `manage.py` is the name it sets by default.
- Extension assumes that `dispose()` of a language client settles and leaves no
  process, as `vscode-languageclient` promises; `start()` may fail.

## 3. The runs

All finish within three minutes on two cores. "violation" runs reproduce a
[finding](#6-findings).

| Run | Instance | Checks |
|---|---|---|
| `supervisor_saves` | two saves, one run, cache | `PublicationsCoverSaves`: no session that a save overtook publishes or persists; `DebounceHolds`: a late callback of the timer releases no save but its own; `ImplementsSchemaRefresh`; `WarnsOncePerOutage`; `RunEndsForCause` |
| `supervisor_stop` | two runs, a Stop, one save | `StopLeavesNoWorker`, `NoSpawnAfterLeak`, `StopEndsRun` |
| `supervisor_serves` | two saves, fairness | `SavesAreServed`: no release of the debounce is lost between timer, wake channel and loop; `RestartsCease` |
| `supervisor_lost_save` | violation | `SaveIsServed`, the stronger form the documentation states |
| `manager` | two launches on one cache directory, one file | `StoreSurvivesKills`, `NewestInstalled`, `StaleOnlyIfTorn` |
| | four files (an app's in the project and one's outside, the settings, a helper), two edits | `StaleOnlyIfUnheard`: the published graph is current but for saves that were not heard, none of the settings or of an app of the project; `OutageHasCause`; `HeardOnlyIfAffecting` |
| | a file of two lines, or one of some 190 sets of options | `WorkerIsConfigured`: what was meant is what each process gets, and only what has no mistake is accepted |
| `cache_stale` | violation | `StaleIsAMiss` |
| `save_filter_race` | violation | `AffectingIsHeard` |
| `environment_probe` | violation | `ReadyMeansStartable` |
| `session_and_frames` | two strays | `CleanEnd`, `TalksToWorker`; `SessionEnds`, `NoOrphan` |
| | payloads up to 3 bytes, 3 messages, 6 stray bytes | `ImplementsChannel`, `RejectsOnlyLong`; `ReadingProgresses` |
| `client_and_server` | two failures of the worker | `NoWorkerOutlivesProcess`; `ProcessEnds`, `FailuresAreTold` |
| | two folders, three events | `NoStrayProcess`, `QuietMeansConfigured`; `Settles` |
| | one document, two texts, two generations | `QuietMeansCurrent`, `NeverOutdated` (what is shown moves forward, and never for a closed document); `Converges` |
| `analysis` | limit 5 bytes, texts up to 6, lists of 2 changes | `InSync` (the store has the editor's text, and rejects only what is too large), `PositionsAgree` (positions, offsets and the parser's points) |
| | files of four statements, the cursor among them | `ClaimsHold` |
| | a library of three models, nine snapshots beside it, paths of up to 4 segments | `GraphIsSnapshot`, `OffersResolve`, `ValuesStayInModel`, `SourcesAreAttributes` |
| `orm_broken_path` | violation | `BrokenPathsAreReported` |

Of the type invariants, those of Supervisor, Lifecycle, WorkerSession, Diagnostics, Extension and PersistentCache are proved. What is
proved for all constants and says less than the properties above (`TypeOK`, `GraphNeverRegresses`, `StartedOnce`,
`StatusTellsShutdown`) has a theorem and no run.

### The bounds and why they are enough

- **Supervisor.** Two saves are the smallest burst: one that a session or a timer
  serves and one that overtakes it at any point; a third has nothing new to
  interfere with, since a save overwrites what the previous one left (`timer`,
  `refreshPending`, the epoch) but the callbacks of older timers, which
  one older save has (`fired`). `RestartLimit = 1` has a failure below the limit,
  one at it and one beyond. The run with `Stop` needs two runs for "nothing of the
  old run in the new one" and one save. That run has no cache, the one with saves has one run:
  the product exceeds what TLC enumerates in minutes, and the theorems below hold
  for all values together.
- **WorkerSession.** A stray before and after another covers "accept again"; the model has
  no other counter.
- **FrameCodec.** The limit is larger than the buffer and not a multiple of it,
  payloads have every length up to the limit, six stray bytes exceed the limit by
  more than one full buffer.
- **PersistentCache.** Two processes (at once, or one after the other's death), each
  one launch; one edit before, during or after each step. Two files, hashed
  one after the other while one is edited, are in the violation, since with two processes they exceed five minutes;
  `StaleMeansTorn` holds for any files.
- **Diagnostics.** Two generations: the one being revalidated and the one that
  overtakes it; two versions of a document and its reopening. Documents do
  not interact except through `diagnosticMu`, which publishers of one document
  contend for as well.
- **Lifecycle.** Two failures are two concurrent notifiers.
- **DocumentSync.** A text of six bytes holds an astral character (4 bytes, 2 units),
  an ASCII one and a line end; changes are applied in lists of two so that the second's
  range refers to the result of the first.
- **SchemaGraph, LookupPath, OrmAnalysis.** The library has each kind of thing the code tells apart once: foreign keys and one-to-one
  relations with their reverse sides, with and without a name of their own; an attribute that is a column; a field with a transform, a JSON field with any key
  and an unsupported lookup, a field whose lookups were cut off; managers with Django's QuerySet and with one of the project, one of whose methods the manager lacks. Each of the
  other snapshots is the library with one defect, or classes exported under one name. The 16 words are names of each kind, one that is no name at all, and the empty one. Three segments before the last lead from any
  model over two relations to a field, its transform and its lookup; chains of calls are not bounded.
- **NameEnvironment.** Four statements are two bindings of a name, the block one of them stands in and the cursor, in every
  order and nesting; a fourth statement also takes a value through two names.
- **SaveFilter.** One file of each kind the filter tells apart (an app may lie outside the project root), and a limit of two sources that four files exceed. Two edits: one that a
  session imports and one that overtakes it, or a break and its repair. `RestartLimit = 1` as in Supervisor.
- **WorkerEnvironment.** Every value of up to two of eight symbols (a letter, a space, a hash sign, both quotes, a backslash, both
  characters of a line ending) in each of twelve spellings has every pair the parser tells apart; a second line shows what the first left
  unread, and makes duplicates. One mistake of each kind. The limits are small enough that one more name, unit or variable
  passes them, and the one of all units lies between the trial of `NewManager` and the longest session.
- **Extension.** Three events between awaits: one during the first reconciliation, one
  during the reaction to it, one more.

`CHECK_DEADLOCK FALSE` stands in every configuration because each system may stop: the
server has exited, a session has returned, the bound on events is used up.

## 4. Fairness

Safety runs use none. Liveness is checked under:

- **Supervisor** (`Fairness`): the loop, the timer callback, the loader and a `Stop` that began go
  on; timers fire. Go runs every runnable goroutine. Editors, callers of `Start` or `Stop`
  and healthy workers owe nothing.
- **WorkerSession**: the session's own steps. Each wait of `runSession` has a timeout, so
  it is always able to step, except while it serves. The worker owes nothing; `NoOrphan` alone
  assumes, in the formula, that the worker's own steps go on.
- **FrameCodec**: a write in progress and the reader. New messages and the end are never forced.
- **Diagnostics**: each publisher's step weakly; acquiring `diagnosticMu` strongly, since Go's mutex in starvation mode
  hands over to the waiter that waited longest.
- **Lifecycle**: goroutines run and the five seconds of the stop pass; messages and the
  worker's end are not forced. Once the process has ended, notifiers need not run.
- **Extension**: promises settle (`stat`, `access` return; the language client
  bounds `start` and `dispose` by timeouts).

## 5. The proofs

TLAPS checks the proofs for arbitrary constants. What is assumed of them is named where they are declared, and every run that extends
the module evaluates it: bounds are natural numbers, `RestartLimit > 0`; the values that stand for "none" are none of the others (`"none" \notin
Files`, `Nothing` is no document, `None` no client); an alphabet has a byte besides the line end, and a buffer holds some; names that are compared in an order are in it. Each
of the invariants below was checked by TLC before it was proved, except `SyncInv`, which says that texts exist no run could search for. "Proved" is: it holds at first, each action of the module keeps
it, and it implies the property.

**Supervisor** (`SupervisorProofs`). None of the properties is inductive. `SupervisorInv`
adds, in named parts: `VersionsFlow` (versions flow from disk to snapshot to
cache, and *a session no save has overtaken holds a snapshot that contains every
handled save*: the epochs are what makes publication safe), `OutageKnown` (a
warning is remembered until a schema is announced), `FailuresKnown`, `LeakKnown`
(a lost process stays a cleanup error until the run ends), `DebounceKnown` (a callback that
still waits for the lock belongs to a save no newer than the last, and to an older one while the timer runs) and `EndingKnown` (why a session's result is not the reason to end the run).
Each part has a lemma with one case per action; `SupervisorInvariant`
combines them. From it: `TypeCorrect`, `OneWarningPerOutage`, `NothingSpawnedAfterLeak`, `EndsForCause`,
`PublicationsAreFresh`, `DebounceIsKept`, `GraphMonotone`, `StopIsComplete`, and `Refinement`: Supervisor
implements SchemaRefresh, step by step.

**Diagnostics** (`DiagnosticsProofs`), for any documents, texts, versions and generations. `QuietMeansCurrent` speaks of the end of all
work, so its invariant has to say who owes what: an open document shows what it should, or *its publication as it is now is pending* (`Pending`:
the handler is on its way to it, some publisher holds exactly this version under this generation, or the revalidation of this
generation still has it on its list). That a check may drop a publication is then harmless: what is dropped was not `Fresh`. `Ordered` says that what is held under
the mutex is no older than what is shown, and `ClosedKnown` that a closed document shows nothing or its clearing is under way;
`NeverOutdated` follows.

**The client and the server** (`ClientAndServerProofs`). `LifecycleInv` says where the reader can be on an open connection,
that nothing has failed before `initialized`, and that the worker is stopped or
cancelled only where no handler can start it any more. From it
`WorkerReaped`, `StatusIsHonest`, `WorkerStartedOnce`.

`ExtensionInv` is about the extension, for any folders and number of changes. `ProcessesKnown`: one process per client in the map or being
disposed of, never both, and somebody awaits every disposal. `ConfigKnown`: while nothing is queued, the reconciliation
under way works for the settings and the folders as they are, and each target has been dealt with or will be. From them `NoStrayProcess`
and `QuietMeansConfigured`. What holds of Diagnostics and of Extension holds of the specification the run checks (`BothSpec`): a step of
it is one of the part or leaves the part alone.

**WorkerSession and FrameCodec** (`WorkerSessionProofs`). `SessionInv` says what exists before the process is spawned, that *whoever
has said anything has read the token and so removed it*, and which deferred
function has undone what; `CollectedKnown` in it follows the exit of the process from the first wait to the last. From it `SessionEndsClean` and `WorkerAuthentic`, for any number of stray connections.

`FramesImplementChannel` is the refinement of MessageChannel, for any alphabet, limit, buffer and number of messages, however the stream is cut. The invariant is
about bytes: those the reader has taken but not returned, those in transit and those still to be written are, one after the other, *the
messages not yet returned, each with its line end* (`Unread`). `LineEnd` is the smallest place of a line end, so it exists where there is one (the
least-number principle); hence the first line of what is to come is the next message, both readers return that one, and neither
finds a line longer than the limit among messages that fit. `FramesRejectOnlyLong` is the other half, for streams of anybody. `LinkedSessions`
carries the session's safety over to the composition.

**PersistentCache and SaveFilter** (`ManagerProofs`, `SaveFilterProofs`), for any processes, files, contents and bounds. `CacheInv`: while no source is
edited, *what was hashed is what the schema was built from* (`Untorn`), so a record is torn or `Tells` the truth about itself; and whoever
serves a graph from disk found it in such a record and has compared its digest. From it `StoreSurvives`, `StaleMeansTorn`,
`InstallsNewest`. `FilterInv`: of whatever was imported and is not as on disk any more, *the save is waiting to be judged, was heard, or is one
nobody hears* (`Waiting`), for what the session has seen and for what the published graph was computed from; an answer "yes" of the first half of a check is on record (`JudgedKnown`).
From it `StaleMeansUnheard`, `OutageHasACause`, `HeardIsAffecting`.

**TextPositions and DocumentSync** (`TextProofs`), for any texts, edits, limits and number of notifications. The functions are recursive over a text, so each fact about
them for every text is an induction, done from the least number at which it would fail (`Counting`, from the well-foundedness of the naturals); first of all, that the bytes
and units of two texts add up (`TotalOfConcat`). `PositionMeansOffset`: no other line has the line's number, since a newline lies between any two starts, and no other
offset in the line as many units before it, since units grow. `ReplacementEnds`: the newlines of a text put together are those of its parts, one set shifted, so the last line
of what is put in begins where it says, or where the line before it began. An editor has lines, though, and the server a source: `PlaceMeans` says that LSP's name for a place is
turned into the length of what the editor has before that place, and `SourceOfEdited` that the source of the edited lines is the old one with that range replaced.

`SyncInv` then says of the notifications on their way that there are *stages of the editor*, from the one the server knows or has an excuse not to know (`Synced`) to the one the
last notification leaves: each notification tells how the editor came from one to the next (`Tells`), change by change (`Follows`), and the draft leads on to what it has now
(`Led`). The server comes to the next stage with each notification, or to none, and to none only if the text was too large on the way (`AllApplied`); a change that comes after
an excuse makes one source at most (`OneChange`). From it `InSync`; with the two theorems about positions, `PositionsAgree`. `DocumentFollows` and `PlacesAgree` carry them
over to the specification the run checks (in `AnalysisProofs`).

**SchemaGraph and OrmAnalysis** (`AnalysisProofs`), for any snapshots. `GraphInv` describes the graph under construction by the set of models that were added
and linked, whatever their order: each is sound and has no double *among those*, an exported path names the model that is alone in being exported by
it *among those*. At the end these are all, which is `GraphIsSnapshot`; a build that fails has met a defect. `ValueKnown` is `ValuesStayInModel`
with what the index of a model says of its managers; each call, relation and iteration keeps it.

`OfferedIsShown` and `SourcesStandForFields` are about the walks over a path, which the code has once for each feature. `SearchKnown`: in the index of
each model *a name has one meaning*, for want of a duplicate name, which the build refuses. `GoodState` is where a path may be, `GoodWalk` that it is at one
such place or has stopped for one reason, `ContextKnown` that the cursor is in no argument, in a source or on a good walk; `PlacesInv` is all of it. At a good
state what a segment may be is what is offered under its name (`StateAgrees`), but for the wildcard of a JSON field, by cases on the mode,
on fields before suffixes, and on which lookup path has the name first. Then a word is offered, shown and looked up alike in a path (`PathSpeaks`), and reported unless it
is shown or nothing can be known of it (`PathIsReported`); outside a path there are four kinds of value. A source is walked by a recursive function over its
names in `serializerAttribute`, and name by name while it is typed. That these agree at every length is an induction, done here from the least
number at which they would not (`Least`, from the well-foundedness of the naturals).

It is assumed that an alias has no name a field goes by. Django refuses that of a field or its column; what Pogo says of an alias called `pk` or like the accessor of
a reverse relation is left out.

Only model-checked:

- Liveness: fairness and `ENABLED` are beyond the prover.
- `ClaimsHold`: `buildEnvironmentAtPath` and what Python makes of a file are folds over statements. `WorkerIsConfigured`: so is what a file means.

Proofs that failed changed the model or a property.

- `StaleOnlyIfUnheard` once said that no app's save goes unheard, which no attempt could prove. An app may lie outside the
  project root (manager.go:343-349 compares with the root as long as there is no graph or a provisional one), and then its save is
  not heard before the first graph of a worker. DEV.md:129-130 says as much, DEV.md:223 speaks of any installed app. The
  constants of the run had only apps within the root; now they have one outside, and the property excepts it (`AlwaysHeard`).
- `OffersResolve` once said that all that is offered is shown. A class has its managers before fields of their names (definition.go:73-76), while
  completion offers both. No model of the run had a field called like its manager; now one has, and the property excepts it (`IsManager`). The two arms of
  `contextSourceRange` that overlapped there are one.

## 6. Findings

- **A save can end the supervisor** (`supervisor_lost_save`,
  `internal/python/manager.go:482`). `loop` reads the epochs in one critical section
  (416-420) and opens the session for `refreshEpoch` in a later one (428-432). A `DidSave`
  between the two makes a session for an epoch that is not released. If it
  publishes before the timer fires, `publishGraph` refuses it, `runSession` returns
  without an error, and the loop, seeing neither a pending refresh nor a
  newer epoch, returns: no worker, no warning, and later saves are dropped. DEV.md:223-225
  promises a fresh session per burst. `SavesAreServed`, with its exceptions, is what does hold, and
  `RunEndsForCause` names this case (`slipped`) as the only one beside `Stop`
  and a cleanup failure.
- **A broken path is not reported** (`orm_broken_path`, `internal/analysis/diagnostic.go:71`). `staticORMPaths` skips a
  call whose method the schema resolves, taking it for one the project overrides. The worker lists Django's own methods too, for
  every manager that has a QuerySet class (introspect.py:613-646, 668-694; asserted in test_introspect.py:399-401), and only completion
  (path.go:129, 216, 291) exempts them. So on a schema of the worker no argument of `objects.filter(...)` and the like is diagnosed, which README.md:238-239 shows
  and DEV.md:217 promises. Constructors and calls on related managers (`author.book_set.filter(...)`, whose methods are not in the schema) are; `Q` and `F` never. The graphs of the Go tests list no
  such methods, which is why they do not show it.
- **A save is judged by halves of two graphs** (`save_filter_race`, `internal/python/manager.go:344`). `schemaAffectingPath` loads the graph
  (334), then reads the authority under the lock (344). A publication of the worker between the two has the save of a helper module judged by the old list
  and the new authority: neither has it, though DEV.md:129-130 covers it before and DEV.md:223-224 after. `HeardOnlyIfAffecting` and
  `StaleOnlyIfUnheard` are what does hold.
- **A manager is made whose sessions cannot start** (`environment_probe`, `internal/python/manager.go:168`). `NewManager` tries the environment with a runtime
  directory of nine digits; `os.MkdirTemp` (575) appends up to ten, in five variables (four on Windows). A configuration within that many units of the limit
  of 30,000 is accepted, and each session with the longer name fails at 629 and counts towards the restart limit, where
  DEV.md:173-178 has limit violations fail the configuration. `WorkerIsConfigured` is what does hold.
- **A stale entry is accepted** (`cache_stale`,
  `internal/python/schema_cache.go:282`). The digest is taken from the sources after the worker has
  imported them; an edit in between gives an entry whose schema is older than its
  digest, which the next launch takes for current. README.md:351-352 says stale
  entries are misses. `StaleOnlyIfTorn` is what does hold. The runtime graph of the same launch
  replaces it.

Met while modelling, without a run, since no text of the project speaks of them:

- For the same reason, on a schema of the worker `.get()` and `.first()` give an unknown value and `.annotate()` records no alias
  (infer.go:1148-1157 returns before the cases at 1158 and 1165): the call is resolved as a schema method first.
- `resolveExpression` (infer.go:1191) follows `book.author_id` like `book.author`; the walk of a serializer source guards against the
  column (serializer.go:261).
- The second critical section of `Stop` (manager.go:380-386) raises `refreshEpoch` without asking whether another run has begun. The LSP layer starts and stops a manager once.

## 7. What is not modelled

- **The way from a syntax tree to an expression**: how the enclosing calls and arguments of a cursor are found. NameEnvironment has the statements and OrmAnalysis
  begins with the parts of the expression. Also Meta options, document links, **signature help, symbols and references**: pure functions that
  change no state. How a handler obtains snapshot and graph is in Diagnostics.
- **Wire format** (`wire.go`, `dto.go`): JSON decoding with limits; its result is SchemaGraph's input, "refused" one of its outcomes.
- **Django introspection**: runs inside Django; its outcomes are inputs.
- **The incremental syntax tree** of a document: the points the parser is told are checked
  (`PositionsAgree`), the parser itself is a library.
- **Test harness, test client, Zed extension, scripts**: tooling, or a single
  cached path.

## 8. The plan

Built, in this order, the most important behaviour first: SchemaRefresh and Supervisor with their
proofs; Diagnostics; Extension; Lifecycle with proofs; WorkerSession with proofs; PersistentCache; TextPositions and
DocumentSync; MessageChannel and FrameCodec; SchemaGraph, LookupPath and OrmAnalysis; SaveFilter; NameEnvironment; WorkerEnvironment.

The theorems of [section 5](#5-the-proofs) came after each of them.

Next:

1. **Compositions**: Supervisor's session steps as an abstraction of WorkerSession (a refinement), the cache entry of
   Supervisor as an abstraction of PersistentCache, and SaveFilter's verdict as the guard of Supervisor's save.
2. **The lookup paths of a field** as the worker builds them (`build_lookup_paths`, introspect.py:358-416), whose result OrmAnalysis takes as
   its input.
