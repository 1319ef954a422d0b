# A TLA+ model of file_indexr

file_indexr watches a directory, keeps a full-text index of its files and answers
searches over HTTP and MCP. This directory models how changes of files become documents
of the index, how searches see it while it changes, the session of an MCP client, and
the outlines of texts that clients navigate by.
`PROJECT.json` lists the runs, the source lines of every definition, the hazards and
the findings.

Run a model with `tlc -config <cfg> <module>`, check the proofs with
`tlapm M.tla`, `M` being IndexWriterProofs, TextCacheProofs, DebouncerProofs,
FileSyncProofs, SupervisorProofs, ServingProofs, StdioSessionProofs or OutlineProofs.

## Inventory

| Part | State it keeps | Operations | Correct when |
|---|---|---|---|
| index writer, `index/writer.rs` | `buffer` of change items, tantivy's uncommitted operations, the committed index | `add_file`, `delete_file`, `delete_dir`, `commit` (a blocking task), retry, restart | no path has two documents; times tell the texts read from disk; changes are committed in order; retries end |
| text cache, `formats/mod.rs` | path -> normalized text | lookup, read, insert, invalidation, eviction | index and cache hold current texts once all changes are processed |
| debouncer, `watch/debouncer.rs` | file -> time of its last event | `new`, `add`, `tick`, `flush` | the last event is kept, emissions are spaced, a quiet file is not held back |
| watcher, `watch/mod.rs` | bridge thread, bridge channel, watcher task, bounded channel | events to changes, tick, flush, tear-down | every reported change reaches the event loop, renames and directories included |
| scanner, `index/scanner.rs` | a snapshot of the committed index, a channel | deletion detection, walk, mtime comparison | finds what was missed, harms nothing present |
| coordinator, `index/mod.rs` | event loop, commit timer, rescan | `process_change`, drains, `start_watching` and its tear-down | the index follows the files; nothing is left behind at the end |
| supervisor, `index/supervisor.rs` | attempts, shutdown and done channels | start, restart with backoff, give up | always reports its end, never misses a shutdown |
| process, `main.rs`, `mcp/stdio.rs` | transport, start-up scan task | bind, serve, stop, await, exit | a signal, the client's end or a dead watcher ends it |
| search, `search.rs`, `/search` and `/stats` | the shared reader's searcher; per request its hits and snippets under way | reload, search, load snippets, answer | shows what was committed before; the answer is whole and of one commit; every request ends |
| MCP session, `mcp/stdio.rs`, `mcp/mod.rs`, `mcp/jsonrpc.rs` | two pipes, the line and the answer in hand | read, parse, dispatch, write; end of input, errors | each request gets its answer, in order; failures show in the exit status |
| outlines, `formats/{markdown,python,rust}.rs`, `docs_headings`, `docs_get` | a stack of open blocks | scan a line; heading ranges; slices | levels follow nesting; ranges make up the text |
| RST conversion, `formats/rst.rs` | cursor, underlines seen | one form after the other | keeps titles and contents |
| configuration, `config.rs` | none after the start | merge, validation | not modelled |
| HTML, PDF and EPUB conversion, routing | none | libraries, I/O | not modelled |

How they interact: notify's thread feeds the bridge; the watcher task turns events into
changes and sends deletes at once, modifications through the debouncer, over a bounded
channel to the event loop; the start-up scan sends changes over a channel of its own to
a task that runs beside the event loop, an overflow rescan to the event loop itself;
both call the same writer; the writer reads texts through the cache that request
handlers fill at the same time; requests reload one shared reader of the committed index;
the supervisor owns the event loop and `main` owns the supervisor. The stdio loop is a
blocking thread between the client's pipes and the same request handlers.

What is hard: two callers of one writer, state read before an await and used after it
(stat and read of a file, cache lookup and insert, snapshot and scan), failures in the
middle of a batch, deletes that overtake debounced modifications, a rescan of an index
whose changes are still buffered, crashes between buffering and commit, a tear-down
over three channels, a thread and two tasks, reloads that overtake each other, snippets
that end in any order, pipes that are full both ways, and scanners that carry their state
from line to line.

## Modules

- **IndexWriter** is the core. An action is one step between two awaits or locks:
  `StatFile`, `LoadText`, `PushReindexed` are `add_file`; `DeleteFile` and `DeleteDir`
  the deletes; `CallCommit`, `CommitEmpty`, `TakeBuffer`, `LockWriter`, `ApplyAdd`,
  `ApplyDelete`, `DeleteFails`, `CommitIndex`, `CommitFails`, `TaskPanics`,
  `RetainFailed`, `RequeueFailed` are `commit`, its blocking task and `requeue_failed`;
  `Restart` is a crash and a new wrapper. A document is a path, the time read from the
  file system and the tick of the text loaded later, which `from` says to be from disk or
  from the cache that all callers and request handlers share: any text read before
  (`Loaded`). Each kind of failure is a member of
  the constant `Faults`. tantivy is external: `add_document` appends, a delete query
  removes what was added before it, `commit` publishes, `rollback` restores; after a
  failed rollback the writer is killed.
- **IndexStore** says what the writer promises one caller: a queue of changes of which
  prefixes are persisted, and some of which a failure may lose, but which are never
  reordered, repeated or half-applied; the delete of a re-indexed file is never persisted
  without its document. **IndexWriterRefinement** maps IndexWriter to it:
  the queue is what is in flight, then the buffer.
- **IndexWriterProofs** proves the core's invariants, what it promises about times and about
  what a commit reports, and the refinement of IndexStore.
- **TextCache** takes `load_file_text_data` apart into lookup, read and insert, with the
  readers (`AskText`) and the event loop's `process_change` as tasks. The weight of the
  cache is abstracted to `Evict` of any entry at any time. Finding, looking at and loading
  a file that is there may fail (`ResolveFails`, `StatFails`, `ReadFails`); `failed` is what
  went wrong in the last change of a file. **TextCacheProofs** proves its
  safety.
- **Debouncer** has an exact clock; `TickInterval` is the longest time between two ticks,
  including whatever holds the task up. **DebouncerProofs** proves its properties.
- **FileSync** composes the pipeline: file system and notify (external: `WriteFile`,
  `RemoveFile`, `RenameFile`, `RenameDir`, `MakeDir`, `RemoveDir`, `Happens`), watcher
  task (`HandleEvent`, `Expire`, `HandleError`), event loop (`TakeChange`, `EndRescan`),
  the two scans (`BeginScan`, `DetectDeletion`, `Unverified`, `BeginWalk`, `WalkFile`,
  `EndScan`, `ScanFails`, `Drain`), commits and the process. The writer is the abstract
  one: `staged` is what the index will be once the buffer is committed. The constants
  `FileOps`, `MoveOps` and `DirOps` say in which situations files change (program down,
  running without a watcher, during the start-up scan, watched, watched with the event
  dropped by the kernel). `degraded` and `blind` are history variables: a scan or commit
  of this session has failed; a scan has begun while changes were buffered.
  **FileSyncProofs** proves its safety.
- **Supervisor** is the life cycle: bridge thread, watcher task, event loop with its
  tear-down, `run_with_backoff`, both transports of `main`, down to the drop of the
  runtime. Changes are counted, not named; their stream has no end, but only `MaxWaiting` of
  them are on their way at a time. A `watch` receiver is the flag and whether it
  has been seen; a clone has seen what its original has seen. **SupervisorProofs**
  proves its safety.
- **Serving** has the event loop with its biased select and commit timer, the shared
  reader and the requests. The stream of changes has no end: one change, the Mark, is
  followed through `channel`, buffer and index, the others are only counted. A reload is
  two steps (`ReloadOpens`, `ReloadPublishes`), since others may publish in between;
  `Loaders` are the library's own reloads and requests whose answers are not followed. A
  search goes through `TakeSearcher`, `Collect` (the blocking task), `BeginSnippet`,
  `EndSnippet`, `EmitItem` (the ordered window of `buffered`) and `AnswerSearch`; `/stats`
  through `AnswerCount`. What a query finds, best first, is a constant for each side of the
  Mark. `promised` and `excused` are history variables. Commits succeed here: IndexWriter
  has their failures. **ServingProofs** proves its safety.
- **StdioSession** is the client, its pipes, `stdio_loop_inner`, the engine (`Parse`,
  `HandleMessage`, `Resolve`) and the end of `run_stdio_mode`. A line is a record of what
  the code tells lines apart by. The answer's id is the number of its line; the engine
  works on what the loop has read, so one answer is in hand at a time.
  **StdioSessionProofs** proves what the exit status tells and which answers are given.
- **SourceScan** has the Python and Rust scanners as operators from a state and a line to the
  next state: an indentation and a kind, or the tokens `count_brace_delta` and
  `try_parse_rust_item` tell apart. **RstConversion** is `to_markdown`: a line is a kind and
  whether it is indented, a form is an action on the cursor, with the code's tests as guards.
  **Outline** grows a source text line by line, converts a document, scans Markdown
  (`MarkdownLine`), and has the heading ranges (`HeadingItems`) and the slices of `docs_get`
  (`Slice`, `Truncated`). What the scanners' results are compared with (`PythonIn`,
  `RustOutline`, `Titled`, `TitleLevel`, `Hidden`) is defined on the whole text, without a stack
  or a cursor. **OutlineProofs** proves what holds for texts of any length.
- **MC\*** modules name the model values and the directory of each file for TLC.

An operator named `X_Y` beside `X` is a deliberately wrong variant of `X`: a property is
worth keeping only if some such variant violates it. No specification uses them.

## Runs

| Run | Shows | Bounds |
|---|---|---|
| writer_faults | types; no duplicates; a document's time tells its text, if that was read from disk | 1 path, 2 callers, 2 writes, 3 calls, all faults but the failing exact delete |
| writer_one_caller | refinement of IndexStore; times never go back; `true` means committed; changes settle | 2 paths, one below a directory, 1 caller, 2 writes, 3 calls, batch 2; load, commit, rollback failures and crashes |
| text_cache | index and cache fresh when quiet; a stale document is always announced; files that stop changing are indexed with their last text; each unless a failure was reported | 2 files, 1 reader, 2 writes; no write overlaps a load |
| debouncer | last event kept; emissions spaced; delay bounded | 2 files, window 3, ticks at most 2 apart, time up to 9 |
| sync_recovers | fresh when quiet; scans do no harm; always fresh again | 2 directories, 1 name, 3 writes, 4 operations or faults, every fault |
| sync_moves | types; fresh when quiet; no ghosts | 3 directories, one hidden; renames, removals and creations of files and directories while watched; 2 writes, 4 operations |
| supervisor | types; nothing left behind; never deaf; every way out ends | both transports, 3 attempts, channel of 2, 3 changes on their way, every fault; the stream of changes is endless |
| serving | fresh and whole answers; every change gets searchable; every request ends | 1 followed request and 1 more reload at a time, batch 3, channel of 1, window 2, limit 3, requests for 0 and 5 results; failing reloads, tasks and loads; the stream of changes is endless |
| stdio_session | answers match lines; the status tells failures; requests are answered | 3 lines of 9 kinds, pipes of 1 line; read and write errors, panics |
| outline | Python and Rust levels follow nesting; conversion keeps titles and contents; slices partition | 5 lines of 9 (Python), 11 (Rust) and 13 (RST) kinds, truncation at 2 |
| text_cache_overlap | violated: `IndexFreshWhenQuiet` | 1 file, 1 reader |
| sync_rescan_buffered | violated: `RescanRecovers` | 1 directory, no fault |

Why the bounds are enough: the hazards need two documents of one path, two callers in
two phases of `commit`, a batch with a delete and an add, a retry that fails again
(MAX_RETRY_COUNT is 2 in the code, too), a full channel of two, one overflow during a
rescan; each happens within them, and each property is violated by a wrong variant of
the code under the same bounds. Symmetry is used in writer_faults only, for the two
callers, and no liveness property is checked there. A second path matters only to
`DeleteDir` and to the order of changes between paths, which writer_one_caller has.

Serving needs one followed request (requests share only the searcher, and a loader stands
for all others), a batch that takes two changes to fill, a window smaller than the
answer. Three lines let a bad line come between two requests while both pipes are full.
Five lines hold two nested blocks, a block comment, or a directive with its block between
two titles.

`DelayBounded` and `BurstsMerge` do not depend on the 3:2 ratio of the run: they are
proved for all values.

Some runs disable the deadlock check: a watcher whose events, writes and faults are used
up is idle, a process that has exited does nothing, and a text comes to its end. The
writer runs, text_cache and serving keep it: a caller can always ask for a commit, a
reader for a text, a client for an answer.

Fairness. Tasks that can run do: tokio and the kernel schedule every ready task and thread (weak
fairness per task). writer: some caller keeps calling `commit`, the event loop on its timer.
TextCache: a change in the queue is taken in the end (strong fairness, as the change may be
replaced by a newer one). Supervisor: timeouts elapse (`ScanAwaited`, `BackoffEnds`); nothing is
assumed of signals, of the client, of notify or of the start-up scan. The event loop's select is
biased, so `SignalExitsHttp` and `ClientEndExits` leave out the behaviours in which it finds a
change for ever (`Starved`). FileSync: the process is started again, its tasks run, the commit
timer fires; nothing is assumed of the file system or of faults. Serving: the event loop and the
tasks of a request run, the timer ticks, a reload that the library has begun ends; nothing is
assumed of clients or of the stream of changes, but `ChangesGetSearchable` leaves out a stream
that never pauses and of which nothing is ever buffered again. StdioSession: the loop's thread
and `main` run; `RequestsAnswered` has the client's reading as its premise.

## Proofs

tlapm checks, for every value of the constants:

- `IndexWriterProofs!TypeCorrect`: the types.
- `IndexWriterProofs!WriterNeverDuplicates`: `NoDuplicates`, if no exact delete query fails
  (`"delete" \notin Faults`). It is not inductive: a path's second document could
  come from any item in flight. The strengthening `AddsArePaired` says that in every list
  of items (buffer, batches, requeued items) an Add comes right after the Delete of its
  path, and that when the Add of a half-applied batch is next, the writer holds no
  document of the path.
- `IndexWriterProofs!DiskTextsMatchTimes`: `TimeTellsText`, whatever fails. The strengthening
  `DocsAreSound` says of every document, wherever it is on its way, that a text that was
  read from disk is not older than the time beside it, and that one that is not the current
  text comes with a time older than the file's: the stat is done before the read. Nothing
  is claimed of a text from the shared cache, which may be older (run
  text_cache_overlap), nor of a document whose text could not be loaded.
- `DebouncerProofs`: `NothingForgotten`, `QuietFilesLeave` and `EmissionsAreSpaced`, from
  one inductive invariant: the types, `LastEventIsKept`, `TickedRecently` (the last tick
  has left no expired file and the next is not overdue) and `EmittedBefore` (a buffered
  event is no older than the emission before it).
- `SupervisorProofs`: `TypeCorrect`, `PipelineIsDrained` (`NothingLeftBehind`) and
  `ShutdownIsSeen` (`NeverDeafToShutdown`). The strengthening says how the parts of the
  pipeline outlive each other: an error is the last thing the bridge thread forwards
  (`ErrorIsLast`), the task flushes only with an empty bridge and a thread that has ended
  (`TaskEmpties`), no task is there outside the event loop and its tear-down
  (`LoopOwnsPipeline`), and a flag set between the supervisor's look at it and the clone
  of its receiver is still unseen (`FlagUnseen`). `AttemptsLeft` bounds the attempts.

- `ServingProofs!SearchesShowCommits`: `AnswersAreFresh`. An answer is far from the commit it
  owes; the invariant `Fresh` carries the promise along: a version opened by a request that
  came in after the commit is the new one, it is what the searcher has once the reload is
  published unless the request is excused, and a search works with it. `OneMark` says
  that the Mark is in the channel once at most and only while `mark` says so, so that
  the index never goes back.
- `ServingProofs!SearchesAreWhole`: `AnswersAreWhole`. The invariant `Whole` says that the
  items of the answer and the snippets under way are together a prefix of the search's documents
  (`InOrder`), and that these and the total are of one commit (`OfOneCommit`).
- `StdioSessionProofs!ExitStatusIsTheLoops`: `StatusTellsFailure`. Once `main` has looked
  at the end of the loop, the loop's state does not change any more.
- `StdioSessionProofs!AnswersAreOwed`: `AnswersMatchLines`, if no line has a null id (see
  below). The lines that the loop has taken out of the pipe and the answers in all places
  (read, in the pipe, in the loop's hand) are matched at every step.

IndexWriterProofs, on order:

- `TrueCommitsKeepDocuments`: `TrueMeansCommitted` for any number of callers, if
  `add_document` does not fail (`"add" \notin Faults`). What the running task has added and
  not deleted again is pending (`AddedArePending`), and a delete that it has handled is on
  one of the lists of a failed commit (`HandledAreListed`).
- `TimesNeverGoBack`: `MtimeMonotone` for one caller and every fault. `OrderInv` says that
  along the index, tantivy's queue, the batch and the buffer the times of a path do not
  decrease.

- `WriterImplementsStore`: `ImplementsStore`, the refinement of IndexStore, for one caller and
  `Faults \subseteq {"load", "commit", "rollback", "crash"}`, the hypotheses of run
  writer_one_caller. Each of them is needed: IndexStore is a promise to one caller, and with
  any of the other faults TLC finds a violation (see below). `AddsArePaired` gives that no batch
  ends between the Delete and the Add of a file. The inductive invariant `StoreInv` says that
  documents are made of ticks of the clock (`DocsAreTicks`), that an item is in one place at a
  time (`OnePlace`), and what a running task has done: tantivy's uncommitted state
  is the abstract store after the changes up to `pos`, and what the task would requeue is a
  subsequence of them (`TaskIsAhead`). A committed batch is then a `Persist`, a failed one or
  a crash a `Lose`, a call of the writer a `Submit`, and every other step a stutter.

TextCacheProofs: `CacheTypeCorrect`, and, if no file is written while a task loads it
(`~WritesOverlap`, as in run text_cache), `IndexEndsFresh` (`IndexFreshWhenQuiet`),
`CacheEndsFresh` (`CacheFreshWhenQuiet`) and `StaleDocumentsAnnounced` (`StaleIsAnnounced`),
all from one invariant: what a task has read and not yet inserted is current
(`ReadIsCurrent`), stale text in the cache is announced or about to be cleared (`CacheInv`),
a stale document is announced, being indexed or the outcome of a failure (`IndexInv`,
`WorkFails`). Loads fail there as they please. The properties except a file whose last change
could not be resolved or looked at, which is logged, and one whose text could not be
loaded, but then its document has no content (`Reported`): a failed load never leaves
an old text behind.

FileSyncProofs:

- `SyncTypeCorrect`: the types.
- `ScansNeverHarm`: `ScansDoNoHarm`, under `NoMoves`. `DoomedIsOld` says that a file that a
  scan has found gone, or will find gone, is gone, or has come back with a time that no
  document has; `DeletesFirst` that a scan sends no delete after an update, so
  that an update is drained only when nothing is doomed any more.
- `IndexFollowsFiles` (`FreshWhenQuiet`) and `NoGhostsLeft` (`NoGhosts`), under `Noticed`,
  for all directories, files and faults. The invariant is `Covered`. A file that is not
  indexed as it is on disk is reported by something on its way (an event, the debouncer, a
  change), or a lost event is noted and the file is newer than its document, or a scan will
  find it (`StaleIsCovered`). A document without a file has its delete, or that of its
  directory, on its way (`GhostIsCovered`). Neither is inductive alone: a delete that comes
  too late would take a fresh document away. `LateInChan`, `LateInRaw` and `LateInScan`
  say that every such delete, be it in the channel, among the events or found by a scan,
  has an update of the same file, or a rescan, behind it. `Recoverable`
  carries the argument over a crash: the times of documents are not newer than their files.

OutlineProofs, for texts of any length:

- `SlicesMakeUpText`: `SlicesPartition`, for source texts and converted documents of any
  lines. The invariant `InOrder` is that the headings' line numbers ascend and are lines of
  the text; the ranges that `build_heading_items` makes of them are adjacent, and
  adjacent slices, flattened, are one slice. Both sequences are built by recursion
  (`ScanMarkdown`, `FlattenSeq`): the lemma `SetInduction`, drawn from the
  well-foundedness of the natural numbers, does the induction over their length.
- `PythonLevelsAreNesting`: `PythonLevelsFollowNesting`. The invariant `PythonShows` says that
  the stack holds, in the order of the text, the items that all items since are deeper than
  (`StackShows`), and that every item has a heading whose level counts those it is in
  (`HeadingsShow`). It holds for any text; `StackDeepens` is what python.rs:32
  says of the stack ("Stack depths are strictly increasing"), so that popping its end is
  enough. Where only classes and functions have blocks, an item that is deeper than the
  items before it is deeper than all lines before it (`OnlyItemsCount`), which makes
  this the nesting of the text.

`NoMoves` and `Noticed` restrict in which situations files change: never during the
start-up scan or without a watcher; moves while the program runs are excluded by `NoMoves`;
`Noticed` excludes that events of moves and of directories are lost, and such operations
together with crashes. Each of these restrictions is needed: without it the property is
violated, as listed below. The runs sync_recovers and sync_moves satisfy them.

The assumptions are those of the constants (`WriterAssumption`, `CacheAssumption`,
`DebouncerAssumption`, `SyncAssumption`, which has that there are finitely many files,
`SupervisorAssumption`, `ServingAssumption`, `SessionAssumption`, `RstAssumption`,
`OutlineAssumption`, which has what a line of Python is), which TLC evaluates on every run.

Only model-checked: liveness (`ChangesSettle`, `EventuallyFresh`, the exits of Supervisor,
`ChangesGetSearchable`, `SearchesEnd`, `RequestsAnswered`), which is out of the prover's
reach; `RustLevelsFollowNesting`, which is not true of every line: the scanner is compared
with the nesting of the lines in `MCRustLines`, and those it gets wrong are listed below; and
`ConversionKeeps`, whose references (`Titled`, `Hidden`) classify each line of a document by
the lines around it.

## Known differences between the code and what it says

Shown by a run: the two violated properties above, with the lines in `PROJECT.json`.

Found in the same way, by changing a constant of a listed configuration (and, where a
property is not listed there, adding it):

- `MtimeMonotone` with `Callers = {loop, scan}` and `Faults = {}` in IndexWriterOneCaller.cfg: the
  start-up scan (main.rs:73) and the event loop share the writer, and a document built from
  an older stat can be committed after a newer one (writer.rs:498). The next scan heals it.
- `NoGhosts` with `FileOps = {"watched", "offline"}`, `MoveOps = {}`, `DirOps = {"offline"}` and
  `Faults = {"crash"}` in FileSyncMoves.cfg: `canonical_relative_path` fails when the parent
  directory is gone (writer.rs:376), so that the documents of a directory removed while
  the program was down stay, although scanner.rs:308 promises "Deleted files: exist in index
  but NOT on disk". The same happens to a directory that is removed or renamed while the
  program runs if the kernel drops the events (`"dropped"` added to `DirOps` or `MoveOps`,
  `Faults = {}`): the rescan finds the files gone, but their deletes cannot be resolved.
- `ScansDoNoHarm` with `MoveOps = {"watched"}`, `Faults = {}` and `MaxOps = 5` in
  FileSyncRecovers.cfg: a file that is moved away and back during a rescan is found gone
  (scanner.rs:132) and taken out of the index although it is there, with the time it is
  indexed with. The events of the move index it again.
- `SignalExitsHttp` without `Starved`: changes that keep coming keep the biased select of the
  event loop from the shutdown flag (index/mod.rs:154), and the process stays; index/mod.rs:134
  says "Run the main event processing loop until shutdown is requested", main.rs:145
  "Graceful shutdown via SIGINT/SIGTERM".
- `SignalExitsHttp` without `transport = "http"`: in stdio mode the runtime waits for the blocking
  stdin reader (stdio.rs:20) when main returns, so that after a signal the process stays until
  the client closes stdin; main.rs:145 says "Graceful shutdown via SIGINT/SIGTERM".
- `TrueMeansCommitted` with `Faults = {"add"}` in IndexWriterOneCaller.cfg: `commit`
  logs a failed `add_document` (writer.rs:546) and returns `true`, "all buffered changes
  were committed" (writer.rs:479).
- `IndexFreshWhenQuiet` without `Reported`: a file that is there and whose load fails is
  indexed without content under its current time, and stays so until it changes again, as
  writer.rs:139-141 says. An error while a change is resolved or its file looked at drops the
  change (index/mod.rs:229), and the document stays as it was until a scan.
- `TimeTellsText` without `d.from = "disk"`: the two callers and the request handlers share the
  cache (writer.rs:130), so that one may store, under the new time, the old text that another
  has put back after `invalidate` (writer.rs:426, formats/mod.rs:137), as in run
  text_cache_overlap.
- `CacheFreshWhenQuiet` under TextCacheOverlap.cfg: a load under way inserts the old text
  after `invalidate_all` (index/mod.rs:238), and it is served until the next change.
- `FreshWhenQuiet` with `FileOps = {"unwatched"}` in FileSyncRescanBuffered.cfg: a write
  after the start-up scan (main.rs:73) has passed the file and before the watcher is
  registered is not seen; the same gap is open while the supervisor restarts a watcher
  (supervisor.rs:90), which does not rescan.
- `FreshWhenQuiet` with `FileOps = {"offline", "scanning"}`, `Faults = {"crash"}` and
  `MaxOps = 4` there: the scan decides deletions before its walk and sends them later
  (scanner.rs:336); a file that has come back and was indexed by the event loop meanwhile
  is deleted again.
- `FreshWhenQuiet` with `FileOps = MoveOps = {"offline"}`, `DirOps = {}` and
  `Faults = {"crash"}` in FileSyncMoves.cfg: a file with
  an older time moved over an indexed one while the program is down is not newer than the
  stored time (scanner.rs:179).
- `ImplementsStore` with `"panic"` in `Faults`: a panic leaves the first items of a lost
  batch in tantivy's queue, and the next commit persists them (writer.rs:579).
  `NoDuplicates` and `TimeTellsText` hold nevertheless.
- `ImplementsStore` with `"delete"` or `"deldir"` in `Faults`: a delete whose query fails is
  requeued alone (writer.rs:557, 593) and runs after the documents that followed it in its batch,
  which it removes; with `"add"`: a document that fails is left out, and the rest of its
  batch is committed (writer.rs:546).
- `ImplementsStore` with two callers: the mapping names one caller's changes, and the other's
  are committed without ever having waited. Apart from the mapping, the second caller may
  commit a newer document before the first has put its failed deletes back into the buffer
  (writer.rs:593): the retry then removes that document.

- `AnswersMatchLines` with `NullIdCall` added to `AllLines` in MCStdioSession: a request with
  `"id": null` is a request to `parse_message` (jsonrpc.rs:71), but its id deserialises as
  absent and the answer has no `id` at all.
- `AnswersAreFresh` without `~excused[r]`: search.rs:132 says that "`searcher()` afterward
  reflects freshly committed data", but a reload of another task that had opened the older
  commit may be published in between.
- `PythonLevelsFollowNesting` without `OnlyItemsIndent`: "Uses indentation to determine nesting"
  (python.rs:16) looks at the indentation of classes and functions alone, so that one below a
  top-level `if` or `try` counts as nested in the item before it.
- `RustLevelsFollowNesting` without the second conjunct of `regular`: an item without a block
  (`struct Foo;`) claims the next block that is opened, that of `extern "C" {` for example. The
  same property is violated by Rust lines that are not in `MCRustLines`: `fn .. { } }` leaves a
  closed block on the stack, `/* */ fn .. {` is no item, and the block of `fn .. // {` is never
  registered.
- `ConversionKeeps` without `RunsApart`: three equal runs of punctuation in a row become a heading
  made of punctuation. Without the premises in its two parts: a comment is looked for at any
  indentation (rst.rs:98) and takes all indented lines that follow, so that one inside
  another directive's block drops the rest of that block (rst.rs:149); a paragraph line
  that begins with `#` is a heading in the Markdown (rst.rs:129, markdown.rs:16-18), and one
  that begins with a fence opens a code block that hides the headings below it.
- `ConversionKeeps` with `"."` among the lines of MCOutline and among the comments of `Hidden`:
  rst.rs:144 says that `..` alone is a comment ("drop this line and any following indented
  continuation lines"), but `punct` takes it first, for a run of punctuation (rst.rs:72), and the
  indented lines are shown as a quote.

Seen while reading, outside of the models' data: two-space indentation gives depth 0 to
all of a Python file; a line of `..` or `::` below a text makes the text a title; the text
after an admonition's `::` is dropped; `sort_order` has no effect on a search sorted
by score; `max_file_size_mb * 1_000_000` may overflow.

## Not modelled, and the plan

Left out of the modelled parts: symlinks and paths that escape the directory, file
filters (size, extension, encoding), deeper directories than one level, Modify events of
directories, ranking, filters and sort orders, segment merging (tantivy), memory use,
inline markup, the texts of headings, character literals and raw strings. Buffers and
channels that the code leaves unbounded are bounded by the number of events.

Not modelled: the configuration (a pure merge and validation before anything runs), the
conversion of HTML, PDF and EPUB (done by libraries, except for path arithmetic), images,
the HTTP transport of MCP (one call of the engine per request), routing and HTML,
schema and error texts. None of them keeps state or waits for another part.

The order of the work: (1) index writer, its abstract store and proofs; (2) text cache;
(3) the pipeline FileSync; (4) Supervisor with proofs; (5) Debouncer with proofs;
(6) Serving with proofs; (7) the MCP session with proofs; (8) outlines and
the conversion of RST; (9) proofs about TextCache, FileSync, the answers of the MCP session
and the order of the writer's changes; (10) the refinement of IndexStore and the outlines
of texts of any length, proved. These are done. What would come next:

11. FileSync's watcher and scanner against the abstract index they share, nested
    directories, and file filters (`Config::should_index`);
12. the path arithmetic of EPUB archives and the configuration merge as operators checked
    against a reference definition.
