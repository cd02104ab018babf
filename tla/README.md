# cppscanner: a TLA+ model of the scanner

`cppscanner` indexes C++ projects with clang. `cppscanner run` parses every translation unit of
a project, produces a *translation unit index* for each, and aggregates the indexes in one SQLite
file, the *snapshot*; `cppscanner merge` combines snapshots. A clang plugin writes one snapshot per
compilation instead. This directory models the parts of it where the order of steps matters, checks
them with TLC and proves the main results with TLAPS.

All paths below are relative to `src/modules/cppscanner/`.

## Inventory

| Component | State | Operations | Interacts with |
|---|---|---|---|
| Parsing threads (`indexer/scanner.cpp`: `scanMultiThreaded`, `parsing_thread_proc`, `WorkerThreads`) | `m_running`, a pc per thread, `m_produced_output` | spawn, take a command, run it, write its index or an error, leave | work queue, result queue, Indexer, SnapshotCreator |
| `WorkQueue`, `IndexingResultQueue` | a queue and a mutex (and a condition variable) | `next`; `write`, `tryRead` | parsing threads, main thread |
| Sequential scan (`processCommands`) | loop over commands | run, feed, report; compile PCH/PCM | Indexer, SnapshotCreator |
| `FileIndexingArbiter`s | file -> address of the owning index | `shouldIndex` | shared by all Indexers, under a mutex |
| `FileIdentificator` | path -> FileID, dense | `getIdentification`, `getFiles`, `getFile` | shared by all threads and by the SnapshotCreator |
| `Indexer` | current index, AST context, two caches, symbol collector | `initialize`, callbacks, `finish` | clang, arbiter, identificator |
| `SnapshotCreator` | paths inserted, files indexed, symbols, all per scan | `feed`, `close` | SnapshotWriter |
| `SnapshotWriter`/`SnapshotReader`, `Database`, `Transaction` | the SQLite file | inserts, loads, deletes, transactions | SQLite |
| `SnapshotMerger` | id tables per input | `runMerge` | SnapshotReader, SnapshotWriter |
| `ScannerInvocation`, environment, command line | options | `parseCommandLine`, `parseEnv`, `run`; search, merge and removal of a link | Scanner, SnapshotMerger, the disk |
| Clang driver glue (`CCTranslator`, `CCAdjuster`) | none | rewriting of command lines | clang |
| Plugin (`src/plugin`) | output path, one snapshot per compilation | `ParseArgs`, `initialize`, `finish` | Indexer, SnapshotCreator, other compilations and links through the disk |
| `FilePosition`, `SymbolID`, `Reference`... | bit fields | packing | everything |

Hard behaviours: the parsing threads share four objects (two queues, the identificator, the
arbiter) and the thread that reads the results polls a counter; invocations fail at any point, with
or without having produced an index; the arbiter keeps addresses of objects that are freed; `feed`
writes one translation unit in about ten transactions and reads back what earlier ones wrote; the
program may be killed between them.

What makes each component correct:

- Parsing threads: every command is parsed once and ends with an index or an error; the counter that
  ends the main loop is exact; what was popped is what was fed; the scan ends.
- Arbiters and Indexer: a file is indexed by one translation unit; a cached answer is never stale; a
  diagnostic is never added to the index of another unit.
- FileIdentificator: ids are dense and stable, so that a copied list of paths can be read with them.
- SnapshotCreator: at every commit point the rows refer to files and symbols that exist; the result is
  the union of what was fed, without duplicates; nothing that was committed disappears.
- SnapshotMerger: the same of its output, with the files renumbered; inputs are not removed before.
- Indexer: the index of a unit is what `feed` expects and depends on nothing that an earlier unit left in
  the caches; what `finish` removes or marks loses no symbol, no caller and no location.
- Run command: a run that was killed neither stops nor misleads the next one; an output that is not to be
  overwritten is not touched; headers are compiled before the threads use them.
- Command line: a word is an option, the argument of one, an input or for the compiler by its position, and
  every option has the value the last of its flags gives it.
- Plugin and link: compilations that run side by side never write to one file; what a link removes it has
  merged, and a link that succeeds has all that was there when it began.

## Modules

| Module | Models | Extends / instantiates |
|---|---|---|
| `ParsingThreads` | `scanMultiThreaded`, worker threads, both queues | instantiates `Aggregation` |
| `Aggregation` | what a scan promises, without threads or queues | |
| `ParsingThreadsProofs` | proofs | extends `ParsingThreads` |
| `IndexOnce`, `MCIndexOnce` | arbiters, the life of an Indexer's index and caches | |
| `IndexOnceProofs` | proofs | extends `IndexOnce` |
| `FileIds` | identificators, shared by the threads and by `feed` | |
| `FileIdsProofs` | proofs | extends `FileIds` |
| `UnitIndex` | what a translation unit index is, and `WellFormed` | |
| `Indexer`, `MCIndexer` | the callbacks, `SymbolCollector`, the caches, `finish` | extends `UnitIndex` |
| `IndexerProofs` | proofs | extends `Indexer` |
| `SnapshotFeed`, `MCSnapshotFeed` | `feed`, transaction by transaction | extends `UnitIndex` |
| `SnapshotFeedProofs` | proofs, with what a merge finds | extends `SnapshotFeed`, instance of `Snapshot` |
| `Snapshot` | what a snapshot is to a merge, and `Consistent` | |
| `SnapshotMerge`, `MCSnapshotMerge` | `runMerge`, table by table, and its callers | extends `Snapshot` |
| `SnapshotMergeProofs` | proofs | extends `SnapshotMerge` |
| `CommandLine` | `main`, `parseCommandLine`, `parseEnv` | |
| `ScanRun`, `MCScanRun` | the run command, one run after the other | extends `CommandLine` |
| `ScanRunProofs` | proofs | extends `ScanRun` |
| `PluginLink`, `MCPluginLink` | compilations with the plugin and `merge --link`, on one disk | |
| `PluginLinkProofs` | proofs | extends `PluginLink` |

They compose through what they leave to each other. `ParsingThreads` says that the indexes reach `feed`
one at a time and in any order; `SnapshotFeed` takes any order of any indexes. `IndexOnce` says which
files may be in several indexes (those of units at a reused address), so that `SnapshotFeed` must feed
a file twice. `Indexer` shows of each index what `SnapshotFeed` assumes of it
(`WellFormed`, in `IndexesAssumption`). `FileIds` says that the ids in an index can be read with the list that `feed` copies.
`SnapshotMerge` assumes of its inputs (`Consistent`, in `DisksAssumption`) what `SnapshotFeed` leaves at every commit
point and what `SnapshotMerge` leaves itself, which two theorems say (`EverySnapshotIsConsistent`,
`MergedSnapshotIsConsistent`). `ScanRun` puts a scan between what is on the disk before and
after it; it takes from `ParsingThreads` that an index may be lost, and from `SnapshotMerge` that the
merge of one snapshot holds what the snapshot held. `CommandLine` gives `ScanRun` the options of a run from its
words. `PluginLink` puts a merge between compilations that write its inputs; it takes from `SnapshotFeed` that
what is committed is consistent and from `SnapshotMerge` that the output holds what was read.

A definition that begins a comment with "mutant of" is a plausible bug in the definition that follows
it. It is used in no specification; replacing the definition's body by it makes TLC report the property
that is listed with it in `PROJECT.json`.

### ParsingThreads

`wpc[w]` is where a thread is in `parsing_thread_proc` (scanner.cpp:673-712), `mpc` where the main
thread is in `scanMultiThreaded` (764-833). Every step that takes a mutex (`WorkQueue::next`,
`IndexingResultQueue::write`, `tryRead`) or touches the atomic counter is one action. The three outcomes
of a tool invocation (it returns true, false, or throws) are `InvocationReturns`, at any of the places
where the front-end may stop: before `initialize`, before `finish`, after it. Both queues are logs with
a cursor. The loop condition and `tryRead` are separate actions, and so are the last write of a thread
and its `fetch_sub`, which is what makes the end of the loop interesting.

Clauses of `Fairness`: weak fairness of the main thread and of each worker. The code justifies them with
the operating system's scheduling of threads, `tryRead` having a timeout, and the assumption that clang
returns from every invocation; nothing else in the model waits for anything.

`Aggregation` is the specification one would give of a scan: commands get an index or fail, in any
order; indexes are put in the snapshot, one at a time; after closing nothing happens. `ParsingThreads`
implements it under the mapping at the end of the module, with liveness.

### IndexOnce

`owner` is the arbiter's `m_translation_units`, with addresses as values; `index[t]` is the address of
`m_index` of the Indexer of thread `t`; the allocator may return any address that is not live. `at` and
`built` are history. `shouldIndex` of the composite asks the index-once arbiter first, which assigns the
file even if the next one refuses it. One module for both callers: `threaded` is the `nbThreads` option.
In a sequential scan only `Main` works and the index stays with the Indexer until it is fed or replaced.

### FileIds

`ids` is `m_files`. `Identify` and `GetFiles` are the two critical sections. `StorePath` is the loop of
`feed` that calls `known_files.at(id)`; threads go on adding ids between its iterations. The paths in
`held`, `queue` and `todo` are history.

### Indexer

`index` is `m_index`. `fileIds` and `answers` are the caches of the Indexer, `declIds`, `macroIds` and `moduleIds` those
of the `SymbolCollector`; they are keyed by things clang gives again to the next unit, `clang::FileID`s and
addresses. Clang and the syntax tree are the
environment: each callback may come for any of the declarations, macros and modules in `MCIndexer`, at
any of its places, in any order, and a declaration may have no usr. `Collect` is `SymbolCollector::process`
with everything it calls, `Finish` is `Indexer::finish`: preprocessing record, sorting and removal of
duplicates, implicit references, arguments, declarations, in the order of the code. Where the code sorts
with a comparison that leaves ties, any of the tied rows may be the one that stays.

### SnapshotFeed

`stage` and `todo` are where `feed` is (snapshotcreator.cpp:272-523). Each action ends with a commit;
a state is therefore what a killed program leaves. `table` has the four tables that `feed` reads back,
merges, deletes and inserts again for files that were indexed before; the deletion and the insertion
share a transaction. `OnePerKey` is any outcome of an unstable sort followed by `unique`. `ThroughInt` is
what `columnInt` does to a 64-bit id.

### SnapshotMerge

`phase` is the table that is written next. `ListSnapshot` opens one input. `AddFilesOf` is one iteration of the loop that numbers files:
those of the project first. `ComputeIds` looks the files of every input up again and makes their tables of
renumbering (merge.cpp:504-508). `WriteRows` collects one table of every snapshot, renumbered, removes the
duplicates and commits. `RemoveSources` is what link mode (scannerinvocation.cpp:400) and the scanner
(scanner.cpp:872) do afterwards. `Grow` is a compiler that goes on filling a snapshot it had created, at any time
before the inputs are removed; what it adds is there for every table that is read later. `raced` is history: an input
grew after its files had been read. `LookUpInVain` is the look-up of a file that has no number, or of a row whose
file has no entry in the table of renumbering; in the code an assertion fails or the behaviour is undefined, and in the
model the merge is `aborted`. The inputs of one table are read in one step.

### ScanRun

`pc` goes from the check of the output file (scannerinvocation.cpp:148) to the removal of the `.tmp` file
(scanner.cpp:872); `Crash` ends a run anywhere, and the next `Start` finds `disk` and `header` as they are.
`options` is what `CommandLine` makes of one of the `Lines`. `list` is what `processCommands` is called with and
`tasks` what the threads share, as sets of indexes into `commands`; without threads everything is in `list`.
`Compile` and `Parse` are the two invocations of clang, which may fail. In
`InitSnapshot` and `OpenOutput` the exception is the consequence of `Database::create` having done nothing because
the file existed; `PathsAreFree` says that it never does. `Broken` are the databases that cannot be parsed.
`builds`, `parses`, `against` and `fed` are history.

### CommandLine

Operators without state. `Read` is one iteration of the loop over the arguments of a command
(scannerinvocation.cpp:518-819), `ReadFlag` what it does with a word that is no argument, and `Reading` is what was
read after each word. `parsed.flag` is the flag whose argument comes next; `Valued` with `ValueOf` and `Alone` with
`SwitchOf` are the chains of comparisons, for the flags with an argument and for those without. `ParseEnv` is
`parseEnv` with `isEnvTrue`, `Main` is `main`. `OptionsAreThoseGiven` describes the result without going through the
words in order, from the positions of the flags.

### PluginLink

`pc[j]` is where a compilation is between `ParseArgs` and the destructor of its SnapshotCreator: the choice of a
free number, `Database::create` with its own look at the file, `sqlite3_open_v2`, the creation of the tables, and
the three commits. `db[j]` is the inode its connection refers to, which stays when the path is removed.
`CommitFails` is a COMMIT that returns an error nobody looks at: the transaction stays open on the connection and
its rows come with the next commit, if there is one. Any compilation may be killed anywhere.

`phase` is where `merge --link` is: the search for scanner directories in the inputs, the environment variable's
directory or the current one; the listing of their files; `runMerge`, which opens, then reads; the removal of the
directories, file by file. It may be killed anywhere. `raced` and `promised` are history: which compilations had
company when they chose their name, and what ended compilations had left where the link looks.

Abstractions: a tree is searched and a directory listed in one step; the output of a link is not one of its inputs
and one link runs at a time; SQLite is external, and its locks are the rule that a commit fails while another
connection reads or writes.

## Runs

| Run | Instance | Shows |
|---|---|---|
| `threads` | 2 threads, 3 commands; 92 thousand states | `NoTaskForgotten`, `AtMostOneIndexThenOneError`, `NothingMoreAfterLoop`; `Termination`; `ImplementsFairAggregation` |
| `threads_lost_results` | 2 threads, 2 commands | violation: indexes left in the queue (see Findings) |
| `index_once` | 2 threads or a sequential scan, 3 units, 3 addresses, a file included twice and an external one; 2.6 million states | `DisjointWhileLive`, `SharedOnlyByReuse`, `AssignedIsIndexed`, `CachedAnswersHold`, `ContextOutlivesNoFinish` |
| `file_ids` | 2 threads, 3 paths, 2 results; 169 thousand states | `IdsAreDense`, `NeverOutOfRange`, `PathsAreThoseIdentified` |
| `snapshot_feed` | 3 feeds out of 3 overlapping indexes, in every order and with repetitions | `ReferentialIntegrity`, `MemoryMirrorsDatabase`, `SnapshotIsUnion`, `RowsNeverVanish` |
| `snapshot_feed_parents` | the same, 2 feeds | violation: parents cut to 32 bits |
| `snapshot_merge` | 1 to 3 inputs of two files, which may grow at any time; 165 thousand states | `ReferentialIntegrity`, `MergedIsUnion`, `NothingRemovedUnmerged`, `LookUpsFailOnlyInARace` |
| `snapshot_merge_race` | 1 input that grows | violation: a look-up that finds nothing |
| `indexer` | 2 units, 4 callbacks; 33 thousand states | `IndexIsWellFormed`, `CachesAgree`, `FromProjectMeansDeclared`, `ReferencesSurviveFinish`, `LocationsKeepAPrimary` |
| `scan_run` | 3 runs, all options, 8 commands or a small tree of inputs; 900 thousand states; 28 thousand command lines in 4 environments | `PathsAreFree`, `SuccessLeavesOwnSnapshot`, `NothingTouchedUnasked`, `NoStaleHeader`, `EveryCommandOnce`, `SourcesAreFound`, `WordsAreUnderstood` |
| `scan_run_local_symbols` | the same lines and environments | violation: the value 0 turns local symbols on |
| `plugin_link` | 2 compilations of files with one name, 2 links; 3.3 million states | `SnapshotsAreNotShared`, `AbortOnlyInARace`, `SuccessfulLinkMovesAll`, `RemovedIsLinked` |

The type invariants of `ParsingThreads`, `IndexOnce`, `FileIds` and `ScanRun` are proved for every value of the
constants and are not in the runs, nor are `RunningCountsThreads`, `EachTaskTakenOnce`, `HandledAsRead` and
`ImplementsAggregation` of `ParsingThreads`. `plugin_link` was run once with `TypeOK` of `PluginLink` added.

Why the bounds are enough:

- `threads`: two threads are enough for every race on a queue or on the counter, which are about pairs
  of steps; three commands give one thread two of them while the other has one. The proofs
  cover every number of both.
- `index_once`: to index a file twice takes a first owner, a release, and a second unit at the same
  address; a third unit lets this happen while another thread holds an index. Three addresses let both
  threads replace the index of a failed unit. The proofs cover every number.
- `file_ids`: an index must be fed while another thread adds an id that is not in the copied list; a
  second result then has ids that the first list lacks. The run may stop when all results are written:
  `CHECK_DEADLOCK FALSE`. The proofs cover every number.
- `snapshot_feed`: the first feed of a file, the first merge (which reads what was inserted) and the
  second merge (which reads what was merged) are three different situations, hence three feeds. The
  indexes share a header, two symbols, and a line with two includes. `IntBits = 3` makes every symbol of
  the instance too large for an int.
- `snapshot_merge`: renumbering needs ids that mean other files in another input, in both orders, with a
  gap; `Scans` enumerates them. Inputs include a path given twice, a file that is not a snapshot, one
  without `project.home`, an empty one, and one at the first commit of its feed. The last three are what a killed
  compiler leaves and also what a running one has so far: `Grow` takes them, at any step of the merge, to any later
  stage there is. `snapshot_merge_race` has one input only, so that its behaviour is short.
- `indexer`: four callbacks over two units are enough to fill a cache in one unit and use it in the next,
  or to meet a symbol as a parent, as a reference and as a declaration in every order. Columns go up
  to `MaxColumn = 8`, beyond which they are all the same: a callback may be at either side of it.
- `scan_run`: the first run leaves something, a second one is killed over it, a third one meets both. The
  database has a header and a module after the units that need them, a unit twice, a file that does not
  exist, one that is filtered out and a command that does not translate. Runs stop: `CHECK_DEADLOCK FALSE`.
  A command line is wrong when a word is taken for what the one before it is: four words after the command, out of
  those that differ in kind, have every such pair, with a flag before and a word after it.
- `plugin_link`: a race for a name takes two compilations, and what happens after it two links: one that reads
  while they write, one that finds what it left. The compilations share a directory, or one has its own below
  the other's, or in the directory of the environment variable, where a link finds nothing (see Remarks). With
  two compilations the second name is always free: `MaxNumber = 2` excludes nothing. Everything may stop:
  `CHECK_DEADLOCK FALSE`.

## Findings

These are disagreements between the code and what its comments, declarations or documentation say.
Each is a run that TLC ends with a behaviour.

1. `threads_lost_results`: the main loop ends when the counter is 0 (scanner.cpp:814); results written
   since the last `tryRead` are dropped. `NothingMoreAfterLoop` shows that one more round of `tryRead`
   after the loop would find all of them.
2. `snapshot_feed_parents`: `parent_symbol_id` is read with `columnInt` (snapshotwriter.cpp:988).
3. `snapshot_merge_race`: the files of an input are numbered in one loop and looked up in another, after the input was
   closed and opened again (merge.cpp:504). A compiler that commits a file in between makes the assertion of
   merge.cpp:194 fail, or the program dereference `end()`. `LookUpsFailOnlyInARace` shows that nothing else does.
4. `scan_run_local_symbols`: `isEnvTrue` joins its comparisons with `||` and is true for every value (env.cpp:25), so that
   `CPPSCANNER_INDEX_LOCAL_SYMBOLS=0`, which config.h:21 declares to mean "no", means "yes". The comment of config.h is
   about the plugin, which calls the same function (plugin.cpp:259).

Remarks, met while modelling, that have no run of their own:

- An index at the address of a freed one inherits its files (fileindexingarbiter.cpp:157), so that a file may be
  indexed twice. `SharedOnlyByReuse` shows that this is the only way, and `SnapshotIsUnion` that the snapshot
  survives it.
- `IndexerSymbol::FlagUpdate` is 0 (indexersymbol.h:51), so that `update` never reports a change and the flags that a
  later unit adds to a symbol stay in memory, though snapshotcreator.cpp:365 announces their update. `FlagUpdate` and
  `FlagsNeedUpdate` of `SnapshotFeed` are as the code has them.
- `runMerge` drops the rows of files outside of the home directory (`index_external_files` is a constant, merge.cpp:493,
  `InRange` of `SnapshotMerge`), those too that `--index-external-files` made a scan collect when `--remap-file-ids`
  renumbers its snapshot.
- `checkConsistency` of the options is called by the constructor of `ScannerInvocation` that takes a command line, which
  the program does not use: `--root` and the inputs are not checked before the run.
- A link searches directories named `.cppscanner` only. The plugin writes to such a directory by default; with
  `outputDir` or `CPPSCANNER_OUTPUT_DIR` it writes to the given directory itself (plugin.cpp:283), where no
  link finds the snapshot unless the directory has that name.
- A second link into the same output removes the first one's result, whose inputs are gone
  (scannerinvocation.cpp:370); a merge whose output is one of its inputs removes that input first.
- An invocation that fails after `finish` is fed when there are threads and dropped when there are none
  (scanner.cpp:949). A header owned by a unit that fails is indexed by no other.
- `Union` is recorded as `Class` (indexer.cpp:170).

## Proofs

Everything is proved by `tlapm` with Z3, Zenon and LS4, for every value of the constants that satisfies
the named assumptions, which TLC also evaluates in the runs.

**ParsingThreads** (`NbThreads` positive, `NbTasks` natural). `IInv` is inductive. Besides the type
invariant and the properties of the run it says that threads are created in order (`SpawnInv`), that
a thread leaves only when the work queue is empty (`LeaveInv`), what the log says of the command a thread
holds (`HeldInv`: no error yet, and an index only if `produced`), that results are about commands that
were taken (`LogInv`), and that the loop is left when every thread has exited (`LoopInv`). The last is
the step that needs the counter to be exact: zero read means an empty set of threads
(`RunningCountsThreads` and a lemma on cardinalities), hence, with `LeaveInv` and `NoTaskForgotten`, that
every command has a result, which is `Quiescence`. `Refinement` maps every step to a step of `Aggregation` or a
stutter: a write adds a command to `indexed` or `failed`, a feed moves one to `aggregated`, leaving the
loop closes; `AtMostOneIndexThenOneError` is what excludes a second index of a command.

**IndexOnce** (files and addresses are naturals other than 0). `IInv` ties the owner of each file to the
address of the index that has it (`OwnerInv`), the address of a unit to the index while it is live, and
keeps live addresses apart (`AddrInv`); units are taken once (`UnitsInv`, `BuiltInv`) and begin empty
(`EmptyInv`). Two live indexes with a common file would have the same address: `NoConcurrentIndexing`. The
owner of a file never changes, so two units with a common file had the same address:
`OnceWithoutReuse`. `CacheIsCurrent` needs `CacheInv`, that the arbiter was asked for every cached file, since then
its answer cannot change. `ContextIsOwn` has an invariant of its own on finished units.

**FileIds** (the empty path is not a path). `IdsInv` (dense, injective ids over a finite domain) makes
`GetFiles` the inverse of the map; `FlightInv` says of everything in flight that its id is the current
id of its path, and of what is being fed that the copied list has it. Ids are never changed, so that
pairs stay valid while other threads insert (`IdentifyKeepsIds`). `DenseIds`, `LookupsInRange` and
`PathsKept` follow.

**ScanRun** (commands and options have their types, directories are finite, regular files are no directories).
`IInv` ties `pc` to what may be on the disk (`DiskInv`): nothing at the output path from its check to its creation, a
`.tmp` file of this run from `initSnapshot` to its removal, and both unfinished until they are closed; `OptionsInv`
says what was asked, `CommandsInv` how the commands are divided between `list` and `tasks` and that each has been
parsed and compiled exactly if it is in neither, `HeadersInv` that with threads every header was compiled before the
first task is taken. `PathsAlwaysFree`, `SuccessAlwaysLeavesOwnSnapshot`, `EveryCommandAlwaysOnce` and `NeverAStaleHeader`
follow, `NothingEverTouchedUnasked` from the same invariant step by step. They hold for any number of runs killed
anywhere. `SourcesAreAlwaysFound` needs `InputsInv` beside it: while the inputs are worked off, the files found and what
is below the rest of the queue are together what is below the inputs. What is below a set of paths is the least set that
has them and is closed under children, so that replacing a directory by its entries changes nothing (`InputsExpand`);
the tree may have any depth and the inputs any order and repetitions.

**CommandLine** (what does not begin with a dash is no flag, and `-j<number>` is no other flag: `WordsAssumption`). The
loop carries its state from word to word, `OptionsAreThoseGiven` speaks of the positions of the words only.
`ParsedTo` and `UnderstoodTo` say of the state after n words what it is in terms of those positions: which flag waits
for its argument, whether a separator was met, what each option has so far, whether every flag so far has a
meaning. There is one lemma for each place at which a word can stand: after the separator (`WordAfterSeparator`), as
the argument of a flag (`WordOfFlag`), as the separator (`WordSeparates`), as a flag (`NextFlag`, `WordIsFlag`).
`WordsRead` puts them together by a least counterexample over the number of words (`LeastExists`). That the flags before
a word alternate with their arguments is `FlagHasArgument`; that lists keep their order is `ArgumentsAppend`.
`ArgumentsAreUnderstood` then holds of every command line and every environment; `WordsAreAlwaysUnderstood` says so of the
lines the run tries. Both say that the variable for local symbols turns them on whatever its value is, which is what
`isEnvTrue` does (`IsEnvTrue(v)` is the same as `v # {}`); that config.h says otherwise is finding 4.

**Indexer** (what clang knows of a unit is about its own declarations, macros, modules and `clang::FileID`s, and no
declaration is in itself: `UnitAssumption`). `IndInv` has four parts besides the properties: `ControlInv` (a unit and an
index as the phase says), `ShapeInv` (the fields of the index and of references), `FilesInv` (the caches agree with clang
and with the arbiter, and an accepted file that was asked about is indexed) and `SymbolsInv` (`GoodCollector`: ids are
those of this unit, a symbol is found under its id and its parent is a symbol). `Scope`, `Processed` and `Collectors` are
recursive functions, of which nothing may be used before some function is shown to solve their equation: for the
first two that is the set of declarations in every set closed under going up, for the last the least list for which there
is none. What they do is then shown by a least counterexample, in the order of scopes (which end:
`ScopeFacts`) or of naturals (`LeastExists`). `CollectFacts` is the heart: `process` keeps a good collector good, with
parents that are met before their children, declarations without usr, and symbols filled a second time, and leaves "from
project" alone. Every callback that notes a reference is an instance of `ReferenceAdded`. `KeptReferences` and
`PrimaryFacts` are what removing duplicates and choosing primary references rest on. All six properties of the run
follow, for any units, answers of the arbiter and orders of the callbacks; `IndexIsAlwaysWellFormed` is what
`SnapshotFeed` assumes.

**SnapshotFeed** (the indexes are well formed, which `IndexIsAlwaysWellFormed` of `IndexerProofs` says). `IInv` says at every
commit point, in the middle of a feed too, what is in the database: which part of the current index is
`Written`, next to all of the `Past` ones (`RowsInv`, `RelationsInv`), and that the file table has the files of the
stages that are over (`FilesInv`). `NewFileHasNoRows` is the step that makes a plain INSERT right: rows of a file
that is not in `indexedFiles` can only come from the current feed. `RowsFed` says what one transaction does to its
table in each of its three forms, whatever the sort leaves first. `SnapshotIsAlwaysUnion`, `ReferencesAlwaysResolve`,
`MemoryAlwaysMirrorsDatabase` and `RowsNeverEverVanish` follow. Parents of references are in the symbol table as long as one
feed only has had their file (`OneFeed`), since those were never read back: finding 2 is the other case.
`AsInput` is the database in the terms of `SnapshotMerge`, where the symbol of a reference is its `to` and the parent part
of its key. `EverySnapshotIsConsistent` says that it is `Consistent` in every state, which rests on `IInv`, on a feed
adding finitely many ids (`FinitelyMany`), and on `IndexesAreFinite`: a unit has finitely many files and symbols, with
ids from 1 on (`DenseIds` of `FileIdsProofs`; 0 is the empty path). Indexes, feeds and merges are so chained by theorems.

**SnapshotMerge** (snapshots are `Consistent`, with finitely many files and symbols; the inputs are paths of the disk;
nothing is assumed of when compilers write). The inductive invariant is `Undisturbed`: `TypeInv`, which holds whatever is
written when, and `IInv` unless `raced`. As `raced` stays true, and a step that leaves it false leaves the inputs alone
unless their files are still to be read (`Frame`), each lemma takes a step from `IInv` to `IInv'` under `~raced'`.
`Rank` orders the tables, `Written` are
those before the current one, and `StepFrame` and `StepProgress` say what a step may change by the phase it is taken
in. `FileInv` is the heart: the `FileIdTable` is injective onto the numbers up to its size (`NumberedIsNumbering`), and a
number is at most `NbFilesInProject` if and only if its path is in the project, because the external files are added
when all others have theirs. So `InRange` selects the right rows, though it only compares numbers (`MergedRows`).
`OutFileInv` makes the written file table the inverse of that numbering, `Remaps` the remap tables right, and `RowsInv`
says of each table that every row stands for one of a snapshot and that each row of a project file has one.
`LeastExists` and `GreatestExists` give the row that survives `sortAndRemoveDuplicates`, `UNIQUE` of include and the
primary key of override. `IdsInv` says that no look-up has failed; that none will is `EveryLookUpSucceeds`: the table
has every path of an input, and a remap table every id of one, as long as the inputs are what they were.
`LookUpsFailInRacesOnly` follows, and `MergeIsAlwaysUnion`, `ReferencesAlwaysResolve` and `NothingIsRemovedUnmerged`, each
with the condition that no input was written to after its files were read, for any number of inputs, numberings and lists
with repetitions. What the output holds after such a write is promised by no property.
`MergedSnapshotIsConsistent` says that what is written, at whatever table the merge is stopped, is `Consistent` itself, so
that it can be merged again; `OutputInv` adds to `IInv` that ids are finitely many and that a method has one base.

**PluginLink** (the root of the file system is nobody's output directory: `SettingsAssumption`; any number of compilations,
directories and links). `DiskInv` is about what lies on the disk: an inode has at most one name and an existing directory
(`InodeInv`), and the rows of a compilation are in one inode, to which it alone writes (`StoreInv`). The last holds
though several compilers may open one file: who finds tables there fails, so that only the creator of the tables ever
gets to the first commit. `Ready` says what a compilation with no rival and no link at its side still finds as it left it,
at each of its steps; hence `AbortsOnlyInARace`. `PromiseInv` follows a promised row: it is in a snapshot nobody
writes to which the link still reaches, in the search, the list, the inputs to be opened or read, until it is in the output.
`OutputInv` says that every name of a snapshot with a row in the output is below a directory still to be removed.
`SuccessfulLinksMoveAll` needs both, `RemovedIsAlwaysLinked` the first.

Only model-checked: liveness and `ImplementsFairAggregation` (fairness and ENABLED are out of the prover's
reach). `OptionsAreThoseGiven` and `SourcesAreFound` are inductions over data, which here the least counterexample
and an invariant of the loop do by hand.

## What is not modelled

- Clang itself: what it visits and whether it fails is a choice of the environment.
- SQLite: a transaction is atomic; only in `PluginLink` may a statement fail. Journalling is not modelled.
- What a merge does after a look-up that found nothing: it ends there. Nor is anything said of its output when an
  input grew while it was read, except that its types are right.
- The losses of a link that runs beside a compilation: `SuccessfulLinkMovesAll` and `RemovedIsLinked` promise the rows of
  compilations that had ended when the link searched. Of one that was running a commit may fail, and its snapshot may
  be skipped or removed unmerged; no text says that both may run at once.
- What becomes of references beyond the last column (fileposition.h:50): they count as being at one place, for the code
  and for the properties of `Indexer`.
- Text: contents, names, extra information of symbols, properties other than `project.home`.
- The arguments of the compiler's command lines (`CCTranslator`, `CCAdjuster`), `genjs`, globs and versions, the
  queries for tools: straight calls without state that lasts. The inventory in `PROJECT.json` lists them.
- Two programs that use the same output path at the same time, a merge whose output is one of its inputs, and
  directories that contain themselves through symbolic links.
- A success without a snapshot: when `compile_commands.json` cannot be parsed (scanner.cpp:273) the run reports
  success, writes nothing, and has removed the old output if `--overwrite` was given. `SuccessLeavesOwnSnapshot`
  excludes that input. No text says what should happen.
- The order of commands without threads is that of `compile_commands.json` (scanner.cpp:884), so that a unit may
  be parsed with a header of an earlier run; `NoStaleHeader` is about threads only and false otherwise.

## Plan

Done: 1. `ParsingThreads`, `Aggregation`. 2. `IndexOnce`. 3. `SnapshotFeed`. 4. `FileIds`.
5. `SnapshotMerge`. 6. Proofs about 1, 2 and 4. 7. `UnitIndex`, `Indexer`. 8. `ScanRun`. 9. Proofs about `ScanRun`.
10. `PluginLink`: compilers that choose the names of their snapshots at the same time, with a link as the reader.
11. `CommandLine`. 12. Proofs about `SnapshotFeed`. 13. Proofs about `SnapshotMerge`.
14. Proofs about `PluginLink`. 15. Proofs about `Indexer`, so that the assumption of `SnapshotFeed` is a theorem.
16. Proofs about `CommandLine` and the sources of `ScanRun`, after which every safety property of the runs is a theorem.
17. `Snapshot`, with proofs that what `SnapshotFeed` and `SnapshotMerge` leave is what `SnapshotMerge` assumes.

18. `SnapshotMerge` with inputs that grow at any time, and its proofs; environments with the value 0.

Nothing of the plan is left. What would be next is under "What is not modelled": the output of a merge beside
compilers that write, and the translation of command lines.
