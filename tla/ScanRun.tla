------------------------------ MODULE ScanRun ------------------------------
(***************************************************************************)
(* The run command, from its arguments (CommandLine) to the end of the     *)
(* program (scannerinvocation.cpp, scanner.cpp), and the next run after it *)
(* has ended or was killed: what it finds on the disk is what the earlier  *)
(* ones left there.  Whether there are parsing threads decides the order   *)
(* in which commands are processed; what the threads themselves do is in   *)
(* ParsingThreads, what one invocation does in IndexOnce and Indexer, and  *)
(* what runMerge copies in SnapshotMerge.                                  *)
(*                                                                         *)
(* Abstractions.  A snapshot is the run that created it, the files whose   *)
(* index was fed to it and whether it was finished; a feed or a merge that *)
(* is killed halfway leaves the snapshot unfinished, which is all that is  *)
(* kept of it.  A precompiled header or module is the run that compiled    *)
(* it.  Only one program at a time uses the output path, and no directory  *)
(* of the inputs contains itself (through a symbolic link).                *)
(***************************************************************************)
EXTENDS CommandLine

CONSTANTS
  Lines,     \* the arguments a run may be given
  Env,       \* the environment
  Output,    \* the output path
  Broken,    \* the databases that cannot be parsed
  Database,  \* the commands in the others
  Children,  \* the entries of each directory
  Present,   \* the regular files that exist
  Sources,   \* the paths that end with .cpp
  Accepted,  \* the files that pass the filters on translation units
  MaxRuns    \* bound: how often the program is started

NoFile == [by |-> 0, units |-> {}, finished |-> FALSE]
NoHeader == "none"
Running == "running"

Headers == {Database[i].header : i \in DOMAIN Database} \ {NoHeader}
Directories == DOMAIN Children

\* what the program is asked with the arguments args
NothingAsked == [does |-> "nothing", overwrite |-> FALSE, remap |-> FALSE, threads |-> FALSE, inputs |-> <<>>]
Asked(args) ==
  LET main == Main(args, Env)
      given == main.options
  IN IF main.does = "run"
     THEN [does |-> CASE given.database = {} -> "files"
                      [] given.database # {} /\ given.database \subseteq Broken -> "unreadable"
                      [] OTHER -> "database",
           overwrite |-> given.overwrite,
           remap |-> given.remap,
           threads |-> \E n \in given.threads : n > 0,
           inputs |-> given.inputs]
     ELSE [NothingAsked EXCEPT !.does = main.does]

Options == {Asked(args) : args \in Lines}
Paths == Directories \cup (UNION {Children[d] : d \in Directories}) \cup (UNION {ToSet(o.inputs) : o \in Options})

\* emits: what the command has to compile before it is indexed; header: the
\* file it emits or, when it emits none, the one it needs
Command == [file : STRING, emits : {"none", "pch", "pcm"}, header : STRING \cup {NoHeader}, translates : BOOLEAN]

ASSUME CommandsAssumption ==
  /\ Database \in Seq(Command)
  /\ \A i \in DOMAIN Database : Database[i].emits # "none" => Database[i].header # NoHeader
  /\ Present \cap Directories = {}
  /\ MaxRuns \in Nat

ASSUME OptionsAssumption ==
  Options \subseteq [does : STRING, overwrite : BOOLEAN, remap : BOOLEAN, threads : BOOLEAN, inputs : Seq(STRING)]

ASSUME ChildrenAssumption ==
  \A d \in Directories : IsFiniteSet(Children[d]) /\ Children[d] \subseteq STRING

ASSUME LinesAssumption ==
  \A args \in Lines : Asked(args).does \in {"files", "database", "unreadable"} =>
    OutputPath(Main(args, Env).options) = {Output}

VARIABLES
  pc,        \* where the program is; "off": it does not run
  run,       \* how often it was started
  options,   \* the options of this run
  exit,      \* how the run ended
  disk,      \* the files at the output path and at the same path with .tmp
  header,    \* the run that compiled each precompiled header or module
  queue,     \* the local queue of scanFromListOfInputs
  commands,  \* ScannerData::compileCommands
  list,      \* the commands processCommands still has to process, in their order
  tasks,     \* the commands the parsing threads still have to process
  builds,    \* history: how often each command compiled its header,
  parses,    \* ... how often it was parsed, and
  against,   \* ... the run that had compiled the header it was parsed with;
  fed        \* history: the files whose index this run fed to its snapshot

files == <<disk, header>>
history == <<builds, parses, against, fed>>
work == <<queue, commands, list, tasks>>
vars == <<pc, run, options, exit, files, work, history>>

Init ==
  /\ pc = "off"
  /\ run = 0
  /\ options = NothingAsked
  /\ exit = "none"
  /\ disk = [out |-> NoFile, tmp |-> NoFile]
  /\ header = [h \in Headers |-> 0]
  /\ queue = <<>> /\ commands = <<>> /\ list = {} /\ tasks = {}
  /\ builds = <<>> /\ parses = <<>> /\ against = <<>> /\ fed = {}

Start ==
  /\ pc = "off"
  /\ run < MaxRuns
  /\ run' = run + 1
  /\ options' \in Options
  /\ pc' = "check"
  /\ exit' = Running
  /\ queue' = options'.inputs
  /\ commands' = <<>> /\ list' = {} /\ tasks' = {}
  /\ builds' = <<>> /\ parses' = <<>> /\ against' = <<>> /\ fed' = {}
  /\ UNCHANGED files

Goto(from, to) == pc = from /\ pc' = to /\ UNCHANGED <<run, options, exit>>
End(from, how) == pc = from /\ pc' = "off" /\ exit' = how /\ UNCHANGED <<run, options>>

-----------------------------------------------------------------------------
(* Before the scan *)

Scans == options.does \in {"files", "database", "unreadable"}

ArgumentsRefused ==
  /\ End("check", "failure")
  /\ options.does = "fail"
  /\ UNCHANGED <<files, work, history>>

HelpPrinted ==
  /\ End("check", "success")
  /\ options.does \in {"help", "version"}
  /\ UNCHANGED <<files, work, history>>

OutputIsFree ==
  /\ Goto("check", "load")
  /\ Scans
  /\ disk.out = NoFile
  /\ UNCHANGED <<files, work, history>>

\* mutant of OutputIsRemoved: the option is not looked at
OutputIsRemovedAnyway ==
  /\ Goto("check", "load")
  /\ Scans
  /\ disk.out # NoFile
  /\ disk' = [disk EXCEPT !.out = NoFile]
  /\ UNCHANGED <<header, work, history>>

OutputIsRemoved ==
  /\ Goto("check", "load")
  /\ Scans
  /\ disk.out # NoFile
  /\ options.overwrite
  /\ disk' = [disk EXCEPT !.out = NoFile]
  /\ UNCHANGED <<header, work, history>>

OutputIsKept ==
  /\ End("check", "failure")
  /\ Scans
  /\ disk.out # NoFile
  /\ ~options.overwrite
  /\ UNCHANGED <<files, work, history>>

LoadDatabase ==
  /\ Goto("load", "init")
  /\ options.does = "database"
  /\ commands' = Database
  /\ UNCHANGED <<files, queue, list, tasks, history>>

\* compile_commands.json cannot be parsed: scanFromCompileCommands returns and
\* nothing tells the caller
DatabaseUnreadable ==
  /\ End("load", "success")
  /\ options.does = "unreadable"
  /\ UNCHANGED <<files, work, history>>

\* mutant of Wanted: directories are not entered
WantedFiles(d) == Children[d] \cap Present \cap Sources

Wanted(d) == {e \in Children[d] : e \in Directories \/ e \in Present \cap Sources}
Found(f) == [file |-> f, emits |-> "none", header |-> NoHeader, translates |-> TRUE]

\* the entries of a directory come in no particular order
ExpandInput ==
  /\ Goto("load", "load")
  /\ options.does = "files"
  /\ queue # <<>>
  /\ LET item == Head(queue)
     IN /\ IF item \in Directories
           THEN \E s \in SetToSeqs(Wanted(item)) : queue' = Tail(queue) \o s
           ELSE queue' = Tail(queue)
        /\ commands' = IF item \in Present THEN Append(commands, Found(item)) ELSE commands
  /\ UNCHANGED <<files, list, tasks, history>>

InputsExpanded ==
  /\ Goto("load", "init")
  /\ options.does = "files"
  /\ queue = <<>>
  /\ UNCHANGED <<files, work, history>>

-----------------------------------------------------------------------------
(* The scan *)

Target == IF options.remap THEN "tmp" ELSE "out"

\* mutant of Cleaned: an old .tmp file is not removed
CleanedNever == disk

\* the files that initSnapshot finds once it has removed an old .tmp file
Cleaned == IF options.remap THEN [disk EXCEPT !.tmp = NoFile] ELSE disk

\* Database::create does nothing if the file exists; then the statements fail
\* for want of a connection, and SnapshotWriter's constructor throws
InitSnapshot ==
  /\ pc = "init"
  /\ IF Cleaned[Target] = NoFile
     THEN /\ Goto("init", "translate")
          /\ disk' = [Cleaned EXCEPT ![Target].by = run]
     ELSE /\ End("init", "exception")
          /\ disk' = Cleaned
  /\ UNCHANGED <<header, work, history>>

Emits(c) == c.emits \in {"pch", "pcm"}

\* With threads, what emits a header is taken out of the list and processed
\* first, by processCommands; the others are tasks if they pass the filters.

\* mutant of Listed: the threads are not considered
ListedAll(cs) == {i \in DOMAIN cs : cs[i].translates}

Listed(cs) == {i \in DOMAIN cs : cs[i].translates /\ (options.threads => Emits(cs[i]))}

\* mutant of Tasks: a command that emits a header is a task too
TasksOfAll(cs) == {i \in DOMAIN cs : cs[i].translates /\ options.threads /\ cs[i].file \in Accepted}

Tasks(cs) == {i \in DOMAIN cs : cs[i].translates /\ options.threads /\ ~Emits(cs[i]) /\ cs[i].file \in Accepted}

\* a command the driver cannot translate is dropped
TranslateAndAdjust ==
  /\ Goto("translate", "list")
  /\ list' = Listed(commands)
  /\ tasks' = Tasks(commands)
  /\ LET zero == [i \in DOMAIN commands |-> 0]
     IN builds' = zero /\ parses' = zero /\ against' = zero
  /\ UNCHANGED <<files, queue, commands, fed>>

\* The compiler, which is not modelled: it writes the header, or fails and
\* leaves what was there;
Compile(i) ==
  LET c == commands[i]
  IN /\ builds' = IF Emits(c) THEN [builds EXCEPT ![i] = @ + 1] ELSE builds
     /\ IF Emits(c) THEN header' \in {header, [header EXCEPT ![c.header] = run]} ELSE header' = header

\* ... an invocation fails for want of a header or for any other reason.  The
\* threads feed what is complete even if the invocation failed.
Parse(i) ==
  LET c == commands[i]
      needed == IF c.header = NoHeader \/ Emits(c) THEN run ELSE header'[c.header]
  IN /\ parses' = [parses EXCEPT ![i] = @ + 1]
     /\ against' = [against EXCEPT ![i] = needed]
     /\ \/ /\ needed > 0 \/ options.threads
           /\ disk' = [disk EXCEPT ![Target].units = @ \cup {c.file}]
           /\ fed' = fed \cup {c.file}
        \/ UNCHANGED <<disk, fed>>

IsPresent(i) == commands[i].file \in Present
IsAccepted(i) == commands[i].file \in Accepted

Process(i) ==
  /\ Goto("list", "list")
  /\ i \in list
  /\ \A j \in list : i <= j
  /\ list' = list \ {i}

\* ... the file does not exist, or no one asks for it
CommandIgnored(i) ==
  /\ Process(i)
  /\ (IsAccepted(i) \/ Emits(commands[i])) => ~IsPresent(i)
  /\ UNCHANGED <<files, queue, commands, tasks, history>>

\* the header others need is compiled whatever the filters say
HeaderOnly(i) ==
  /\ Process(i)
  /\ IsPresent(i) /\ ~IsAccepted(i) /\ Emits(commands[i])
  /\ Compile(i)
  /\ UNCHANGED <<disk, queue, commands, tasks, parses, against, fed>>

CommandProcessed(i) ==
  /\ Process(i)
  /\ IsPresent(i) /\ IsAccepted(i)
  /\ Compile(i)
  /\ Parse(i)
  /\ UNCHANGED <<queue, commands, tasks>>

ListProcessed ==
  /\ Goto("list", "tasks")
  /\ list = {}
  /\ UNCHANGED <<files, work, history>>

\* The threads take tasks in any order; an index may be lost in the queue of
\* results (ParsingThreads), as if the invocation had failed.
TaskDone(i) ==
  /\ Goto("tasks", "tasks")
  /\ i \in tasks
  /\ tasks' = tasks \ {i}
  /\ UNCHANGED <<header, queue, commands, list, builds>>
  /\ IF IsPresent(i) THEN Parse(i) ELSE UNCHANGED <<disk, parses, against, fed>>

ThreadsJoined ==
  /\ Goto("tasks", "close")
  /\ tasks = {}
  /\ UNCHANGED <<files, work, history>>

-----------------------------------------------------------------------------
(* The end of the scan; the snapshot is in the .tmp file if the ids of the *)
(* files are to be renumbered                                              *)

Return ==
  /\ End("close", "success")
  /\ ~options.remap
  /\ disk' = [disk EXCEPT !.out.finished = TRUE]
  /\ UNCHANGED <<header, work, history>>

\* runMerge lists the inputs, then creates the output
OpenOutput ==
  /\ pc = "close"
  /\ options.remap
  /\ IF disk.out = NoFile
     THEN Goto("close", "merge") /\ disk' = [disk EXCEPT !.out.by = run, !.tmp.finished = TRUE]
     ELSE End("close", "exception") /\ UNCHANGED disk
  /\ UNCHANGED <<header, work, history>>

Merge ==
  /\ Goto("merge", "remove")
  /\ disk' = [disk EXCEPT !.out.units = disk.tmp.units, !.out.finished = TRUE]
  /\ UNCHANGED <<header, work, history>>

\* mutant of RemoveTmp: the .tmp file is left to the next run
RemoveNothing ==
  /\ End("remove", "success")
  /\ UNCHANGED <<files, work, history>>

RemoveTmp ==
  /\ End("remove", "success")
  /\ disk' = [disk EXCEPT !.tmp = NoFile]
  /\ UNCHANGED <<header, work, history>>

\* the program is killed between any two steps
Crash ==
  /\ pc # "off"
  /\ End(pc, "killed")
  /\ UNCHANGED <<files, work, history>>

Next ==
  \/ Start \/ ArgumentsRefused \/ HelpPrinted
  \/ OutputIsFree \/ OutputIsRemoved \/ OutputIsKept
  \/ LoadDatabase \/ DatabaseUnreadable \/ ExpandInput \/ InputsExpanded
  \/ InitSnapshot \/ TranslateAndAdjust
  \/ \E i \in list : CommandIgnored(i) \/ HeaderOnly(i) \/ CommandProcessed(i)
  \/ ListProcessed
  \/ \E i \in tasks : TaskDone(i)
  \/ ThreadsJoined
  \/ Return \/ OpenOutput \/ Merge \/ RemoveTmp
  \/ Crash

Spec == Init /\ [][Next]_vars

-----------------------------------------------------------------------------
(* Properties *)

Snapshot == [by : 0..MaxRuns, units : SUBSET Present, finished : BOOLEAN]

\* The type of every variable.
TypeOK ==
  /\ pc \in {"off", "check", "load", "init", "translate", "list", "tasks", "close", "merge", "remove"}
  /\ run \in 0..MaxRuns
  /\ options \in Options \cup {NothingAsked}
  /\ exit \in {"none", Running, "success", "failure", "killed", "exception"}
  /\ disk \in [out : Snapshot, tmp : Snapshot]
  /\ header \in [Headers -> 0..MaxRuns]
  /\ queue \in Seq(STRING)
  /\ commands \in Seq(Command)
  /\ list \subseteq DOMAIN commands /\ tasks \subseteq DOMAIN commands
  /\ builds \in Seq(Nat) /\ parses \in Seq(Nat) /\ against \in Seq(0 .. MaxRuns)
  /\ fed \subseteq Present

\* Whatever an earlier run left, with or without being killed, initSnapshot
\* and runMerge find their path free: no statement is executed without a
\* connection, and no run ends with an exception.
PathsAreFree == exit # "exception"

\* A run that reports success, and could read its commands, leaves at the
\* output path a finished snapshot of its own, with all that was fed to it and
\* nothing of an earlier run in it, and no .tmp file.
SuccessLeavesOwnSnapshot ==
  (exit = "success" /\ options.does \in {"files", "database"}) =>
    /\ disk.out = [by |-> run, units |-> fed, finished |-> TRUE]
    /\ options.remap => disk.tmp = NoFile

\* Without --overwrite a run that finds an output file changes nothing: not
\* the output, not the .tmp file, not a header (README.md, --overwrite).
NothingTouchedUnasked ==
  [][(~options.overwrite /\ run' = run /\ disk.out # NoFile /\ disk.out.by # run) => UNCHANGED files]_vars

\* The parsing threads never use a header that this run compiles again later:
\* they start after all precompiled headers and modules (scanner.cpp:802-806).
NoStaleHeader ==
  options.threads =>
    \A i \in DOMAIN against :
      (parses[i] > 0 /\ commands[i].header # NoHeader /\ ~Emits(commands[i]))
         => against[i] = header[commands[i].header]

\* what has become of the i-th command when it is not to be processed any more
Once(b) == IF b THEN 1 ELSE 0
Done(i) ==
  /\ parses[i] = Once(commands[i].translates /\ IsPresent(i) /\ IsAccepted(i))
  /\ builds[i] = Once(commands[i].translates /\ IsPresent(i) /\ Emits(commands[i]))

\* Every command is parsed once if its file exists and passes the filters,
\* and compiles its header once even if it does not pass them.
EveryCommandOnce ==
  /\ \A i \in DOMAIN parses : parses[i] <= 1 /\ builds[i] <= 1
  /\ (exit = "success" /\ options.does \in {"files", "database"}) => \A i \in DOMAIN commands : Done(i)

\* The sources below the paths R: what is in every set of paths that holds R
\* and, with a directory, the directories and sources in it.
Closed(S) == \A d \in S \cap Directories : Children[d] \cap (Directories \cup Sources) \subseteq S
Below(R) == {f \in Present : \A S \in SUBSET Paths : (R \subseteq S /\ Closed(S)) => f \in S}

\* scanFromListOfInputs finds every source below its inputs and nothing else,
\* in whatever order the directories are read.
FilesOfCommands == {commands[i].file : i \in DOMAIN commands}
SourcesAreFound ==
  (options.does = "files" /\ pc = "init") => FilesOfCommands = Below(ToSet(options.inputs))

\* Whatever words follow the name of the command, in whatever order, the
\* options are those that OptionsAreThoseGiven reads in them
\* (scannerinvocation.cpp:518-819); looked at before the first run.
WordsAreUnderstood ==
  run = 0 => \A args \in Tried, env \in Environments : OptionsAreThoseGiven(args, env)

\* "If the variable does not exist, or is zero ("0"), local symbols are not
\* indexed (which is the default behavior)" (config.h:21-22), unless a flag
\* asks for them.
LocalSymbolsAreOff ==
  run = 0 =>
    \A args \in Tried, env \in Environments :
      LET result == Main(args, env)
      IN (/\ result.does = "run"
          /\ env.local \in {{}, {"0"}}
          /\ ~IsSwitchedOn("run", Tail(args), "local")) => ~result.options.local
=============================================================================
