----------------------------- MODULE PluginLink -----------------------------
(***************************************************************************)
(* Compilers that run the plugin (plugin.cpp) and leave one snapshot each, *)
(* next to each other on a disk where "merge --link" (scannerinvocation.   *)
(* cpp, merge.cpp) searches for the snapshots, merges them and removes     *)
(* their directories.  Both may be stopped at any step, and nothing but    *)
(* the file system and the locks of SQLite lies between them.              *)
(*                                                                         *)
(* Abstractions.  A snapshot is an inode, named by the compilation that    *)
(* created it: whether it has tables, and the parts of compilations that   *)
(* are committed in it: the values of the enumerations, the property       *)
(* project.home and what was fed; SnapshotFeed has what a feed writes,     *)
(* SnapshotMerge what is read.  A directory tree is searched, and a        *)
(* directory listed, in one step.  One link runs at a time, its output is  *)
(* not one of its inputs.  SQLite, which is not modelled, refuses a commit *)
(* while another connection reads, and a read while another commits.       *)
(***************************************************************************)
EXTENDS Naturals, Sequences, SequencesExt

CONSTANTS
  Job,       \* the compilations; each runs once
  Settings,  \* what they may be given: of each [file, outputDir, env, cwd]
  Link,      \* what a link may be asked: [inputs, env, cwd, keep]
  Standing,  \* the directories that exist before all
  MaxLinks,  \* bound: how often merge --link is started
  MaxNumber, \* bound: the numbers tried in file names
  Unset,     \* an argument or an environment variable that is not given
  NoJob

Folder == ".cppscanner"

\* the directory of a compilation's snapshot, decided by ParseArgs
Chosen(s) ==
  IF s.outputDir # Unset THEN s.outputDir
  ELSE IF s.env # Unset THEN s.env
  ELSE Append(s.cwd, Folder)

\* the paths <file>.<n>.aba in a directory
Path == {[dir |-> Chosen(s[j]), file |-> s[j].file, n |-> n] : s \in Settings, j \in Job, n \in 1 .. MaxNumber}

\* what a compilation commits in its snapshot, in this order
Parts == <<"enums", "home", "index">>
Row == Job \X ToSet(Parts)

ASSUME LinkAssumption ==
  /\ NoJob \notin Job
  /\ MaxLinks \in Nat
  /\ MaxNumber \in Nat \ {0}

\* the root of the file system is no output directory
ASSUME SettingsAssumption == \A s \in Settings, j \in Job : Chosen(s[j]) \in Seq(STRING) \ {<<>>}

VARIABLES
  setting,   \* what they are given
  pc,        \* where each compilation is
  number,    \* initialize's local n
  db,        \* the inode its connection refers to
  open,      \* whether a transaction is open on the connection
  pending,   \* the parts executed in that transaction
  written,   \* how many parts the compilation has executed
  dirs,      \* the directories that exist
  entry,     \* the inode at each path
  tables,    \* the inodes that have tables
  stored,    \* the rows committed in each inode
  phase,     \* where the link is, or how the last one ended
  asked,     \* what this link was asked
  roots,     \* the directories it still has to search
  found,     \* scanner_directories
  inputs,    \* the snapshots listed in them
  todo,      \* the directories or snapshots that the current loop has not reached
  good,      \* m_snapshots
  homeless,  \* a snapshot without project.home is among them
  output,    \* the output
  links,     \* how often a link was started
  raced,     \* history: the running compilations that are or were not alone in their directory
  promised   \* history: the rows of ended compilations that this link must find

connection == <<db, open, pending>>
compilation == <<setting, pc, number, connection, written>>
disk == <<dirs, entry, tables, stored>>
search == <<asked, roots, found, inputs>>
merge == <<todo, good, homeless, output>>
link == <<phase, search, merge, links>>
history == <<raced, promised>>
vars == <<compilation, disk, link, history>>

Init ==
  /\ setting \in Settings
  /\ pc = [j \in Job |-> "idle"]
  /\ number = [j \in Job |-> 1]
  /\ db = [j \in Job |-> NoJob]
  /\ open = [j \in Job |-> FALSE]
  /\ pending = [j \in Job |-> {}]
  /\ written = [j \in Job |-> 0]
  /\ dirs = Standing
  /\ entry = [p \in Path |-> NoJob]
  /\ tables = {}
  /\ stored = [j \in Job |-> {}]
  /\ phase = "none"
  /\ asked = Unset
  /\ roots = <<>> /\ found = {} /\ inputs = {}
  /\ todo = {} /\ good = {} /\ homeless = FALSE
  /\ output = [exists |-> FALSE, finished |-> FALSE, rows |-> {}]
  /\ links = 0
  /\ raced = {} /\ promised = {}

OutDir(j) == Chosen(setting[j])
Numbered(j, n) == [dir |-> OutDir(j), file |-> setting[j].file, n |-> n]

Linked == {entry[p] : p \in Path} \ {NoJob}
Ended == {"done", "exception", "killed"}
Runs(j) == pc[j] \notin Ended \cup {"idle"}
LinkRuns == phase \in {"search", "list", "open", "read", "remove"}

\* a compiler may be writing to the inode i
BeingWritten(i) ==
  \E j \in Job : /\ db[j] = i
                 /\ pc[j] \in {"tables", "write"}
                 /\ pc[j] = "tables" => i \notin tables

-----------------------------------------------------------------------------
(* A compilation: IndexDataConsumerBundle::initialize, from the choice of  *)
(* a free name to the properties, and finish                               *)

Goto(j, from, to) == pc[j] = from /\ pc' = [pc EXCEPT ![j] = to] /\ UNCHANGED setting

\* the end of a compilation: a transaction that is open is rolled back
End(j, how) ==
  /\ pc' = [pc EXCEPT ![j] = how]
  /\ number' = [number EXCEPT ![j] = 1]
  /\ db' = [db EXCEPT ![j] = NoJob]
  /\ open' = [open EXCEPT ![j] = FALSE]
  /\ pending' = [pending EXCEPT ![j] = {}]
  /\ written' = [written EXCEPT ![j] = 0]
  /\ raced' = raced \ {j}
  /\ UNCHANGED setting

Begin(j) ==
  /\ Goto(j, "idle", "directory")
  /\ LET rivals == {k \in Job : Runs(k) /\ Numbered(k, 1) = Numbered(j, 1)}
     IN raced' = raced \cup rivals \cup IF rivals # {} \/ LinkRuns THEN {j} ELSE {}
  /\ UNCHANGED <<number, connection, written, disk, link, promised>>

MakeDirectory(j) ==
  /\ Goto(j, "directory", "probe")
  /\ dirs' = dirs \cup {SubSeq(OutDir(j), 1, n) : n \in 1 .. Len(OutDir(j))}
  /\ UNCHANGED <<number, connection, written, entry, tables, stored, link, history>>

\* mutant of NameTaken: the number is not increased
NameTakenAlready(j) ==
  /\ Goto(j, "probe", "create")
  /\ entry[Numbered(j, number[j])] # NoJob
  /\ UNCHANGED <<number, connection, written, disk, link, history>>

NameTaken(j) ==
  /\ Goto(j, "probe", "probe")
  /\ entry[Numbered(j, number[j])] # NoJob
  /\ number[j] < MaxNumber
  /\ number' = [number EXCEPT ![j] = @ + 1]
  /\ UNCHANGED <<connection, written, disk, link, history>>

NameFree(j) ==
  /\ Goto(j, "probe", "create")
  /\ entry[Numbered(j, number[j])] = NoJob
  /\ UNCHANGED <<number, connection, written, disk, link, history>>

\* Database::create looks again; if the file exists there is no connection
\* and the statements fail
CreateRefused(j) ==
  /\ pc[j] = "create" /\ End(j, "exception")
  /\ entry[Numbered(j, number[j])] # NoJob
  /\ UNCHANGED <<disk, link, promised>>

CreateAgreed(j) ==
  /\ Goto(j, "create", "open")
  /\ entry[Numbered(j, number[j])] = NoJob
  /\ UNCHANGED <<number, connection, written, disk, link, history>>

\* sqlite3_open_v2 opens the file that is there now or creates one
OpenFile(j) ==
  LET p == Numbered(j, number[j])
  IN /\ Goto(j, "open", "tables")
     /\ p.dir \in dirs
     /\ entry' = IF entry[p] = NoJob THEN [entry EXCEPT ![p] = j] ELSE entry
     /\ db' = [db EXCEPT ![j] = entry'[p]]
     /\ UNCHANGED <<number, open, pending, written, dirs, tables, stored, link, history>>

DirectoryGone(j) ==
  /\ pc[j] = "open" /\ End(j, "exception")
  /\ OutDir(j) \notin dirs
  /\ UNCHANGED <<disk, link, promised>>

\* the link may be reading the inode i
BeingRead(i) == phase \in {"open", "read"} /\ \E p \in inputs : entry[p] = i

\* A commit may fail: someone else reads the file, or it was removed.
CommitMayFail(j) ==
  \/ BeingRead(db[j])
  \/ \E k \in Job \ {j} : pc[k] = "tables" /\ db[k] = db[j]
  \/ db[j] \notin Linked

\* mutant of CreateTables: CREATE TABLE IF NOT EXISTS
CreateTablesIfNone(j) ==
  /\ Goto(j, "tables", "write")
  /\ tables' = tables \cup {db[j]}
  /\ UNCHANGED <<number, connection, written, dirs, entry, stored, link, history>>

\* db_init_statements
CreateTables(j) ==
  /\ Goto(j, "tables", "write")
  /\ db[j] \notin tables
  /\ tables' = tables \cup {db[j]}
  /\ UNCHANGED <<number, connection, written, dirs, entry, stored, link, history>>

\* ... fail, and SnapshotWriter's constructor throws
NoTables(j) ==
  /\ pc[j] = "tables" /\ End(j, "exception")
  /\ db[j] \in tables \/ CommitMayFail(j)
  /\ UNCHANGED <<disk, link, promised>>

Part(j) == Parts[written[j] + 1]

\* The next part, in a transaction of its own unless one is still open.
Commit(j) ==
  /\ pc[j] = "write"
  /\ written[j] < Len(Parts)
  /\ written' = [written EXCEPT ![j] = @ + 1]
  /\ IF open[j] /\ Part(j) = "home"
     THEN /\ pending' = [pending EXCEPT ![j] = @ \cup {"home"}]
          /\ UNCHANGED <<open, stored>>
     ELSE /\ stored' = [stored EXCEPT ![db[j]] = @ \cup ({j} \X (pending[j] \cup {Part(j)}))]
          /\ open' = [open EXCEPT ![j] = FALSE]
          /\ pending' = [pending EXCEPT ![j] = {}]
  /\ UNCHANGED <<setting, pc, number, db, dirs, entry, tables, link, history>>

\* No one looks at what COMMIT returns: the transaction stays open.  The home
\* property has none of its own and is lost.
CommitFails(j) ==
  /\ pc[j] = "write"
  /\ written[j] < Len(Parts)
  /\ CommitMayFail(j)
  /\ written' = [written EXCEPT ![j] = @ + 1]
  /\ IF Part(j) = "home"
     THEN ~open[j] /\ UNCHANGED <<open, pending>>
     ELSE /\ open' = [open EXCEPT ![j] = TRUE]
          /\ pending' = [pending EXCEPT ![j] = @ \cup {Part(j)}]
  /\ UNCHANGED <<setting, pc, number, db, disk, link, history>>

CloseSnapshot(j) ==
  /\ pc[j] = "write" /\ End(j, "done")
  /\ written[j] = Len(Parts)
  /\ UNCHANGED <<disk, link, promised>>

Kill(j) ==
  /\ Runs(j)
  /\ End(j, "killed")
  /\ UNCHANGED <<disk, link, promised>>

Progress(j) ==
  \/ MakeDirectory(j) \/ NameTaken(j) \/ NameFree(j)
  \/ CreateRefused(j) \/ CreateAgreed(j) \/ OpenFile(j) \/ DirectoryGone(j)
  \/ CreateTables(j) \/ NoTables(j) \/ Commit(j) \/ CommitFails(j) \/ CloseSnapshot(j)

-----------------------------------------------------------------------------
(* A link: the search for the inputs, runMerge, the removal                *)

Pass(from, to) == phase = from /\ phase' = to /\ UNCHANGED links
Stop(from, how) ==
  /\ phase = from /\ phase' = how
  /\ asked' = Unset
  /\ promised' = {}
  /\ roots' = <<>> /\ found' = {} /\ inputs' = {} /\ todo' = {} /\ good' = {} /\ homeless' = FALSE
  /\ UNCHANGED links

\* mutant of Within: the directory itself only
WithinAtOnce(root) == {d \in dirs : d = Append(root, Folder)}

\* the scanner directories that a search from root meets
Within(root) ==
  IF root # <<>> /\ Last(root) = Folder THEN {root}
  ELSE {d \in dirs : d # root /\ IsPrefix(root, d) /\ Last(d) = Folder}

Below(d, p) == IsPrefix(d, p.dir)

StartLink ==
  /\ ~LinkRuns /\ phase' = "search"
  /\ links < MaxLinks /\ links' = links + 1
  /\ asked' \in Link
  /\ roots' = CASE asked'.inputs # <<>> -> asked'.inputs
                [] asked'.inputs = <<>> /\ asked'.env # Unset -> <<asked'.env>>
                [] OTHER -> <<asked'.cwd>>
  /\ UNCHANGED <<found, inputs, todo, good, homeless>>
  /\ raced' = raced \cup {j \in Job : Runs(j)}
  /\ promised' = {}
  /\ UNCHANGED <<compilation, disk, output>>

\* root is a scanner directory, or d is one below it
Covers(root, d) ==
  /\ Last(d) = Folder
  /\ \/ d = root
     \/ IsPrefix(root, d) /\ (root = <<>> \/ Last(root) # Folder)

\* what compilations that have ended left in scanner directories
Promised(root) ==
  UNION {stored[entry[p]] : p \in {q \in Path : /\ Covers(root, q.dir)
                                                /\ entry[q] \in tables /\ ~BeingWritten(entry[q])}}

Search ==
  /\ Pass("search", "search")
  /\ roots # <<>> /\ Head(roots) \in dirs
  /\ found' = found \cup Within(Head(roots))
  /\ roots' = CASE Len(roots) > 1 -> Tail(roots)
                [] Len(roots) = 1 /\ asked.inputs = <<>> /\ found' = {} /\ Head(roots) # asked.cwd -> <<asked.cwd>>
                [] OTHER -> <<>>
  /\ promised' = promised \cup Promised(Head(roots))
  /\ UNCHANGED <<compilation, disk, asked, inputs, merge, raced>>

\* an iterator on a directory that does not exist
SearchThrows ==
  /\ Stop("search", "exception")
  /\ roots # <<>> /\ Head(roots) \notin dirs
  /\ UNCHANGED <<compilation, disk, output, raced>>

Searched ==
  /\ Pass("search", "list")
  /\ roots = <<>>
  /\ todo' = found
  /\ UNCHANGED <<compilation, disk, search, good, homeless, output, history>>

\* listInputFiles
ListDirectory(d) ==
  /\ Pass("list", "list")
  /\ d \in todo
  /\ todo' = todo \ {d}
  /\ inputs' = inputs \cup {p \in Path : p.dir = d /\ entry[p] # NoJob}
  /\ UNCHANGED <<compilation, disk, asked, roots, found, good, homeless, output, history>>

NothingFound ==
  /\ Stop("list", "failure")
  /\ todo = {} /\ inputs = {}
  /\ UNCHANGED <<compilation, disk, output, raced>>

\* "if (std::filesystem::exists(output))"
RemoveOutput ==
  /\ Pass("list", "open")
  /\ todo = {} /\ inputs # {}
  /\ output' = [exists |-> FALSE, finished |-> FALSE, rows |-> {}]
  /\ todo' = inputs
  /\ UNCHANGED <<compilation, disk, search, good, homeless, history>>

HasHome(i) == \E j \in Job : <<j, "home">> \in stored[i]

\* reader.open(p), readProperties()
OpenInput(p) ==
  /\ Pass("open", "open")
  /\ p \in todo
  /\ todo' = todo \ {p}
  /\ entry[p] \in tables
  /\ good' = good \cup {p}
  /\ \/ homeless' = (homeless \/ ~HasHome(entry[p]))
     \/ BeingWritten(entry[p]) /\ homeless' = TRUE
  /\ UNCHANGED <<compilation, disk, search, output, history>>

SkipInput(p) ==
  /\ Pass("open", "open")
  /\ p \in todo
  /\ todo' = todo \ {p}
  /\ entry[p] \notin tables \/ BeingWritten(entry[p])
  /\ UNCHANGED <<compilation, disk, search, good, homeless, output, history>>

\* mutant of HomeMissing: the exception is caught before the removal
HomeMissingCaught ==
  /\ Pass("open", "remove")
  /\ todo = {} /\ homeless
  /\ output' = [output EXCEPT !.exists = TRUE]
  /\ UNCHANGED <<compilation, disk, search, todo, good, homeless, history>>

\* the at() of an input without project.home throws
HomeMissing ==
  /\ Stop("open", "exception")
  /\ todo = {} /\ homeless
  /\ output' = [output EXCEPT !.exists = TRUE]
  /\ UNCHANGED <<compilation, disk, raced>>

HomeKnown ==
  /\ Pass("open", "read")
  /\ todo = {} /\ ~homeless
  /\ output' = [output EXCEPT !.exists = TRUE]
  /\ todo' = good
  /\ UNCHANGED <<compilation, disk, search, good, homeless, history>>

\* the tables of an input, at different times and perhaps during a commit
ReadInput(p) ==
  /\ Pass("read", "read")
  /\ p \in todo
  /\ todo' = todo \ {p}
  /\ \E read \in IF BeingWritten(entry[p]) THEN SUBSET stored[entry[p]] ELSE {stored[entry[p]]} :
       output' = [output EXCEPT !.rows = @ \cup read]
  /\ UNCHANGED <<compilation, disk, search, good, homeless, history>>

InputsKept ==
  /\ Stop("read", "success")
  /\ todo = {} /\ asked.keep
  /\ output' = [output EXCEPT !.finished = TRUE]
  /\ UNCHANGED <<compilation, disk, raced>>

Merged ==
  /\ Pass("read", "remove")
  /\ todo = {} /\ ~asked.keep
  /\ output' = [output EXCEPT !.finished = TRUE]
  /\ UNCHANGED <<compilation, disk, search, todo, good, homeless, history>>

\* remove_all, file by file
RemoveSnapshot(p) ==
  /\ Pass("remove", "remove")
  /\ entry[p] # NoJob
  /\ \E d \in found : Below(d, p)
  /\ entry' = [entry EXCEPT ![p] = NoJob]
  /\ UNCHANGED <<compilation, dirs, tables, stored, search, merge, history>>

RemoveDirectory(d) ==
  /\ Pass("remove", "remove")
  /\ d \in found
  /\ \A p \in Path : Below(d, p) => entry[p] = NoJob
  /\ dirs' = {e \in dirs : ~IsPrefix(d, e)}
  /\ found' = found \ {d}
  /\ UNCHANGED <<compilation, entry, tables, stored, asked, roots, inputs, merge, history>>

\* a snapshot was created after remove_all had read the directory
RemoveThrows ==
  /\ Stop("remove", "exception")
  /\ \E d \in found : /\ \A p \in inputs : Below(d, p) => entry[p] = NoJob
                      /\ \E p \in Path \ inputs : Below(d, p) /\ entry[p] # NoJob
  /\ UNCHANGED <<compilation, disk, output, raced>>

InputsRemoved ==
  /\ Stop("remove", "success")
  /\ found = {}
  /\ UNCHANGED <<compilation, disk, output, raced>>

LinkKilled ==
  /\ LinkRuns
  /\ Stop(phase, "killed")
  /\ UNCHANGED <<compilation, disk, output, raced>>

LinkNext ==
  \/ StartLink \/ Search \/ SearchThrows \/ Searched
  \/ \E d \in todo : phase = "list" /\ ListDirectory(d)
  \/ NothingFound \/ RemoveOutput
  \/ \E p \in inputs : OpenInput(p) \/ SkipInput(p)
  \/ HomeMissing \/ HomeKnown
  \/ \E p \in good : ReadInput(p)
  \/ InputsKept \/ Merged
  \/ \E p \in Path : RemoveSnapshot(p)
  \/ \E d \in found : RemoveDirectory(d)
  \/ RemoveThrows \/ InputsRemoved \/ LinkKilled

Next ==
  \/ \E j \in Job : Begin(j) \/ Progress(j) \/ Kill(j)
  \/ LinkNext

Spec == Init /\ [][Next]_vars

-----------------------------------------------------------------------------
(* Properties *)

\* Every variable has its type.
TypeOK ==
  /\ setting \in Settings
  /\ pc \in [Job -> Ended \cup {"idle", "directory", "probe", "create", "open", "tables", "write"}]
  /\ number \in [Job -> 1 .. MaxNumber]
  /\ db \in [Job -> Job \cup {NoJob}]
  /\ open \in [Job -> BOOLEAN]
  /\ pending \in [Job -> SUBSET ToSet(Parts)]
  /\ written \in [Job -> 0 .. Len(Parts)]
  /\ entry \in [Path -> Job \cup {NoJob}]
  /\ tables \subseteq Job
  /\ stored \in [Job -> SUBSET Row]
  /\ phase \in {"none", "search", "list", "open", "read", "remove", "success", "failure", "exception", "killed"}
  /\ asked \in Link \cup {Unset}
  /\ inputs \subseteq Path /\ good \subseteq inputs
  /\ homeless \in BOOLEAN
  /\ output \in [exists : BOOLEAN, finished : BOOLEAN, rows : SUBSET Row]
  /\ links \in 0 .. MaxLinks
  /\ raced \subseteq Job
  /\ promised \subseteq Row

\* Compilers that find the same number free at the same time may open the same
\* file, but only one of them ever writes to it (plugin.cpp:67).
SnapshotsAreNotShared ==
  \A i \in Job : \A r, q \in stored[i] : r[1] = q[1]

\* The plugin makes a compilation fail only if, at some time since it began,
\* another compilation of a file with its name ran in the same directory or a
\* link ran: never because of what earlier ones, killed or not, have left.
AbortOnlyInARace ==
  [][\A j \in Job : pc[j] # "exception" /\ pc'[j] = "exception" => j \in raced]_vars

\* A link that succeeds has in its output all that ended compilations had left
\* in the scanner directories it was given and in those below the others it
\* searched, however deep; unless it keeps the sources, nothing it has linked
\* is left to the next link.
SuccessfulLinkMovesAll ==
  [][LinkRuns /\ phase' = "success" =>
       /\ promised \subseteq output'.rows
       /\ asked.keep \/ \A p \in Path : entry[p] # NoJob => stored[entry[p]] \cap output'.rows = {}]_vars

\* What a link removes is in its finished output, except for what was written
\* by compilations that had not ended when their directory was found.
RemovedIsLinked ==
  [][\A p \in Path : entry[p] # NoJob /\ entry'[p] = NoJob =>
       /\ ~asked.keep /\ output.finished
       /\ stored[entry[p]] \cap promised \subseteq output.rows]_vars
=============================================================================
