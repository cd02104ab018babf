--------------------------- MODULE SnapshotMerge ---------------------------
(***************************************************************************)
(* SnapshotMerger::runMerge (merge.cpp), with what its two callers do with *)
(* its inputs afterwards: the merge command (scannerinvocation.cpp), which *)
(* deletes the directories of the snapshots in link mode, and the scanner, *)
(* which renumbers the files of its own snapshot (scanner.cpp).            *)
(* What the output holds in a state is what is left if the program is      *)
(* killed there: a table is written in one transaction, by one action.     *)
(* The inputs are closed and opened again for every table, while the       *)
(* compilers that create them (PluginLink) may still be running.           *)
(*                                                                         *)
(* Abstractions.  The tables include, argumentPassedByReference,           *)
(* diagnostic, symbolReference and symbolDeclaration have rows of one form *)
(* (see Snapshot).  The flags of a symbol are a set.  Properties other     *)
(* than project.home, the names and extra information of symbols and the   *)
(* access of base classes are left out, the order of paths too: new files  *)
(* are numbered in any order.  No statement fails.                         *)
(***************************************************************************)
EXTENDS Integers, Sequences, FiniteSets, Snapshot

CONSTANTS
  Inputs,         \* the lists of input paths that may be given
  Disks,          \* what may be at these paths: a snapshot, or NoSnapshot
  Below,          \* the paths of files below each home directory
  ProjectHomes,   \* what setProjectHome may be given; NoHome: it is not called
  ContentWriter,  \* whether a FileContentWriter is set
  RemoveInputs    \* whether the caller removes the inputs afterwards

NoHome == "none"
NoSnapshot == [home |-> "not a snapshot"]
NoSymbol == 0

Home == DOMAIN Below \cup {NoHome}

ASSUME DisksAssumption ==
  \A d \in Disks : \A p \in DOMAIN d : d[p] = NoSnapshot \/ (Consistent(d[p]) /\ d[p].home \in Home)
ASSUME InputsAssumption == \A s \in Inputs, d \in Disks : s \in Seq(DOMAIN d)
ASSUME HomesAssumption == ProjectHomes \subseteq Home

VARIABLES
  phase,        \* the table that is written next, or how the merge ended
  inputs,       \* m_input_paths
  disk,         \* what is at the input paths
  projectHome,  \* m_project_home_path
  snapshots,    \* m_snapshots: the paths of those that could be opened
  home,         \* runMerge's local home
  table,        \* the FileIdTable: the id of each path
  content,      \* file_content_map
  external,     \* external_files
  reached,      \* how many inputs, and then snapshots, the loop has reached
  idtable,      \* InputSnapshot::idtable of each snapshot
  raced,        \* history: an input was written to after its files had been read
  outFile, outRows, outSymbol, outBaseOf, outOverride,  \* the output
  removed       \* the inputs were removed

locals == <<inputs, projectHome, snapshots, home>>
files == <<table, content, external, reached>>
relations == <<outBaseOf, outOverride>>
out == <<outFile, outRows, outSymbol, relations>>
vars == <<phase, disk, locals, files, idtable, raced, out, removed>>

EmptyFunction == [x \in {} |-> {}]
Over(g, f) == [x \in DOMAIN f \cup DOMAIN g |-> IF x \in DOMAIN g THEN g[x] ELSE f[x]]

Init ==
  /\ inputs \in Inputs
  /\ disk \in Disks
  /\ projectHome \in ProjectHomes
  /\ phase = "list"
  /\ snapshots = <<>>
  /\ home = NoHome
  /\ table = EmptyFunction
  /\ content = EmptyFunction
  /\ external = {}
  /\ reached = 0
  /\ idtable = <<>>
  /\ raced = FALSE
  /\ outFile = EmptyFunction
  /\ outRows = [k \in Kind |-> {}]
  /\ outSymbol = EmptyFunction
  /\ outBaseOf = {}
  /\ outOverride = {}
  /\ removed = FALSE

-----------------------------------------------------------------------------
(* Opening the inputs, the home directory.                                 *)

\* mutant of Good: a path that is given twice is listed twice
GoodAgain(s, p) == disk[p] # NoSnapshot

\* a path that was not listed before and is that of a snapshot
Good(s, p) == disk[p] # NoSnapshot /\ \A i \in DOMAIN s : s[i] # p

\* "list good snapshots (remove duplicates and non-snapshot files)": the next
\* input
ListSnapshot ==
  /\ phase = "list"
  /\ reached < Len(inputs)
  /\ reached' = reached + 1
  /\ snapshots' = IF Good(snapshots, inputs[reached + 1]) THEN Append(snapshots, inputs[reached + 1]) ELSE snapshots
  /\ UNCHANGED <<phase, disk, inputs, projectHome, home, table, content, external, idtable, raced, out, removed>>

Source(i) == disk[snapshots[i]]
HomesOfInputs == {Source(i).home : i \in DOMAIN snapshots}

\* the home directory that the inputs agree on, unless one was set; the at()
\* of an input without the property throws
ComputeHome ==
  /\ phase = "list"
  /\ reached = Len(inputs)
  /\ reached' = 0
  /\ IF NoHome \in HomesOfInputs
       THEN phase' = "thrown" /\ UNCHANGED home
       ELSE /\ phase' = "table"
            /\ home' = IF projectHome # NoHome THEN projectHome
                       ELSE IF Cardinality(HomesOfInputs) = 1 THEN CHOOSE h \in HomesOfInputs : TRUE
                       ELSE NoHome
  /\ UNCHANGED <<disk, inputs, projectHome, snapshots, table, content, external, idtable, raced, out, removed>>

-----------------------------------------------------------------------------
(* The files.                                                              *)

\* f.path.rfind(homePath + "/", 0) == 0; without a home every absolute path
\* begins with the prefix "/"
InProject(path) == home = NoHome \/ path \in Below[home]

PathsOf(s) == {s.file[n].path : n \in DOMAIN s.file}

\* FileIdTable::insert: the next ids, for the paths that have none
Numbered(t, paths) ==
  {Over(f, t) : f \in {g \in [paths \ DOMAIN t -> Cardinality(DOMAIN t) + 1 .. Cardinality(DOMAIN t \cup paths)] :
                         \A p, q \in DOMAIN g : g[p] = g[q] => p = q}}

\* the file ids of one snapshot more, its project files first
AddFilesOf(i) ==
  /\ phase = "table"
  /\ reached = i - 1
  /\ LET s == Source(i)
         mine == {n \in DOMAIN s.file : InProject(s.file[n].path)}
         new == {n \in mine : s.file[n].path \notin DOMAIN table}
     IN /\ table' \in Numbered(table, {s.file[n].path : n \in mine})
        /\ content' = Over([p \in {s.file[n].path : n \in new} |->
                              s.file[CHOOSE n \in new : s.file[n].path = p].content], content)
        /\ external' = external \cup {s.file[n].path : n \in DOMAIN s.file \ mine}
  /\ reached' = i
  /\ UNCHANGED <<phase, disk, locals, idtable, raced, out, removed>>

\* nb_files_in_project, and last_file_id_in_project
NbFilesInProject == Cardinality(DOMAIN content)

\* mutant of AddExternalFiles: only the files of the project have numbers
LeaveExternalFiles ==
  /\ phase = "table"
  /\ reached = Len(snapshots)
  /\ phase' = "paths"
  /\ UNCHANGED <<disk, locals, files, idtable, raced, out, removed>>

\* the files outside of the project come last
AddExternalFiles ==
  /\ phase = "table"
  /\ reached = Len(snapshots)
  /\ table' \in Numbered(table, external)
  /\ phase' = "paths"
  /\ UNCHANGED <<disk, locals, content, external, reached, idtable, raced, out, removed>>

\* insertFilePaths, with every file of the table
WritePaths ==
  /\ phase = "paths"
  /\ outFile' = [n \in {table[p] : p \in DOMAIN table} |->
                   [path |-> CHOOSE p \in DOMAIN table : table[p] = n, content |-> FALSE]]
  /\ phase' = "contents"
  /\ UNCHANGED <<disk, locals, files, idtable, raced, outRows, outSymbol, relations, removed>>

\* insertFiles, with the files of the project; a FileContentWriter may find
\* the text of those that have none
WriteContents ==
  /\ phase = "contents"
  /\ \E found \in SUBSET {p \in DOMAIN content : ContentWriter /\ ~content[p]} :
       outFile' = Over([n \in {table[p] : p \in DOMAIN content} |->
                          LET path == CHOOSE p \in DOMAIN content : table[p] = n
                          IN [path |-> path, content |-> content[path] \/ path \in found]], outFile)
  /\ phase' = "remap"
  /\ UNCHANGED <<disk, locals, files, idtable, raced, outRows, outSymbol, relations, removed>>

-----------------------------------------------------------------------------
(* The rows.                                                               *)

\* createRemapTable; resize() leaves 0 at the ids that no file has
RemapTable(s) ==
  [n \in UNION {0 .. m : m \in DOMAIN s.file} |-> IF n \in DOMAIN s.file THEN table[s.file[n].path] ELSE 0]

\* mutant of Remapped: an include keeps the number of the included file
RemappedByHalf(k, i, r) == [file |-> idtable[i][r.file], key |-> r.key, to |-> r.to, by |-> i]

\* the row r of the snapshot i
Remapped(k, i, r) ==
  [file |-> idtable[i][r.file], key |-> r.key, to |-> IF k = "include" THEN idtable[i][r.to] ELSE r.to, by |-> i]

\* inc.fileID <= last_file_id_in_project
InRange(i, r) == idtable[i][r.file] <= NbFilesInProject

\* what one table of all snapshots becomes
Collected(k) == UNION {{Remapped(k, i, r) : r \in {x \in Source(i).rows[k] : InRange(i, x)}} : i \in DOMAIN snapshots}

\* findIdentification, for the files that a snapshot has now
AllFound(i) == PathsOf(Source(i)) \subseteq DOMAIN table

\* the rows that a snapshot has now read its idtable where it has entries
Indexable(i, k) ==
  \A r \in Source(i).rows[k] :
    r.file \in DOMAIN idtable[i] /\ (k = "include" /\ InRange(i, r) => r.to \in DOMAIN idtable[i])

Same(a, b) == a.file = b.file /\ a.key = b.key /\ a.to = b.to

\* sortAndRemoveDuplicates, which is skipped for a single snapshot
Deduplicated(S) ==
  IF Len(snapshots) > 1 THEN {r \in S : \A q \in S : Same(q, r) => r.by <= q.by} ELSE S

\* insertIncludes ignores what violates UNIQUE(file_id, line): of several the
\* first stays, and the list is sorted by included file
Inserted(k, S) ==
  IF k = "include"
    THEN {r \in S : \A q \in S : q.file = r.file /\ q.key = r.key => r.to <= q.to}
    ELSE S

\* the tables in the order they are written in
NextPhase ==
  [include |-> "refarg", refarg |-> "diagnostic", diagnostic |-> "symbol", symbolReference |-> "symbolDeclaration",
   symbolDeclaration |-> "baseOf"]

\* The idtables are computed from the files that the snapshots have now, in
\* the loop that goes on to read their includes.
ComputeIds ==
  /\ phase = "remap"
  /\ \A i \in DOMAIN snapshots : AllFound(i)
  /\ idtable' = [i \in DOMAIN snapshots |-> RemapTable(Source(i))]
  /\ phase' = "include"
  /\ UNCHANGED <<disk, locals, files, raced, out, removed>>

\* one of the five tables of rows
WriteRows(k) ==
  /\ phase = k
  /\ \A i \in DOMAIN snapshots : Indexable(i, k)
  /\ outRows' = [outRows EXCEPT ![k] = Inserted(k, Deduplicated(Collected(k)))]
  /\ phase' = NextPhase[k]
  /\ UNCHANGED <<disk, locals, files, idtable, raced, outFile, outSymbol, relations, removed>>

\* A path is not in the FileIdTable, or an idtable is read past its end: an
\* assertion fails or anything may happen, and nothing more is modelled.
LookUpInVain ==
  /\ \/ phase = "remap" /\ \E i \in DOMAIN snapshots : ~AllFound(i)
     \/ phase \in Kind /\ \E i \in DOMAIN snapshots : ~Indexable(i, phase)
  /\ phase' = "aborted"
  /\ UNCHANGED <<disk, locals, files, idtable, raced, out, removed>>

\* mutant of MergedFlags: the flags of the first snapshot that has the symbol
FirstFlags(s) ==
  LET first == CHOOSE i \in DOMAIN snapshots :
                 s \in DOMAIN Source(i).symbol /\ \A j \in 1 .. i - 1 : s \notin DOMAIN Source(j).symbol
  IN Source(first).symbol[s]

\* update(it->second, symbol): the flags are or-ed
MergedFlags(s) == UNION {Source(i).symbol[s] : i \in {j \in DOMAIN snapshots : s \in DOMAIN Source(j).symbol}}

WriteSymbols ==
  /\ phase = "symbol"
  /\ outSymbol' = [s \in UNION {DOMAIN Source(i).symbol : i \in DOMAIN snapshots} |-> MergedFlags(s)]
  /\ phase' = "symbolReference"
  /\ UNCHANGED <<disk, locals, files, idtable, raced, outFile, outRows, relations, removed>>

WriteBaseOf ==
  /\ phase = "baseOf"
  /\ outBaseOf' = UNION {Source(i).baseOf : i \in DOMAIN snapshots}
  /\ phase' = "override"
  /\ UNCHANGED <<disk, locals, files, idtable, raced, outFile, outRows, outSymbol, outOverride, removed>>

\* override has one row for each overriding method: of several the one with
\* the greatest base, which is sorted first
WriteOverride ==
  /\ phase = "override"
  /\ LET all == UNION {Source(i).override : i \in DOMAIN snapshots}
     IN outOverride' = {p \in all : \A q \in all : q[1] = p[1] => q[2] <= p[2]}
  /\ phase' = "done"
  /\ UNCHANGED <<disk, locals, files, idtable, raced, outFile, outRows, outSymbol, outBaseOf, removed>>

-----------------------------------------------------------------------------
(* Around runMerge.                                                        *)

\* mutant of RemoveSources: also when the merge was not successful
RemoveInAnyCase ==
  /\ RemoveInputs
  /\ phase \in {"done", "thrown"}
  /\ ~removed
  /\ removed' = TRUE
  /\ UNCHANGED <<phase, disk, locals, files, idtable, raced, out>>

\* remove_all(dir) in link mode, remove(tmp_path) in the scanner
RemoveSources ==
  /\ RemoveInputs
  /\ phase = "done"
  /\ ~removed
  /\ removed' = TRUE
  /\ UNCHANGED <<phase, disk, locals, files, idtable, raced, out>>

\* what transactions of a feed make of a snapshot: nothing is taken away
Extends(t, s) ==
  /\ t.home = s.home
  /\ DOMAIN s.file \subseteq DOMAIN t.file /\ \A n \in DOMAIN s.file : t.file[n].path = s.file[n].path
  /\ \A k \in Kind : s.rows[k] \subseteq t.rows[k]
  /\ DOMAIN s.symbol \subseteq DOMAIN t.symbol

\* runMerge is past reading the files of p
HasRead(p) == phase \notin {"list", "table"} \/ (phase = "table" /\ \E i \in 1 .. reached : snapshots[i] = p)

\* a compiler that runs the plugin goes on feeding the snapshot it has created
Grow(p, s) ==
  /\ \E n \in DOMAIN inputs : inputs[n] = p
  /\ NoSnapshot \notin {disk[p], s}
  /\ s # disk[p] /\ Extends(s, disk[p])
  /\ ~removed
  /\ disk' = [disk EXCEPT ![p] = s]
  /\ raced' = (raced \/ HasRead(p))
  /\ UNCHANGED <<phase, locals, files, idtable, out, removed>>

Finished ==
  /\ phase \in {"done", "thrown", "aborted"}
  /\ UNCHANGED vars

\* what may be at p
Versions(p) == {d[p] : d \in {e \in Disks : p \in DOMAIN e}}

Next ==
  \/ ListSnapshot \/ ComputeHome
  \/ \E i \in DOMAIN snapshots : AddFilesOf(i)
  \/ AddExternalFiles \/ WritePaths \/ WriteContents
  \/ ComputeIds \/ LookUpInVain
  \/ \E k \in Kind : WriteRows(k)
  \/ WriteSymbols \/ WriteBaseOf \/ WriteOverride
  \/ RemoveSources \/ Finished
  \/ \E p \in DOMAIN disk : \E s \in Versions(p) : Grow(p, s)

Spec == Init /\ [][Next]_vars

-----------------------------------------------------------------------------
(* Properties.                                                             *)

Path == UNION {UNION {PathsOf(d[p]) : p \in {q \in DOMAIN d : d[q] # NoSnapshot}} : d \in Disks}

\* Every variable has its type; no input is listed twice.
TypeOK ==
  /\ phase \in Kind \cup {"list", "thrown", "table", "paths", "contents", "remap", "symbol", "baseOf", "override", "done",
                        "aborted"}
  /\ inputs \in Inputs
  /\ \A i, j \in DOMAIN snapshots : snapshots[i] = snapshots[j] => i = j
  /\ home \in Home
  /\ DOMAIN content \subseteq DOMAIN table /\ DOMAIN table \subseteq Path
  /\ external \subseteq Path
  /\ reached \in 0 .. (IF phase = "list" THEN Len(inputs) ELSE Len(snapshots))
  /\ DOMAIN outRows = Kind
  /\ {raced, removed} \subseteq BOOLEAN

\* The FOREIGN KEY clauses of the schema, which SQLite does not enforce here:
\* at every commit the files and the symbols that rows mention are in their
\* tables, though the files were renumbered in between.  (If an input went on
\* growing after its files were read, rows may name symbols it had not yet.)
ReferentialIntegrity ==
  ~raced =>
    /\ \A k \in Kind : \A r \in outRows[k] :
         /\ r.file \in DOMAIN outFile
         /\ k = "include" => r.to \in DOMAIN outFile
         /\ k \in HasSymbol => r.to \in DOMAIN outSymbol
    /\ \A p \in outBaseOf \cup outOverride : p[1] \in DOMAIN outSymbol /\ p[2] \in DOMAIN outSymbol

\* A row with the paths its ids stand for in s.
ByPath(k, file, r) ==
  [path |-> file[r.file].path, key |-> r.key, to |-> IF k = "include" THEN file[r.to].path ELSE r.to]

RowsByPath(k, s, paths) == {ByPath(k, s.file, r) : r \in {q \in s.rows[k] : s.file[q.file].path \in paths}}

\* What the output must hold of s: the rows of the files in paths, and the
\* symbols.  Of several includes at one line only one can be kept.
Holds(s, paths) ==
  LET output == [file |-> outFile, rows |-> outRows]
      at(S) == {<<r.path, r.key>> : r \in S}
  IN /\ \A k \in Kind \ {"include"} : RowsByPath(k, s, paths) \subseteq RowsByPath(k, output, Path)
     /\ at(RowsByPath("include", s, paths)) \subseteq at(RowsByPath("include", output, Path))
     /\ PathsOf(s) \subseteq PathsOf(output)
     /\ \A x \in DOMAIN s.symbol : x \in DOMAIN outSymbol /\ s.symbol[x] \subseteq outSymbol[x]
     /\ s.baseOf \subseteq outBaseOf
     /\ \A p \in s.override : \E q \in outOverride : q[1] = p[1]

\* The merge holds, of the files of the project and of no others, every row
\* of every snapshot, once, and nothing that was in none, whatever numbers the
\* files had in each: "id <= last_file_id_in_project" does say whether a file
\* is in the project (the assertion nb_files_in_project + 1 == table.size()).
\* An input that grows while it is read again and again is in it in part.
MergedIsUnion ==
  phase = "done" /\ ~raced =>
    /\ \A i \in DOMAIN snapshots : Holds(Source(i), {p \in Path : InProject(p)})
    /\ \A k \in Kind : RowsByPath(k, [file |-> outFile, rows |-> outRows], Path) \subseteq
                         UNION {RowsByPath(k, Source(i), {p \in Path : InProject(p)}) : i \in DOMAIN snapshots}
    /\ \A k \in Kind : \A q, r \in outRows[k] : Same(q, r) => q = r
    /\ \A x \in DOMAIN outSymbol : outSymbol[x] =
         UNION {Source(i).symbol[x] : i \in {j \in DOMAIN snapshots : x \in DOMAIN Source(j).symbol}}

\* Inputs are removed only when the output holds what they held, unless a
\* compiler was still writing to one (RemovedIsLinked of PluginLink says what a
\* link promises then).
NothingRemovedUnmerged ==
  removed /\ ~raced => \A n \in DOMAIN inputs :
    disk[inputs[n]] # NoSnapshot => Holds(disk[inputs[n]], {p \in Path : InProject(p)})

\* assert(it != m_filesmap.end()) in FileIdTable::findIdentification, and the
\* indices of idtable: every file that is looked up has a number, though the
\* inputs are closed and read again between the loops on their files.  It does
\* not hold.
EveryFileIsFound == phase # "aborted"

\* The only way there is a compiler that wrote to an input between these
\* reads: no numbering, no overlap of the inputs, nothing that was left by a
\* killed compiler and no growth before the files of an input are read makes
\* a look-up fail.
LookUpsFailOnlyInARace == ~EveryFileIsFound => raced
=============================================================================
