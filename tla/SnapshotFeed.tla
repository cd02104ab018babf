---------------------------- MODULE SnapshotFeed ----------------------------
(***************************************************************************)
(* SnapshotCreator::feed (snapshotcreator.cpp) and the SnapshotWriter      *)
(* operations it calls: one translation unit index after the other is      *)
(* written to the database, each in about ten transactions.  Every action  *)
(* below ends with the commit of one transaction (or is one auto-committed *)
(* statement), so that what the database holds in a state is what is left  *)
(* if the program is killed there.                                         *)
(*                                                                         *)
(* Abstractions.  The four tables that feed handles file by file (include, *)
(* symbolReference, diagnostic, symbolDeclaration) have rows of one form:  *)
(*   file    the file the row is in                                        *)
(*   key     its line or position, with the rest of what is compared       *)
(*   symbol  the symbol, 0 in the tables that have none                    *)
(*   to      the included file of an include, the parent of a reference    *)
(* and carry in the database the number of the feed that wrote them.  The  *)
(* text of files, the names and the extra information of symbols are left  *)
(* out; no statement fails.                                                *)
(***************************************************************************)
EXTENDS Integers, Sequences, FiniteSets, UnitIndex

CONSTANTS
  Indexes,   \* the translation unit indexes that may be fed
  NbFeeds,   \* bound: how many are fed
  IntBits    \* the width of an int; a SymbolID has twice as many bits

ASSUME BoundsAssumption == NbFeeds \in Nat /\ IntBits \in Nat \ {0}

\* what invariant IndexIsWellFormed of Indexer shows of the indexes it makes
ASSUME IndexesAssumption == \A x \in Indexes : WellFormed(x)

VARIABLES
  stage,          \* how far feed has come
  tu,             \* the index being fed
  newFiles,       \* feed's local newfiles
  todo,           \* what the loop of the current stage has not reached
  fed,            \* the indexes fed so far, the current one included
  pathsInserted,  \* SnapshotCreatorData::filePathsInserted
  indexedFiles,   \* SnapshotCreatorData::indexedFiles
  symbols,        \* SnapshotCreatorData::symbols, with their flags
  dbFile,         \* table file: "path" or "content" for each id
  table,          \* the four tables of Kind
  dbSymbol,       \* table symbol: the flags of each id
  dbBaseOf,       \* table baseOf
  dbOverride,     \* table override: its base for each overriding method
  dbRefarg        \* table argumentPassedByReference

locals == <<tu, newFiles, fed>>
memory == <<pathsInserted, indexedFiles, symbols>>
relations == <<dbBaseOf, dbOverride>>
database == <<dbFile, table, dbSymbol, relations, dbRefarg>>
vars == <<stage, todo, locals, memory, database>>

Init ==
  /\ stage = "idle"
  /\ tu \in Indexes       \* not read before BeginFeed
  /\ newFiles = {}
  /\ todo = {}
  /\ fed = <<>>
  /\ pathsInserted = {}
  /\ indexedFiles = {}
  /\ symbols = EmptyFunction
  /\ dbFile = EmptyFunction
  /\ table = [k \in Kind |-> {}]
  /\ dbSymbol = EmptyFunction
  /\ dbBaseOf = {}
  /\ dbOverride = EmptyFunction
  /\ dbRefarg = {}

-----------------------------------------------------------------------------
(* Files.                                                                  *)

\* mutant of BeginFeed: newfiles outlives the call
BeginFeedAgain(x) ==
  /\ stage = "idle"
  /\ Len(fed) < NbFeeds
  /\ tu' = x
  /\ fed' = Append(fed, x)
  /\ newFiles' = newFiles \cup (x.files \ indexedFiles)
  /\ stage' = "files"
  /\ UNCHANGED <<todo, memory, database>>

BeginFeed(x) ==
  /\ stage = "idle"
  /\ Len(fed) < NbFeeds
  /\ tu' = x
  /\ fed' = Append(fed, x)
  /\ newFiles' = x.files \ indexedFiles
  /\ stage' = "files"
  /\ UNCHANGED <<todo, memory, database>>

\* mutant of InsertFiles: INSERT OR IGNORE
InsertFilesIgnore(files) == dbFile' = Over(dbFile, [f \in files |-> "content"])

\* SnapshotWriter::insertFiles, INSERT OR REPLACE
InsertFiles(files) == dbFile' = Over([f \in files |-> "content"], dbFile)

\* SnapshotWriter::insertFilePaths, INSERT OR IGNORE
InsertFilePaths(files) == dbFile' = Over(dbFile, [f \in files |-> "path"])

FeedFiles ==
  /\ stage = "files"
  /\ InsertFiles(newFiles)
  /\ pathsInserted' = pathsInserted \cup newFiles
  /\ stage' = "paths"
  /\ UNCHANGED <<todo, locals, indexedFiles, symbols, table, dbSymbol, relations, dbRefarg>>

\* mutant of IncludedFiles: only files that are indexed themselves are listed
IncludedProjectFiles == {r.to : r \in tu.rows["include"]} \cap tu.files

IncludedFiles == {r.to : r \in tu.rows["include"]}

\* "ensure that included files are listed in the database"
FeedIncludedPaths ==
  /\ stage = "paths"
  /\ LET newIncludes == IncludedFiles \ pathsInserted
     IN /\ InsertFilePaths(newIncludes)
        /\ pathsInserted' = pathsInserted \cup newIncludes
  /\ stage' = "include"
  /\ todo' = {r.file : r \in tu.rows["include"]}
  /\ UNCHANGED <<locals, indexedFiles, symbols, table, dbSymbol, relations, dbRefarg>>

-----------------------------------------------------------------------------
(* The tables that are written file by file.                               *)

\* what each merge of feed compares
Key(r) == <<r.file, r.key, r.symbol>>
Keys(S) == {Key(r) : r \in S}

\* The sets that std::unique may leave of rows sorted by their key: std::sort
\* is not stable, any row may come first among its equals.
OnePerKey(S) == {K \in SUBSET S : Keys(K) = Keys(S) /\ \A a, b \in K : Key(a) = Key(b) => a = b}

\* the value of an int that was read from a column of twice its width, as an
\* unsigned id again: the low bits with their sign extended
ThroughInt(id) ==
  LET low == id % 2 ^ IntBits
  IN IF low < 2 ^ (IntBits - 1) THEN low ELSE low + 2 ^ (2 * IntBits) - 2 ^ IntBits

\* loadAllIncludesInFile, loadSymbolReferencesInFile (which reads the parent
\* with columnInt), loadDiagnosticsInFile, loadDeclarationsInFile
Load(k, f) ==
  LET rows == {r \in table[k] : r.file = f}
  IN IF k = "reference" THEN {[r EXCEPT !.to = ThroughInt(@)] : r \in rows} ELSE rows

\* the rows of the index that are in f, as the current feed writes them
Incoming(k, f) ==
  {[file |-> r.file, key |-> r.key, symbol |-> r.symbol, to |-> r.to, by |-> Len(fed)] :
     r \in {q \in tu.rows[k] : q.file = f}}

\* mutant of MergeRows: what was in the database is removed, not merged
ReplaceRows(k, f) ==
  \E merged \in OnePerKey(Incoming(k, f)) :
    table' = [table EXCEPT ![k] = {r \in @ : r.file # f} \cup merged]

\* the rows of a file that was already indexed are merged with those in the
\* database and replace them, in one transaction
MergeRows(k, f) ==
  \E merged \in OnePerKey(Load(k, f) \cup Incoming(k, f)) :
    table' = [table EXCEPT ![k] = {r \in @ : r.file # f} \cup merged]

\* the others are inserted; only "include" has a UNIQUE constraint, and the
\* insertion ignores what violates it
InsertRows(k, f) ==
  IF k = "include"
    THEN \E new \in OnePerKey({r \in Incoming(k, f) : Key(r) \notin Keys(table[k])}) :
           table' = [table EXCEPT ![k] = @ \cup new]
    ELSE table' = [table EXCEPT ![k] = @ \cup Incoming(k, f)]

\* mutant of FeedRows: a file that is indexed already is skipped
FeedRowsOnce(k, f) ==
  /\ stage = k
  /\ f \in todo
  /\ IF f \in indexedFiles THEN UNCHANGED table ELSE InsertRows(k, f)
  /\ todo' = todo \ {f}
  /\ UNCHANGED <<stage, locals, memory, dbFile, dbSymbol, relations, dbRefarg>>

FeedRows(k, f) ==
  /\ stage = k
  /\ f \in todo
  /\ IF f \in indexedFiles THEN MergeRows(k, f) ELSE InsertRows(k, f)
  /\ todo' = todo \ {f}
  /\ UNCHANGED <<stage, locals, memory, dbFile, dbSymbol, relations, dbRefarg>>

\* the loop of a stage is over
Leave(k, next, nextTodo) ==
  /\ stage = k
  /\ todo = {}
  /\ stage' = next
  /\ todo' = nextTodo
  /\ UNCHANGED <<locals, memory, database>>

EndOfIncludes == Leave("include", "symbols", {})
EndOfReferences == Leave("reference", "bases", tu.baseOfs)
EndOfBases == Leave("bases", "overrides", tu.overrides)
EndOfOverrides == Leave("overrides", "diagnostic", {r.file : r \in tu.rows["diagnostic"]})
EndOfDiagnostics == Leave("diagnostic", "refargs", {})

-----------------------------------------------------------------------------
(* Symbols, relations, arguments.                                          *)

\* IndexerSymbol::Update has the one enumerator FlagUpdate, whose value is 0
FlagUpdate == 0

\* what_updated & IndexerSymbol::FlagUpdate, where update() has or-ed
\* FlagUpdate into what_updated if the flags differ
FlagsNeedUpdate(s) == s \in DOMAIN symbols /\ symbols[s] # tu.symbols[s] /\ FlagUpdate # 0

FeedSymbols ==
  LET new == DOMAIN tu.symbols \ DOMAIN symbols
      old == DOMAIN tu.symbols \cap DOMAIN symbols
      updated == {s \in old : FlagsNeedUpdate(s)}
      inMemory == Over([s \in old |-> symbols[s] \cup tu.symbols[s]], Over(symbols, tu.symbols))
  IN /\ stage = "symbols"
     /\ symbols' = inMemory
     /\ dbSymbol' = Over([s \in new \cup updated |-> inMemory[s]], dbSymbol)
     /\ stage' = "reference"
     /\ todo' = {r.file : r \in tu.rows["reference"]}
     /\ UNCHANGED <<locals, pathsInserted, indexedFiles, dbFile, table, relations, dbRefarg>>

\* insertBaseOfs: INSERT OR IGNORE, each row a transaction of its own
FeedBaseOf(p) ==
  /\ stage = "bases"
  /\ p \in todo
  /\ dbBaseOf' = dbBaseOf \cup {p}
  /\ todo' = todo \ {p}
  /\ UNCHANGED <<stage, locals, memory, dbFile, table, dbSymbol, dbOverride, dbRefarg>>

\* insertOverrides: INSERT OR IGNORE on the overriding method
FeedOverride(p) ==
  /\ stage = "overrides"
  /\ p \in todo
  /\ dbOverride' = Over(dbOverride, [m \in {p[1]} |-> p[2]])
  /\ todo' = todo \ {p}
  /\ UNCHANGED <<stage, locals, memory, dbFile, table, dbSymbol, dbBaseOf, dbRefarg>>

\* argumentPassedByReference has no key: what is there already is inserted
\* again
FeedRefargs ==
  /\ stage = "refargs"
  /\ dbRefarg' = dbRefarg \cup {[file |-> r.file, key |-> r.key, by |-> Len(fed)] : r \in tu.refargs}
  /\ stage' = "declaration"
  /\ todo' = {r.file : r \in tu.rows["declaration"]}
  /\ UNCHANGED <<locals, memory, dbFile, table, dbSymbol, relations>>

\* "Update list of already indexed files"
EndFeed ==
  /\ stage = "declaration"
  /\ todo = {}
  /\ indexedFiles' = indexedFiles \cup newFiles
  /\ stage' = "idle"
  /\ UNCHANGED <<todo, locals, pathsInserted, symbols, database>>

\* SnapshotCreator::close, from the destructor at the latest
Close ==
  /\ stage = "idle"
  /\ stage' = "closed"
  /\ UNCHANGED <<todo, locals, memory, database>>

Closed == stage = "closed" /\ UNCHANGED vars

-----------------------------------------------------------------------------

Next ==
  \/ \E x \in Indexes : BeginFeed(x)
  \/ FeedFiles \/ FeedIncludedPaths
  \/ \E k \in Kind, f \in todo : FeedRows(k, f)
  \/ FeedSymbols
  \/ \E p \in todo : FeedBaseOf(p) \/ FeedOverride(p)
  \/ FeedRefargs
  \/ EndOfIncludes \/ EndOfReferences \/ EndOfBases \/ EndOfOverrides \/ EndOfDiagnostics
  \/ EndFeed \/ Close \/ Closed

Spec == Init /\ [][Next]_vars

-----------------------------------------------------------------------------
(* Properties.                                                             *)

File == UNION {x.files \cup {r.to : r \in x.rows["include"]} : x \in Indexes}
SymbolId == UNION {DOMAIN x.symbols : x \in Indexes}

\* between two feeds
AtRest == stage \in {"idle", "closed"}

\* Every variable has its type.
TypeOK ==
  /\ stage \in Kind \cup
       {"idle", "files", "paths", "symbols", "bases", "overrides", "refargs", "closed"}
  /\ tu \in Indexes
  /\ newFiles \subseteq tu.files
  /\ fed \in Seq(Indexes) /\ Len(fed) <= NbFeeds
  /\ pathsInserted \subseteq File
  /\ indexedFiles \subseteq File
  /\ DOMAIN symbols \subseteq SymbolId
  /\ \A f \in DOMAIN dbFile : f \in File /\ dbFile[f] \in {"path", "content"}
  /\ DOMAIN table = Kind
  /\ DOMAIN dbSymbol \subseteq SymbolId
  /\ DOMAIN dbOverride \subseteq SymbolId

\* What the FOREIGN KEY clauses of the schema say, which SQLite does not
\* enforce here: at every commit, and so whenever the program is killed,
\* the files and symbols that rows mention are in their tables.  Parents of
\* references that were read back are the subject of ParentsExist.
ReferentialIntegrity ==
  /\ \A k \in Kind : \A r \in table[k] :
       /\ r.file \in DOMAIN dbFile
       /\ k = "include" => r.to \in DOMAIN dbFile
       /\ k \in {"reference", "declaration"} => r.symbol \in DOMAIN dbSymbol
  /\ \A r \in table["reference"] :
       Cardinality({n \in DOMAIN fed : r.file \in fed[n].files}) = 1
         => r.to \in DOMAIN dbSymbol \cup {NoSymbol}
  /\ \A p \in dbBaseOf : p[1] \in DOMAIN dbSymbol /\ p[2] \in DOMAIN dbSymbol
  /\ \A m \in DOMAIN dbOverride : {m, dbOverride[m]} \subseteq DOMAIN dbSymbol
  /\ \A r \in dbRefarg : r.file \in DOMAIN dbFile

\* The flags by which feed decides what to insert describe the database:
\* a file has a row exactly if its path is known to be inserted, an indexed
\* file has its content, whether it was first met as an include or not, and
\* the symbols in memory are those of the symbol table.
MemoryMirrorsDatabase ==
  /\ DOMAIN dbFile = pathsInserted
  /\ \A f \in indexedFiles : f \in DOMAIN dbFile /\ dbFile[f] = "content"
  /\ DOMAIN dbSymbol = DOMAIN symbols

\* Between two feeds the database holds the rows of every index that was fed
\* and no others, in whatever order they came and however the files of the
\* indexes overlap; two feeds do not leave two rows for the same thing,
\* though only the include table has a UNIQUE constraint (the comment of
\* SnapshotWriter::insert(declarations) says that the database cannot do it).
SnapshotIsUnion ==
  AtRest =>
    /\ \A k \in Kind : Keys(table[k]) = UNION {Keys(fed[n].rows[k]) : n \in DOMAIN fed}
    /\ \A k \in Kind : \A a, b \in table[k] : Key(a) = Key(b) => a.by = b.by
    /\ dbBaseOf = UNION {fed[n].baseOfs : n \in DOMAIN fed}
    /\ DOMAIN dbSymbol = UNION {DOMAIN fed[n].symbols : n \in DOMAIN fed}
    /\ \A m \in DOMAIN dbOverride : \E n \in DOMAIN fed : <<m, dbOverride[m]>> \in fed[n].overrides
    /\ \A f \in DOMAIN dbFile : dbFile[f] = "content" <=> \E n \in DOMAIN fed : f \in fed[n].files

\* No commit makes a row disappear, not even the transaction that replaces
\* all the rows of a file.
RowsNeverVanish ==
  [][\A k \in Kind : Keys(table[k]) \subseteq Keys(table'[k])]_vars

\* FOREIGN KEY("parent_symbol_id") REFERENCES "symbol"("id"), in the schema of
\* table symbolReference.
ParentsExist ==
  \A r \in table["reference"] : r.to \in DOMAIN dbSymbol \cup {NoSymbol}
=============================================================================
