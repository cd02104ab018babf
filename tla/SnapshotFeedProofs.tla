------------------------- MODULE SnapshotFeedProofs -------------------------
(***************************************************************************)
(* The inductive invariant of SnapshotFeed and the theorems that follow    *)
(* from it, for any indexes that are well formed and any number of feeds.  *)
(***************************************************************************)
EXTENDS SnapshotFeed, FiniteSetTheorems, SequenceTheorems, TLAPS

AfterSymbols == {"reference", "bases", "overrides", "diagnostic", "refargs", "declaration"}
AfterPaths == AfterSymbols \cup {"include", "symbols"}
AfterFiles == AfterPaths \cup {"paths"}
Feeding == AfterFiles \cup {"files"}

\* The feeds that are over.
Past == IF stage \in Feeding THEN DOMAIN fed \ {Len(fed)} ELSE DOMAIN fed

\* What is being fed, and what the feeds that are over have indexed.
FedInv ==
  /\ stage \in Feeding => fed # <<>> /\ tu = fed[Len(fed)] /\ newFiles = tu.files \ indexedFiles
  /\ stage \notin Feeding => newFiles \subseteq indexedFiles
  /\ indexedFiles = UNION {fed[n].files : n \in Past}

\* The files of a stage are files of the index.
TodoInv == stage \in Kind => todo \subseteq tu.files

\* What the file table holds at each stage.
FilesInv ==
  /\ MemoryMirrorsDatabase
  /\ stage \in AfterFiles => \A f \in newFiles : f \in DOMAIN dbFile /\ dbFile[f] = "content"
  /\ stage \in AfterPaths => IncludedFiles \subseteq DOMAIN dbFile
  /\ \A f \in DOMAIN dbFile :
       dbFile[f] = "content" => f \in indexedFiles \/ (stage \in AfterFiles /\ f \in newFiles)

\* The stages after each of the four tables.
After ==
  [include |-> AfterSymbols \cup {"symbols"}, reference |-> AfterSymbols \ {"reference"},
   diagnostic |-> {"refargs", "declaration"}, declaration |-> {}]

\* The rows of the current index that are in their table.
Written(k) ==
  {q \in tu.rows[k] : stage \in After[k] \/ (stage = k /\ q.file \notin todo)}

Shaped(r) == r = [file |-> r.file, key |-> r.key, symbol |-> r.symbol, to |-> r.to, by |-> r.by]

\* What the four tables hold at each stage.
RowsInv ==
  \A k \in Kind :
    /\ Keys(table[k]) = (UNION {Keys(fed[n].rows[k]) : n \in Past}) \cup Keys(Written(k))
    /\ \A r \in table[k] : Shaped(r)
    /\ \A a, b \in table[k] : Key(a) = Key(b) => a.by = b.by

\* The symbols and bases of the current index that are in their table.
SymbolsWritten == {s \in DOMAIN tu.symbols : stage \in AfterSymbols}
BasesWritten ==
  {p \in tu.baseOfs : stage \in AfterSymbols \ {"reference", "bases"} \/ (stage = "bases" /\ p \notin todo)}

\* What the tables of symbols and relations hold.
RelationsInv ==
  /\ stage = "bases" => todo \subseteq tu.baseOfs
  /\ stage = "overrides" => todo \subseteq tu.overrides
  /\ DOMAIN dbSymbol = (UNION {DOMAIN fed[n].symbols : n \in Past}) \cup SymbolsWritten
  /\ dbBaseOf = (UNION {fed[n].baseOfs : n \in Past}) \cup BasesWritten
  /\ \A m \in DOMAIN dbOverride : \E n \in DOMAIN fed : <<m, dbOverride[m]>> \in fed[n].overrides

\* The files and symbols that rows mention.  A file that one feed only has
\* had was never read back.
OneFeed(f) == \A n, m \in DOMAIN fed : f \in fed[n].files /\ f \in fed[m].files => n = m

ReferencesInv ==
  /\ \A k \in Kind : \A r \in table[k] :
       /\ r.file \in DOMAIN dbFile
       /\ k = "include" => r.to \in DOMAIN dbFile
       /\ k \in {"reference", "declaration"} => r.symbol \in DOMAIN dbSymbol
  /\ \A r \in table["reference"] : OneFeed(r.file) => r.to \in DOMAIN dbSymbol \cup {NoSymbol}
  /\ \A p \in dbBaseOf : p[1] \in DOMAIN dbSymbol /\ p[2] \in DOMAIN dbSymbol
  /\ \A m \in DOMAIN dbOverride : {m, dbOverride[m]} \subseteq DOMAIN dbSymbol
  /\ \A r \in dbRefarg : r.file \in DOMAIN dbFile

IInv == TypeOK /\ FedInv /\ TodoInv /\ FilesInv /\ RowsInv /\ RelationsInv /\ ReferencesInv

-----------------------------------------------------------------------------
USE IndexesAssumption, BoundsAssumption

\* At first everything is empty.
LEMMA InitIInv == Init => IInv
<1> SUFFICES ASSUME Init
             PROVE  IInv
  OBVIOUS
<1>1. stage \notin Feeding /\ fed = <<>> /\ Past = {} /\ DOMAIN dbFile = {} /\ DOMAIN dbSymbol = {} /\ DOMAIN symbols = {}
      /\ DOMAIN dbOverride = {}
  BY DEF Init, Feeding, AfterFiles, AfterPaths, AfterSymbols, Past, EmptyFunction
<1>2. TypeOK
  BY <1>1 DEF Init, TypeOK
<1>3. FedInv
  BY <1>1 DEF Init, FedInv
<1>4. FilesInv
  BY <1>1 DEF Init, FilesInv, MemoryMirrorsDatabase, Feeding, AfterFiles
<1>5. RowsInv
  <2>1. \A k \in Kind : Written(k) = {}
    BY DEF Init, Written, After, AfterSymbols, Kind
  <2>2. \A k \in Kind : table[k] = {}
    BY DEF Init
  <2>3. QED
    BY <1>1, <2>1, <2>2 DEF RowsInv, Keys
<1>6. RelationsInv
  <2>1. SymbolsWritten = {} /\ BasesWritten = {}
    BY DEF Init, SymbolsWritten, BasesWritten, AfterSymbols
  <2>2. QED
    BY <1>1, <2>1 DEF Init, RelationsInv
<1>7. ReferencesInv
  <2>1. \A k \in Kind : table[k] = {}
    BY DEF Init
  <2>2. table["reference"] = {} /\ dbBaseOf = {} /\ dbRefarg = {}
    BY <2>1 DEF Init, Kind
  <2>3. QED
    BY <1>1, <2>1, <2>2 DEF ReferencesInv
<1>8. TodoInv
  BY DEF Init, TodoInv, Kind
<1>9. QED
  BY <1>2, <1>3, <1>4, <1>5, <1>6, <1>7, <1>8 DEF IInv

-----------------------------------------------------------------------------
\* A file that feed finds new is one that no feed before has indexed.
LEMMA PastFeeds ==
  ASSUME IInv
  PROVE  /\ stage \in Feeding => DOMAIN fed = Past \cup {Len(fed)} /\ Len(fed) \notin Past /\ Len(fed) \in DOMAIN fed
         /\ Past \subseteq DOMAIN fed
         /\ stage \in Feeding => tu \in Indexes /\ WellFormed(tu)
         /\ \A n \in DOMAIN fed : fed[n] \in Indexes /\ WellFormed(fed[n])
<1>1. fed \in Seq(Indexes) /\ tu \in Indexes
  BY DEF IInv, TypeOK
<1>2. \A n \in DOMAIN fed : fed[n] \in Indexes
  BY <1>1
<1>3. stage \in Feeding => Len(fed) \in DOMAIN fed
  BY <1>1 DEF IInv, FedInv
<1>4. QED
  BY <1>1, <1>2, <1>3 DEF Past

\* The steps between two stages.
LEMMA LeaveSteps ==
  ASSUME IInv,
         EndOfIncludes \/ EndOfReferences \/ EndOfBases \/ EndOfOverrides \/ EndOfDiagnostics \/ Close \/ Closed
  PROVE  IInv'
<1> USE DEF Leave, locals, memory, relations, database
<1>1. /\ UNCHANGED <<tu, newFiles, fed, pathsInserted, indexedFiles, symbols, dbFile, table, dbSymbol, dbBaseOf, dbOverride, dbRefarg>>
      /\ \/ stage = "include" /\ stage' = "symbols" /\ todo = {} /\ todo' = {}
         \/ stage = "reference" /\ stage' = "bases" /\ todo = {} /\ todo' = tu.baseOfs
         \/ stage = "bases" /\ stage' = "overrides" /\ todo = {} /\ todo' = tu.overrides
         \/ stage = "overrides" /\ stage' = "diagnostic" /\ todo = {} /\ todo' = {r.file : r \in tu.rows["diagnostic"]}
         \/ stage = "diagnostic" /\ stage' = "refargs" /\ todo = {} /\ todo' = {}
         \/ stage = "idle" /\ stage' = "closed" /\ todo' = todo
         \/ stage = "closed" /\ stage' = "closed" /\ todo' = todo
  BY DEF EndOfIncludes, EndOfReferences, EndOfBases, EndOfOverrides, EndOfDiagnostics, Close, Closed, vars
<1>2. Past' = Past /\ (stage' \in Feeding <=> stage \in Feeding)
  BY <1>1 DEF Past, Feeding, AfterFiles, AfterPaths, AfterSymbols
<1>3. TypeOK'
  BY <1>1 DEF IInv, TypeOK, Kind
<1>4. FedInv'
  BY <1>1, <1>2 DEF IInv, FedInv
<1>5. FilesInv'
  BY <1>1, <1>2 DEF IInv, FilesInv, MemoryMirrorsDatabase, IncludedFiles, AfterFiles, AfterPaths, AfterSymbols
<1>6. RowsInv'
  <2>1. \A k \in Kind : Written(k)' = Written(k)
    BY <1>1 DEF Written, After, AfterSymbols, Kind
  <2>2. QED
    BY <1>1, <1>2, <2>1 DEF IInv, RowsInv, Shaped, Keys, Key
<1>7. RelationsInv'
  <2>1. SymbolsWritten' = SymbolsWritten /\ BasesWritten' = BasesWritten
    BY <1>1 DEF SymbolsWritten, BasesWritten, AfterSymbols
  <2>2. QED
    BY <1>1, <1>2, <2>1 DEF IInv, RelationsInv
<1>8. ReferencesInv'
  BY <1>1 DEF IInv, ReferencesInv, OneFeed
<1>9. TodoInv'
  BY <1>1, PastFeeds DEF IInv, TodoInv, WellFormed, Kind, Feeding, AfterFiles, AfterPaths, AfterSymbols
<1>10. QED
  BY <1>3, <1>4, <1>5, <1>6, <1>7, <1>8, <1>9 DEF IInv

\* A feed begins.
LEMMA BeginStep ==
  ASSUME IInv, NEW x \in Indexes, BeginFeed(x)
  PROVE  IInv'
<1>1. /\ stage = "idle" /\ stage' = "files" /\ tu' = x /\ fed' = Append(fed, x) /\ newFiles' = x.files \ indexedFiles
      /\ Len(fed) < NbFeeds
      /\ UNCHANGED <<todo, pathsInserted, indexedFiles, symbols, dbFile, table, dbSymbol, dbBaseOf, dbOverride, dbRefarg>>
  BY DEF BeginFeed, memory, database, relations
<1>2. fed \in Seq(Indexes)
  BY DEF IInv, TypeOK
<1>3. /\ fed' \in Seq(Indexes) /\ Len(fed') = Len(fed) + 1 /\ DOMAIN fed' = DOMAIN fed \cup {Len(fed')}
      /\ Len(fed') \notin DOMAIN fed /\ fed'[Len(fed')] = x /\ fed' # <<>>
      /\ \A n \in DOMAIN fed : fed'[n] = fed[n]
  BY <1>1, <1>2
<1>4. Past = DOMAIN fed /\ Past' = DOMAIN fed /\ stage \notin Feeding /\ stage' \in Feeding
  BY <1>1, <1>3 DEF Past, Feeding, AfterFiles, AfterPaths, AfterSymbols
<1>5. TypeOK'
  BY <1>1, <1>3 DEF IInv, TypeOK, BoundsAssumption
<1>6. FedInv'
  BY <1>1, <1>3, <1>4 DEF IInv, FedInv
<1>7. FilesInv'
  BY <1>1, <1>4 DEF IInv, FilesInv, FedInv, MemoryMirrorsDatabase, AfterFiles, AfterPaths, AfterSymbols
<1>8. RowsInv'
  <2>1. ASSUME NEW k \in Kind
        PROVE  Written(k) = {} /\ Written(k)' = {}
    BY <1>1 DEF Written, After, AfterSymbols, Kind
  <2>2. \A k \in Kind : UNION {Keys(fed'[n].rows[k]) : n \in Past'} = UNION {Keys(fed[n].rows[k]) : n \in Past}
    BY <1>3, <1>4
  <2>3. QED
    BY <1>1, <2>1, <2>2 DEF IInv, RowsInv, Shaped, Key, Keys
<1>9. RelationsInv'
  <2>1. /\ UNION {DOMAIN fed'[n].symbols : n \in Past'} = UNION {DOMAIN fed[n].symbols : n \in Past}
        /\ UNION {fed'[n].baseOfs : n \in Past'} = UNION {fed[n].baseOfs : n \in Past}
    BY <1>3, <1>4
  <2>2. \A m \in DOMAIN dbOverride : \E n \in DOMAIN fed' : <<m, dbOverride[m]>> \in fed'[n].overrides
    BY <1>3 DEF IInv, RelationsInv
  <2>3. SymbolsWritten = {} /\ SymbolsWritten' = {} /\ BasesWritten = {} /\ BasesWritten' = {}
    BY <1>1 DEF SymbolsWritten, BasesWritten, AfterSymbols
  <2>4. QED
    BY <1>1, <2>1, <2>2, <2>3 DEF IInv, RelationsInv
<1>10. ReferencesInv'
  <2>1. \A f : OneFeed(f)' => OneFeed(f)
    BY <1>3 DEF OneFeed
  <2>2. QED
    BY <1>1, <2>1 DEF IInv, ReferencesInv
<1>11. TodoInv'
  BY <1>1 DEF TodoInv, Kind
<1>12. QED
  BY <1>5, <1>6, <1>7, <1>8, <1>9, <1>10, <1>11 DEF IInv

\* The files that are new get their row and their content.
LEMMA FilesStep ==
  ASSUME IInv, FeedFiles
  PROVE  IInv'
<1>1. /\ stage = "files" /\ stage' = "paths"
      /\ dbFile' = Over([f \in newFiles |-> "content"], dbFile) /\ pathsInserted' = pathsInserted \cup newFiles
      /\ UNCHANGED <<todo, tu, newFiles, fed, indexedFiles, symbols, table, dbSymbol, dbBaseOf, dbOverride, dbRefarg>>
  BY DEF FeedFiles, InsertFiles, locals, relations
<1>2. /\ DOMAIN dbFile' = DOMAIN dbFile \cup newFiles
      /\ \A f \in newFiles : dbFile'[f] = "content"
      /\ \A f \in DOMAIN dbFile \ newFiles : dbFile'[f] = dbFile[f]
  BY <1>1 DEF Over
<1>3. Past' = Past /\ stage \in Feeding /\ stage' \in Feeding
  BY <1>1 DEF Past, Feeding, AfterFiles, AfterPaths, AfterSymbols
<1>4. TypeOK'
  <2>1. newFiles \subseteq File
    BY DEF IInv, TypeOK, File
  <2>2. \A f \in DOMAIN dbFile' : f \in File /\ dbFile'[f] \in {"path", "content"}
    BY <1>2, <2>1 DEF IInv, TypeOK
  <2>3. QED
    BY <1>1, <2>1, <2>2 DEF IInv, TypeOK
<1>5. FedInv'
  BY <1>1, <1>3 DEF IInv, FedInv
<1>6. FilesInv'
  BY <1>1, <1>2 DEF IInv, FilesInv, MemoryMirrorsDatabase, AfterFiles, AfterPaths, AfterSymbols
<1>7. RowsInv'
  <2>1. \A k \in Kind : Written(k)' = Written(k)
    BY <1>1 DEF Written, After, AfterSymbols, Kind
  <2>2. QED
    BY <1>1, <1>3, <2>1 DEF IInv, RowsInv, Shaped, Key, Keys
<1>8. RelationsInv'
  <2>1. SymbolsWritten' = SymbolsWritten /\ BasesWritten' = BasesWritten
    BY <1>1 DEF SymbolsWritten, BasesWritten, AfterSymbols
  <2>2. QED
    BY <1>1, <1>3, <2>1 DEF IInv, RelationsInv
<1>9. ReferencesInv'
  BY <1>1, <1>2 DEF IInv, ReferencesInv, OneFeed
<1>10. TodoInv'
  BY <1>1 DEF TodoInv, Kind
<1>11. QED
  BY <1>4, <1>5, <1>6, <1>7, <1>8, <1>9, <1>10 DEF IInv

\* ... and the included ones at least a row.
LEMMA PathsStep ==
  ASSUME IInv, FeedIncludedPaths
  PROVE  IInv'
<1> DEFINE newIncludes == IncludedFiles \ pathsInserted
<1>1. /\ stage = "paths" /\ stage' = "include" /\ todo' = {r.file : r \in tu.rows["include"]}
      /\ dbFile' = Over(dbFile, [f \in newIncludes |-> "path"]) /\ pathsInserted' = pathsInserted \cup newIncludes
      /\ UNCHANGED <<tu, newFiles, fed, indexedFiles, symbols, table, dbSymbol, dbBaseOf, dbOverride, dbRefarg>>
  BY DEF FeedIncludedPaths, InsertFilePaths, locals, relations
<1>2. /\ DOMAIN dbFile' = DOMAIN dbFile \cup newIncludes
      /\ \A f \in DOMAIN dbFile : dbFile'[f] = dbFile[f]
      /\ \A f \in newIncludes \ DOMAIN dbFile : dbFile'[f] = "path"
  BY <1>1 DEF Over
<1>3. Past' = Past /\ stage \in Feeding /\ stage' \in Feeding
  BY <1>1 DEF Past, Feeding, AfterFiles, AfterPaths, AfterSymbols
<1>4. TypeOK'
  <2>1. newIncludes \subseteq File
    BY DEF IInv, TypeOK, File, IncludedFiles
  <2>2. \A f \in DOMAIN dbFile' : f \in File /\ dbFile'[f] \in {"path", "content"}
    BY <1>2, <2>1 DEF IInv, TypeOK
  <2>3. QED
    BY <1>1, <2>1, <2>2 DEF IInv, TypeOK, Kind
<1>5. FedInv'
  BY <1>1, <1>3 DEF IInv, FedInv
<1>6. FilesInv'
  <2>1. MemoryMirrorsDatabase'
    BY <1>1, <1>2 DEF IInv, FilesInv, MemoryMirrorsDatabase
  <2>2. IncludedFiles \subseteq DOMAIN dbFile'
    BY <1>2 DEF IInv, FilesInv, MemoryMirrorsDatabase
  <2>3. "content" # "path"
    OBVIOUS
  <2>4. \A f \in DOMAIN dbFile' : dbFile'[f] = "content" => f \in DOMAIN dbFile /\ dbFile[f] = "content"
    BY <1>2, <2>3
  <2>5. QED
    BY <1>1, <1>2, <2>1, <2>2, <2>4 DEF IInv, FilesInv, IncludedFiles, AfterFiles, AfterPaths, AfterSymbols
<1>7. RowsInv'
  <2>1. \A k \in Kind : Written(k)' = Written(k)
    BY <1>1 DEF Written, After, AfterSymbols, Kind
  <2>2. QED
    BY <1>1, <1>3, <2>1 DEF IInv, RowsInv, Shaped, Key, Keys
<1>8. RelationsInv'
  <2>1. SymbolsWritten' = SymbolsWritten /\ BasesWritten' = BasesWritten
    BY <1>1 DEF SymbolsWritten, BasesWritten, AfterSymbols
  <2>2. QED
    BY <1>1, <1>3, <2>1 DEF IInv, RelationsInv
<1>9. ReferencesInv'
  BY <1>1, <1>2 DEF IInv, ReferencesInv, OneFeed
<1>10. TodoInv'
  BY <1>1, <1>3, PastFeeds DEF TodoInv, WellFormed, Kind
<1>11. QED
  BY <1>4, <1>5, <1>6, <1>7, <1>8, <1>9, <1>10 DEF IInv

\* The symbols in memory and those in the database grow alike.
LEMMA SymbolsStep ==
  ASSUME IInv, FeedSymbols
  PROVE  IInv'
<1> DEFINE new == DOMAIN tu.symbols \ DOMAIN symbols
           old == DOMAIN tu.symbols \cap DOMAIN symbols
           updated == {s \in old : FlagsNeedUpdate(s)}
           inMemory == Over([s \in old |-> symbols[s] \cup tu.symbols[s]], Over(symbols, tu.symbols))
<1>1. /\ stage = "symbols" /\ stage' = "reference" /\ todo' = {r.file : r \in tu.rows["reference"]}
      /\ symbols' = inMemory /\ dbSymbol' = Over([s \in new \cup updated |-> inMemory[s]], dbSymbol)
      /\ UNCHANGED <<tu, newFiles, fed, pathsInserted, indexedFiles, dbFile, table, dbBaseOf, dbOverride, dbRefarg>>
  BY DEF FeedSymbols, locals, relations
<1>2. /\ DOMAIN symbols' = DOMAIN symbols \cup DOMAIN tu.symbols
      /\ DOMAIN dbSymbol' = DOMAIN dbSymbol \cup DOMAIN tu.symbols
  <2>1. DOMAIN inMemory = DOMAIN symbols \cup DOMAIN tu.symbols
    BY DEF Over
  <2>2. DOMAIN dbSymbol' = DOMAIN dbSymbol \cup new \cup updated
    BY <1>1 DEF Over
  <2>3. DOMAIN dbSymbol = DOMAIN symbols
    BY DEF IInv, FilesInv, MemoryMirrorsDatabase
  <2>4. QED
    BY <1>1, <2>1, <2>2, <2>3
<1>3. Past' = Past /\ stage \in Feeding /\ stage' \in Feeding
  BY <1>1 DEF Past, Feeding, AfterFiles, AfterPaths, AfterSymbols
<1>4. TypeOK'
  <2>1. DOMAIN tu.symbols \subseteq SymbolId
    BY DEF IInv, TypeOK, SymbolId
  <2>2. QED
    BY <1>1, <1>2, <2>1 DEF IInv, TypeOK, Kind
<1>5. FedInv'
  BY <1>1, <1>3 DEF IInv, FedInv
<1>6. FilesInv'
  BY <1>1, <1>2 DEF IInv, FilesInv, MemoryMirrorsDatabase, IncludedFiles, AfterFiles, AfterPaths, AfterSymbols
<1>7. RowsInv'
  <2>1. \A k \in Kind : Written(k)' = Written(k)
    BY <1>1 DEF Written, After, AfterSymbols, Kind
  <2>2. QED
    BY <1>1, <1>3, <2>1 DEF IInv, RowsInv, Shaped, Key, Keys
<1>8. RelationsInv'
  <2>1. SymbolsWritten = {} /\ SymbolsWritten' = DOMAIN tu.symbols /\ BasesWritten = {} /\ BasesWritten' = {}
    BY <1>1 DEF SymbolsWritten, BasesWritten, AfterSymbols
  <2>2. QED
    BY <1>1, <1>2, <1>3, <2>1 DEF IInv, RelationsInv
<1>9. ReferencesInv'
  BY <1>1, <1>2 DEF IInv, ReferencesInv, OneFeed
<1>10. TodoInv'
  BY <1>1, <1>3, PastFeeds DEF TodoInv, WellFormed, Kind
<1>11. QED
  BY <1>4, <1>5, <1>6, <1>7, <1>8, <1>9, <1>10 DEF IInv

LEMMA PairParts ==
  ASSUME NEW D, NEW p \in D \X D
  PROVE  p = <<p[1], p[2]>> /\ p[1] \in D /\ p[2] \in D
OBVIOUS

\* The relations are between symbols that are in the database already.
LEMMA BaseOfStep ==
  ASSUME IInv, NEW p \in todo, FeedBaseOf(p)
  PROVE  IInv'
<1>1. /\ stage = "bases" /\ stage' = stage /\ todo' = todo \ {p} /\ dbBaseOf' = dbBaseOf \cup {p}
      /\ UNCHANGED <<tu, newFiles, fed, pathsInserted, indexedFiles, symbols, dbFile, table, dbSymbol, dbOverride, dbRefarg>>
  BY DEF FeedBaseOf, locals, memory
<1>2. p \in tu.baseOfs /\ p[1] \in DOMAIN dbSymbol /\ p[2] \in DOMAIN dbSymbol
  <2>1. p \in tu.baseOfs /\ DOMAIN tu.symbols \subseteq DOMAIN dbSymbol
    BY <1>1 DEF IInv, RelationsInv, SymbolsWritten, AfterSymbols
  <2>2. p \in (DOMAIN tu.symbols) \X (DOMAIN tu.symbols)
    BY <1>1, <2>1, PastFeeds DEF WellFormed, Feeding, AfterFiles, AfterPaths, AfterSymbols
  <2>3. QED
    BY <2>1, <2>2, PairParts
<1>3. Past' = Past /\ stage \in Feeding /\ stage' \in Feeding
  BY <1>1 DEF Past, Feeding, AfterFiles, AfterPaths, AfterSymbols
<1>4. TypeOK'
  BY <1>1 DEF IInv, TypeOK
<1>5. FedInv'
  BY <1>1, <1>3 DEF IInv, FedInv
<1>6. FilesInv'
  BY <1>1 DEF IInv, FilesInv, MemoryMirrorsDatabase, IncludedFiles
<1>7. RowsInv'
  <2>1. \A k \in Kind : Written(k)' = Written(k)
    BY <1>1 DEF Written, After, AfterSymbols, Kind
  <2>2. QED
    BY <1>1, <1>3, <2>1 DEF IInv, RowsInv, Shaped, Key, Keys
<1>8. RelationsInv'
  <2>1. SymbolsWritten' = SymbolsWritten /\ BasesWritten' = BasesWritten \cup {p}
    BY <1>1, <1>2 DEF SymbolsWritten, BasesWritten, AfterSymbols
  <2>2. QED
    BY <1>1, <1>2, <1>3, <2>1 DEF IInv, RelationsInv
<1>9. ReferencesInv'
  BY <1>1, <1>2 DEF IInv, ReferencesInv, OneFeed
<1>10. TodoInv'
  BY <1>1 DEF TodoInv, Kind
<1>11. QED
  BY <1>4, <1>5, <1>6, <1>7, <1>8, <1>9, <1>10 DEF IInv

LEMMA OverrideStep ==
  ASSUME IInv, NEW p \in todo, FeedOverride(p)
  PROVE  IInv'
<1>1. /\ stage = "overrides" /\ stage' = stage /\ todo' = todo \ {p}
      /\ dbOverride' = Over(dbOverride, [m \in {p[1]} |-> p[2]])
      /\ UNCHANGED <<tu, newFiles, fed, pathsInserted, indexedFiles, symbols, dbFile, table, dbSymbol, dbBaseOf, dbRefarg>>
  BY DEF FeedOverride, locals, memory
<1>2. p \in tu.overrides /\ p = <<p[1], p[2]>> /\ p[1] \in DOMAIN dbSymbol /\ p[2] \in DOMAIN dbSymbol
  <2>1. p \in tu.overrides /\ DOMAIN tu.symbols \subseteq DOMAIN dbSymbol
    BY <1>1 DEF IInv, RelationsInv, SymbolsWritten, AfterSymbols
  <2>2. p \in (DOMAIN tu.symbols) \X (DOMAIN tu.symbols)
    BY <1>1, <2>1, PastFeeds DEF WellFormed, Feeding, AfterFiles, AfterPaths, AfterSymbols
  <2>3. QED
    BY <2>1, <2>2, PairParts
<1>3. Past' = Past /\ stage \in Feeding /\ stage' \in Feeding
  BY <1>1 DEF Past, Feeding, AfterFiles, AfterPaths, AfterSymbols
<1>0. /\ DOMAIN dbOverride' = DOMAIN dbOverride \cup {p[1]}
      /\ \A m \in DOMAIN dbOverride : dbOverride'[m] = dbOverride[m]
      /\ p[1] \notin DOMAIN dbOverride => dbOverride'[p[1]] = p[2]
  BY <1>1 DEF Over
<1>4. TypeOK'
  <2>1. DOMAIN dbSymbol \subseteq SymbolId
    BY DEF IInv, TypeOK
  <2>2. QED
    BY <1>1, <1>2, <1>0, <2>1 DEF IInv, TypeOK
<1>5. FedInv'
  BY <1>1, <1>3 DEF IInv, FedInv
<1>6. FilesInv'
  BY <1>1 DEF IInv, FilesInv, MemoryMirrorsDatabase, IncludedFiles
<1>7. RowsInv'
  <2>1. \A k \in Kind : Written(k)' = Written(k)
    BY <1>1 DEF Written, After, AfterSymbols, Kind
  <2>2. QED
    BY <1>1, <1>3, <2>1 DEF IInv, RowsInv, Shaped, Key, Keys
<1>8. RelationsInv'
  <2>1. ASSUME NEW m \in DOMAIN dbOverride'
        PROVE  \E n \in DOMAIN fed : <<m, dbOverride'[m]>> \in fed[n].overrides
    <3>1. CASE m \in DOMAIN dbOverride
      BY <3>1, <1>0 DEF IInv, RelationsInv
    <3>2. CASE m \notin DOMAIN dbOverride
      <4>1. <<m, dbOverride'[m]>> = p
        BY <1>2, <1>0, <2>1, <3>2
      <4>2. Len(fed) \in DOMAIN fed /\ tu = fed[Len(fed)]
        BY <1>3, PastFeeds DEF IInv, FedInv
      <4>3. QED
        BY <1>2, <4>1, <4>2
    <3>3. QED
      BY <3>1, <3>2
  <2>2. SymbolsWritten' = SymbolsWritten /\ BasesWritten' = BasesWritten
    BY <1>1 DEF SymbolsWritten, BasesWritten, AfterSymbols
  <2>3. QED
    BY <1>1, <1>3, <2>1, <2>2 DEF IInv, RelationsInv
<1>9. ReferencesInv'
  <2>1. \A m \in DOMAIN dbOverride' : {m, dbOverride'[m]} \subseteq DOMAIN dbSymbol
    BY <1>2, <1>0 DEF IInv, ReferencesInv
  <2>2. QED
    BY <1>1, <2>1 DEF IInv, ReferencesInv, OneFeed
<1>10. TodoInv'
  BY <1>1 DEF TodoInv, Kind
<1>11. QED
  BY <1>4, <1>5, <1>6, <1>7, <1>8, <1>9, <1>10 DEF IInv

\* The arguments passed by reference are in files of the index.
LEMMA RefargsStep ==
  ASSUME IInv, FeedRefargs
  PROVE  IInv'
<1>1. /\ stage = "refargs" /\ stage' = "declaration" /\ todo' = {r.file : r \in tu.rows["declaration"]}
      /\ dbRefarg' = dbRefarg \cup {[file |-> r.file, key |-> r.key, by |-> Len(fed)] : r \in tu.refargs}
      /\ UNCHANGED <<tu, newFiles, fed, pathsInserted, indexedFiles, symbols, dbFile, table, dbSymbol, dbBaseOf, dbOverride>>
  BY DEF FeedRefargs, locals, memory, relations
<1>2. tu.files \subseteq DOMAIN dbFile
  <2>1. newFiles = tu.files \ indexedFiles
    BY <1>1 DEF IInv, FedInv, Feeding, AfterFiles, AfterPaths, AfterSymbols
  <2>2. newFiles \subseteq DOMAIN dbFile /\ indexedFiles \subseteq DOMAIN dbFile
    BY <1>1 DEF IInv, FilesInv, MemoryMirrorsDatabase, AfterFiles, AfterPaths, AfterSymbols
  <2>3. QED
    BY <2>1, <2>2
<1>3. Past' = Past /\ stage \in Feeding /\ stage' \in Feeding
  BY <1>1 DEF Past, Feeding, AfterFiles, AfterPaths, AfterSymbols
<1>4. TypeOK'
  BY <1>1 DEF IInv, TypeOK, Kind
<1>5. FedInv'
  BY <1>1, <1>3 DEF IInv, FedInv
<1>6. FilesInv'
  BY <1>1 DEF IInv, FilesInv, MemoryMirrorsDatabase, IncludedFiles, AfterFiles, AfterPaths, AfterSymbols
<1>7. RowsInv'
  <2>1. \A k \in Kind : Written(k)' = Written(k)
    BY <1>1 DEF Written, After, AfterSymbols, Kind
  <2>2. QED
    BY <1>1, <1>3, <2>1 DEF IInv, RowsInv, Shaped, Key, Keys
<1>8. RelationsInv'
  <2>1. SymbolsWritten' = SymbolsWritten /\ BasesWritten' = BasesWritten
    BY <1>1 DEF SymbolsWritten, BasesWritten, AfterSymbols
  <2>2. QED
    BY <1>1, <1>3, <2>1 DEF IInv, RelationsInv
<1>9. ReferencesInv'
  <2>1. \A r \in tu.refargs : r.file \in DOMAIN dbFile
    BY <1>2, <1>3, PastFeeds DEF WellFormed
  <2>2. \A r \in dbRefarg' : r.file \in DOMAIN dbFile
    BY <1>1, <2>1 DEF IInv, ReferencesInv
  <2>3. QED
    BY <1>1, <2>2 DEF IInv, ReferencesInv, OneFeed
<1>10. TodoInv'
  BY <1>1, <1>3, PastFeeds DEF TodoInv, WellFormed, Kind
<1>11. QED
  BY <1>4, <1>5, <1>6, <1>7, <1>8, <1>9, <1>10 DEF IInv

\* A feed ends: what it has written is what past feeds have written.
LEMMA EndFeedStep ==
  ASSUME IInv, EndFeed
  PROVE  IInv'
<1>1. /\ stage = "declaration" /\ todo = {} /\ stage' = "idle" /\ indexedFiles' = indexedFiles \cup newFiles
      /\ UNCHANGED <<todo, tu, newFiles, fed, pathsInserted, symbols, dbFile, table, dbSymbol, dbBaseOf, dbOverride, dbRefarg>>
  BY DEF EndFeed, locals, database, relations
<1>2. /\ stage \in Feeding /\ stage' \notin Feeding /\ Past' = DOMAIN fed
      /\ DOMAIN fed = Past \cup {Len(fed)} /\ tu = fed[Len(fed)]
  BY <1>1, PastFeeds DEF IInv, FedInv, Past, Feeding, AfterFiles, AfterPaths, AfterSymbols
<1>3. newFiles = tu.files \ indexedFiles
  BY <1>2 DEF IInv, FedInv
<1>4. TypeOK'
  <2>1. newFiles \subseteq File
    BY DEF IInv, TypeOK, File
  <2>2. QED
    BY <1>1, <2>1 DEF IInv, TypeOK
<1>5. FedInv'
  <2>1. indexedFiles' = (UNION {fed[n].files : n \in Past}) \cup tu.files
    BY <1>1, <1>3 DEF IInv, FedInv
  <2>2. UNION {fed[n].files : n \in DOMAIN fed} = (UNION {fed[n].files : n \in Past}) \cup tu.files
    BY <1>2
  <2>3. indexedFiles' = UNION {fed'[n].files : n \in Past'}
    BY <1>1, <1>2, <2>1, <2>2
  <2>4. QED
    BY <1>1, <1>2, <2>3 DEF FedInv
<1>6. FilesInv'
  BY <1>1 DEF IInv, FilesInv, MemoryMirrorsDatabase, AfterFiles, AfterPaths, AfterSymbols
<1>7. RowsInv'
  <2>1. ASSUME NEW k \in Kind
        PROVE  Written(k) = tu.rows[k] /\ Written(k)' = {}
    BY <1>1 DEF Written, After, AfterSymbols, Kind
  <2>2. \A k \in Kind : UNION {Keys(fed[n].rows[k]) : n \in DOMAIN fed} =
                          (UNION {Keys(fed[n].rows[k]) : n \in Past}) \cup Keys(tu.rows[k])
    BY <1>2
  <2>3. Keys({}) = {}
    BY DEF Keys
  <2>4. ASSUME NEW k \in Kind
        PROVE  Keys(table'[k]) = (UNION {Keys(fed'[n].rows[k]) : n \in Past'}) \cup Keys(Written(k)')
    <3>1. Keys(table[k]) = (UNION {Keys(fed[n].rows[k]) : n \in Past}) \cup Keys(tu.rows[k])
      BY <2>1 DEF IInv, RowsInv
    <3>2. UNION {Keys(fed'[n].rows[k]) : n \in Past'} = UNION {Keys(fed[n].rows[k]) : n \in DOMAIN fed}
      BY <1>1, <1>2
    <3>3. Keys(Written(k)') = {} /\ table' = table
      BY <1>1, <2>1, <2>3
    <3>4. QED
      BY <2>2, <3>1, <3>2, <3>3
  <2>5. \A k \in Kind : \A r \in table'[k] : Shaped(r)
    BY <1>1 DEF IInv, RowsInv
  <2>6. \A k \in Kind : \A c, d \in table'[k] : Key(c) = Key(d) => c.by = d.by
    BY <1>1 DEF IInv, RowsInv
  <2>7. QED
    BY <2>4, <2>5, <2>6 DEF RowsInv, Shaped, Key, Keys
<1>8. RelationsInv'
  <2>1. /\ UNION {DOMAIN fed[n].symbols : n \in DOMAIN fed} = (UNION {DOMAIN fed[n].symbols : n \in Past}) \cup DOMAIN tu.symbols
        /\ UNION {fed[n].baseOfs : n \in DOMAIN fed} = (UNION {fed[n].baseOfs : n \in Past}) \cup tu.baseOfs
    BY <1>2
  <2>2. SymbolsWritten = DOMAIN tu.symbols /\ SymbolsWritten' = {} /\ BasesWritten = tu.baseOfs /\ BasesWritten' = {}
    BY <1>1 DEF SymbolsWritten, BasesWritten, AfterSymbols
  <2>3. DOMAIN dbSymbol' = (UNION {DOMAIN fed'[n].symbols : n \in Past'}) \cup SymbolsWritten'
    <3>1. DOMAIN dbSymbol = UNION {DOMAIN fed[n].symbols : n \in DOMAIN fed}
      BY <2>1, <2>2 DEF IInv, RelationsInv
    <3>2. QED
      BY <1>1, <1>2, <2>2, <3>1
  <2>4. dbBaseOf' = (UNION {fed'[n].baseOfs : n \in Past'}) \cup BasesWritten'
    <3>1. dbBaseOf = UNION {fed[n].baseOfs : n \in DOMAIN fed}
      BY <2>1, <2>2 DEF IInv, RelationsInv
    <3>2. QED
      BY <1>1, <1>2, <2>2, <3>1
  <2>5. QED
    BY <1>1, <1>2, <2>3, <2>4 DEF IInv, RelationsInv
<1>9. ReferencesInv'
  BY <1>1 DEF IInv, ReferencesInv, OneFeed
<1>10. TodoInv'
  BY <1>1 DEF TodoInv, Kind
<1>11. QED
  BY <1>4, <1>5, <1>6, <1>7, <1>8, <1>9, <1>10 DEF IInv

-----------------------------------------------------------------------------
\* The rows of one file.

\* A row that is read back is a row of the table, with another parent maybe.
LEMMA LoadedRows ==
  ASSUME IInv, NEW k \in Kind, NEW f
  PROVE  /\ \A r \in Load(k, f) : /\ r.file = f /\ Shaped(r)
                                  /\ \E q \in table[k] : /\ Key(q) = Key(r) /\ q.by = r.by
                                                         /\ k # "reference" => q.to = r.to
         /\ \A q \in table[k] : q.file = f => Key(q) \in Keys(Load(k, f))
<1> DEFINE rows == {r \in table[k] : r.file = f}
<1>1. \A r \in table[k] : Shaped(r)
  BY DEF IInv, RowsInv
<1>2. CASE k # "reference"
  <2>1. Load(k, f) = rows
    BY <1>2 DEF Load
  <2>2. QED
    BY <1>1, <1>2, <2>1 DEF Keys
<1>3. CASE k = "reference"
  <2>1. Load(k, f) = {[r EXCEPT !.to = ThroughInt(@)] : r \in rows}
    BY <1>3 DEF Load
  <2>2. ASSUME NEW q \in rows
        PROVE  LET r == [q EXCEPT !.to = ThroughInt(@)] IN Key(q) = Key(r) /\ q.by = r.by /\ r.file = f /\ Shaped(r)
    <3>1. q = [file |-> q.file, key |-> q.key, symbol |-> q.symbol, to |-> q.to, by |-> q.by] /\ q.file = f
      BY <1>1 DEF Shaped
    <3>2. [q EXCEPT !.to = ThroughInt(@)] =
            [file |-> q.file, key |-> q.key, symbol |-> q.symbol, to |-> ThroughInt(q.to), by |-> q.by]
      BY <3>1
    <3>3. QED
      BY <3>1, <3>2 DEF Key, Shaped
  <2>3. \A r \in Load(k, f) : \E q \in rows : r = [q EXCEPT !.to = ThroughInt(@)]
    BY <2>1
  <2>4. ASSUME NEW r \in Load(k, f)
        PROVE  r.file = f /\ Shaped(r) /\ \E q \in table[k] : Key(q) = Key(r) /\ q.by = r.by
    <3>1. PICK q \in rows : r = [q EXCEPT !.to = ThroughInt(@)]
      BY <2>3
    <3>2. Key(q) = Key(r) /\ q.by = r.by /\ r.file = f /\ Shaped(r)
      BY <2>2, <3>1
    <3>3. QED
      BY <3>2
  <2>5. ASSUME NEW q \in rows
        PROVE  Key(q) \in Keys(Load(k, f))
    <3>1. [q EXCEPT !.to = ThroughInt(@)] \in Load(k, f)
      BY <2>1
    <3>2. Key([q EXCEPT !.to = ThroughInt(@)]) = Key(q)
      BY <2>2
    <3>3. QED
      BY <3>1, <3>2 DEF Keys
  <2>6. QED
    BY <1>3, <2>4, <2>5
<1>4. QED
  BY <1>2, <1>3

\* What the current feed brings for a file.
LEMMA IncomingRows ==
  ASSUME NEW k, NEW f
  PROVE  /\ \A r \in Incoming(k, f) : /\ r.file = f /\ Shaped(r) /\ r.by = Len(fed)
                                      /\ \E q \in tu.rows[k] : q.file = f /\ Key(q) = Key(r) /\ q.symbol = r.symbol /\ q.to = r.to
         /\ Keys(Incoming(k, f)) = Keys({q \in tu.rows[k] : q.file = f})
<1>1. \A r \in Incoming(k, f) : /\ r.file = f /\ Shaped(r) /\ r.by = Len(fed)
                                /\ \E q \in tu.rows[k] : q.file = f /\ Key(q) = Key(r) /\ q.symbol = r.symbol /\ q.to = r.to
  BY DEF Incoming, Shaped, Key
<1>2. ASSUME NEW q \in tu.rows[k], q.file = f
      PROVE  \E r \in Incoming(k, f) : Key(q) = Key(r)
  <2> DEFINE row == [file |-> q.file, key |-> q.key, symbol |-> q.symbol, to |-> q.to, by |-> Len(fed)]
  <2>1. row \in Incoming(k, f)
    BY <1>2 DEF Incoming
  <2>2. Key(q) = Key(row)
    BY DEF Key
  <2>3. QED
    BY <2>1, <2>2
<1>3. QED
  BY <1>1, <1>2 DEF Keys

\* Rows with one key are in one file.
LEMMA KeyParts ==
  ASSUME NEW a, NEW b, Key(a) = Key(b)
  PROVE  a.file = b.file /\ a.symbol = b.symbol
BY DEF Key

\* A file that is not indexed yet has no row but those of the current feed.
LEMMA NewFileHasNoRows ==
  ASSUME IInv, NEW k \in Kind, stage = k, NEW f \in todo, f \notin indexedFiles
  PROVE  \A q \in table[k] : q.file # f
<1> SUFFICES ASSUME NEW q \in table[k], q.file = f
             PROVE  FALSE
  OBVIOUS
<1>1. Key(q) \in (UNION {Keys(fed[n].rows[k]) : n \in Past}) \cup Keys(Written(k))
  <2>1. Key(q) \in Keys(table[k])
    BY DEF Keys
  <2>2. QED
    BY <2>1 DEF IInv, RowsInv
<1>2. CASE Key(q) \in Keys(Written(k))
  <2>1. PICK p \in Written(k) : Key(q) = Key(p)
    BY <1>2 DEF Keys
  <2>2. p.file = f
    BY <2>1, KeyParts
  <2>3. k \notin After[k]
    BY DEF After, AfterSymbols, Kind
  <2>4. QED
    BY <2>2, <2>3 DEF Written
<1>3. CASE Key(q) \in UNION {Keys(fed[n].rows[k]) : n \in Past}
  <2>1. PICK n \in Past : Key(q) \in Keys(fed[n].rows[k])
    BY <1>3
  <2>2. PICK p \in fed[n].rows[k] : Key(q) = Key(p)
    BY <2>1 DEF Keys
  <2>3. p.file = f
    BY <2>2, KeyParts
  <2>4. f \in fed[n].files
    BY <2>1, <2>2, <2>3, PastFeeds DEF WellFormed
  <2>5. QED
    BY <2>4 DEF IInv, FedInv
<1>4. QED
  BY <1>1, <1>2, <1>3

\* What a transaction on one file does to its table: the rows of the index are
\* added, none is lost, and none is there twice.
LEMMA RowsFed ==
  ASSUME IInv, NEW k \in Kind, NEW f \in todo, FeedRows(k, f)
  PROVE  /\ DOMAIN table' = Kind /\ \A j \in Kind \ {k} : table'[j] = table[j]
         /\ Keys(table'[k]) = Keys(table[k]) \cup Keys(Incoming(k, f))
         /\ \A r \in table'[k] : r \in table[k] \/ r \in Incoming(k, f) \/ (f \in indexedFiles /\ r \in Load(k, f))
         /\ \A a, b \in table'[k] : Key(a) = Key(b) => a.by = b.by
<1>1. stage = k /\ (IF f \in indexedFiles THEN MergeRows(k, f) ELSE InsertRows(k, f)) /\ DOMAIN table = Kind
  BY DEF FeedRows, IInv, TypeOK
<1>2. \A a, b \in table[k] : Key(a) = Key(b) => a.by = b.by
  BY DEF IInv, RowsInv
<1>3. CASE f \in indexedFiles
  <2>1. PICK merged \in OnePerKey(Load(k, f) \cup Incoming(k, f)) :
               table' = [table EXCEPT ![k] = {r \in @ : r.file # f} \cup merged]
    BY <1>1, <1>3 DEF MergeRows
  <2>2. /\ merged \subseteq Load(k, f) \cup Incoming(k, f)
        /\ Keys(merged) = Keys(Load(k, f) \cup Incoming(k, f))
        /\ \A a, b \in merged : Key(a) = Key(b) => a = b
    BY DEF OnePerKey
  <2>3. /\ DOMAIN table' = Kind /\ \A j \in Kind \ {k} : table'[j] = table[j]
        /\ table'[k] = {r \in table[k] : r.file # f} \cup merged
    BY <1>1, <2>1
  <2>4. \A r \in merged : r.file = f
    <3>1. \A r \in Load(k, f) : r.file = f
      BY LoadedRows
    <3>2. \A r \in Incoming(k, f) : r.file = f
      BY IncomingRows
    <3>3. QED
      BY <2>2, <3>1, <3>2
  <2>5. Keys(table'[k]) = Keys(table[k]) \cup Keys(Incoming(k, f))
    <3>1. Keys(merged) = Keys(Load(k, f)) \cup Keys(Incoming(k, f))
      BY <2>2 DEF Keys
    <3>2. Keys(Load(k, f)) \subseteq Keys(table[k])
      BY LoadedRows DEF Keys
    <3>3. Keys(table'[k]) = Keys({r \in table[k] : r.file # f}) \cup Keys(merged)
      BY <2>3 DEF Keys
    <3>4. Keys({r \in table[k] : r.file # f}) \subseteq Keys(table[k])
      BY DEF Keys
    <3>5. Keys(table[k]) \subseteq Keys({r \in table[k] : r.file # f}) \cup Keys(Load(k, f))
      BY LoadedRows DEF Keys
    <3>6. QED
      BY <3>1, <3>2, <3>3, <3>4, <3>5
  <2>6. \A a, b \in table'[k] : Key(a) = Key(b) => a.by = b.by
    BY <1>2, <2>2, <2>3, <2>4, KeyParts
  <2>7. QED
    BY <1>3, <2>2, <2>3, <2>5, <2>6
<1>4. CASE f \notin indexedFiles /\ k = "include"
  <2>1. PICK new \in OnePerKey({r \in Incoming(k, f) : Key(r) \notin Keys(table[k])}) : table' = [table EXCEPT ![k] = @ \cup new]
    BY <1>1, <1>4 DEF InsertRows
  <2>2. /\ new \subseteq Incoming(k, f) /\ \A r \in new : Key(r) \notin Keys(table[k])
        /\ Keys(new) = Keys({r \in Incoming(k, f) : Key(r) \notin Keys(table[k])})
        /\ \A a, b \in new : Key(a) = Key(b) => a = b
    BY DEF OnePerKey
  <2>3. /\ DOMAIN table' = Kind /\ \A j \in Kind \ {k} : table'[j] = table[j]
        /\ table'[k] = table[k] \cup new
    BY <1>1, <2>1
  <2>4. Keys(table'[k]) = Keys(table[k]) \cup Keys(Incoming(k, f))
    <3>1. Keys(table'[k]) = Keys(table[k]) \cup Keys(new)
      BY <2>3 DEF Keys
    <3>2. Keys(Incoming(k, f)) \subseteq Keys(table[k]) \cup Keys(new)
      BY <2>2 DEF Keys
    <3>3. Keys(new) \subseteq Keys(Incoming(k, f))
      BY <2>2 DEF Keys
    <3>4. QED
      BY <3>1, <3>2, <3>3
  <2>5. \A a, b \in table'[k] : Key(a) = Key(b) => a.by = b.by
    <3>1. \A a \in table[k] : Key(a) \in Keys(table[k])
      BY DEF Keys
    <3>2. QED
      BY <1>2, <2>2, <2>3, <3>1
  <2>6. QED
    BY <2>2, <2>3, <2>4, <2>5
<1>5. CASE f \notin indexedFiles /\ k # "include"
  <2>1. table' = [table EXCEPT ![k] = @ \cup Incoming(k, f)]
    BY <1>1, <1>5 DEF InsertRows
  <2>2. /\ DOMAIN table' = Kind /\ \A j \in Kind \ {k} : table'[j] = table[j]
        /\ table'[k] = table[k] \cup Incoming(k, f)
    BY <1>1, <2>1
  <2>3. Keys(table'[k]) = Keys(table[k]) \cup Keys(Incoming(k, f))
    BY <2>2 DEF Keys
  <2>4. \A a, b \in table'[k] : Key(a) = Key(b) => a.by = b.by
    <3>1. \A r \in Incoming(k, f) : r.file = f /\ r.by = Len(fed)
      BY DEF Incoming
    <3>2. \A r \in table[k] : r.file # f
      BY <1>1, <1>5, NewFileHasNoRows
    <3>3. QED
      BY <1>2, <2>2, <3>1, <3>2, KeyParts
  <2>5. QED
    BY <2>2, <2>3, <2>4
<1>6. QED
  BY <1>3, <1>4, <1>5

\* The rows of a file are written.
LEMMA RowsStep ==
  ASSUME IInv, NEW k \in Kind, NEW f \in todo, FeedRows(k, f)
  PROVE  IInv'
<1>1. /\ stage = k /\ stage' = k /\ todo' = todo \ {f}
      /\ UNCHANGED <<tu, newFiles, fed, pathsInserted, indexedFiles, symbols, dbFile, dbSymbol, dbBaseOf, dbOverride, dbRefarg>>
  BY DEF FeedRows, locals, memory, relations
<1>2. /\ DOMAIN table' = Kind
      /\ \A j \in Kind \ {k} : table'[j] = table[j]
      /\ Keys(table'[k]) = Keys(table[k]) \cup Keys(Incoming(k, f))
      /\ \A a, b \in table'[k] : Key(a) = Key(b) => a.by = b.by
  BY RowsFed
<1>3. Past' = Past /\ stage \in Feeding /\ stage' \in Feeding /\ stage \in AfterPaths
  BY <1>1 DEF Past, Feeding, AfterFiles, AfterPaths, AfterSymbols, Kind
<1>4. ASSUME NEW r \in table'[k]
      PROVE  r \in table[k] \/ r \in Incoming(k, f) \/ (f \in indexedFiles /\ r \in Load(k, f))
  BY RowsFed
<1>5. TypeOK'
  BY <1>1, <1>2 DEF IInv, TypeOK
<1>6. FedInv'
  BY <1>1, <1>3 DEF IInv, FedInv
<1>7. TodoInv'
  BY <1>1 DEF IInv, TodoInv
<1>8. FilesInv'
  BY <1>1 DEF IInv, FilesInv, MemoryMirrorsDatabase, IncludedFiles
<1>9. RowsInv'
  <2>1. ASSUME NEW j \in Kind
        PROVE  Keys(table'[j]) = (UNION {Keys(fed[n].rows[j]) : n \in Past}) \cup Keys(Written(j)')
    <3>1. Keys(table[j]) = (UNION {Keys(fed[n].rows[j]) : n \in Past}) \cup Keys(Written(j))
      BY DEF IInv, RowsInv
    <3>2. CASE j = k
      <4>1. Written(j)' = Written(j) \cup {q \in tu.rows[k] : q.file = f}
        BY <1>1, <3>2 DEF Written
      <4>2. Keys(Written(j)') = Keys(Written(j)) \cup Keys({q \in tu.rows[k] : q.file = f})
        BY <4>1 DEF Keys
      <4>3. Keys(Incoming(k, f)) = Keys({q \in tu.rows[k] : q.file = f})
        BY IncomingRows
      <4>4. QED
        BY <1>2, <3>1, <3>2, <4>2, <4>3
    <3>3. CASE j # k
      <4>1. Written(j)' = Written(j)
        BY <1>1, <3>3 DEF Written
      <4>2. QED
        BY <1>2, <3>1, <3>3, <4>1
    <3>4. QED
      BY <3>2, <3>3
  <2>2. ASSUME NEW j \in Kind, NEW r \in table'[j]
        PROVE  Shaped(r)
    <3>1. CASE r \in table[j]
      BY <3>1 DEF IInv, RowsInv
    <3>2. CASE j = k /\ r \in Incoming(k, f)
      BY <3>2, IncomingRows
    <3>3. CASE j = k /\ r \in Load(k, f)
      BY <3>3, LoadedRows
    <3>4. QED
      BY <1>2, <1>4, <3>1, <3>2, <3>3
  <2>3. ASSUME NEW j \in Kind, NEW a \in table'[j], NEW b \in table'[j], Key(a) = Key(b)
        PROVE  a.by = b.by
    <3>1. CASE j = k
      BY <1>2, <2>3, <3>1
    <3>2. CASE j # k
      BY <1>2, <2>3, <3>2 DEF IInv, RowsInv
    <3>3. QED
      BY <3>1, <3>2
  <2>4. \A j \in Kind : UNION {Keys(fed'[n].rows[j]) : n \in Past'} = UNION {Keys(fed[n].rows[j]) : n \in Past}
    BY <1>1, <1>3
  <2>5. \A j \in Kind : Keys(table'[j]) = (UNION {Keys(fed'[n].rows[j]) : n \in Past'}) \cup Keys(Written(j)')
    BY <2>1, <2>4
  <2>6. QED
    BY <2>2, <2>3, <2>5 DEF RowsInv, Shaped, Key, Keys
<1>10. RelationsInv'
  <2>1. SymbolsWritten' = SymbolsWritten /\ BasesWritten' = BasesWritten
    BY <1>1 DEF SymbolsWritten, BasesWritten, AfterSymbols, Kind
  <2>2. QED
    BY <1>1, <1>3, <2>1 DEF IInv, RelationsInv, Kind
<1>11. ReferencesInv'
  <2>1. tu.files \subseteq DOMAIN dbFile /\ IncludedFiles \subseteq DOMAIN dbFile
    BY <1>1, <1>3 DEF IInv, FedInv, FilesInv, MemoryMirrorsDatabase, AfterFiles, AfterPaths
  <2>2. k \in {"reference", "declaration"} => DOMAIN tu.symbols \subseteq DOMAIN dbSymbol
    BY <1>1 DEF IInv, RelationsInv, SymbolsWritten, AfterSymbols
  <2>3. WellFormed(tu)
    BY <1>3, PastFeeds
  <2>4. ASSUME NEW r \in table'[k]
        PROVE  /\ r.file \in DOMAIN dbFile
               /\ k = "include" => r.to \in DOMAIN dbFile
               /\ k \in {"reference", "declaration"} => r.symbol \in DOMAIN dbSymbol
               /\ k = "reference" /\ OneFeed(r.file) => r.to \in DOMAIN dbSymbol \cup {NoSymbol}
    <3>1. CASE r \in table[k]
      BY <3>1 DEF IInv, ReferencesInv
    <3>2. CASE r \in Incoming(k, f)
      <4>1. PICK q \in tu.rows[k] : r.file = f /\ q.file = f /\ q.symbol = r.symbol /\ q.to = r.to
        BY <3>2 DEF Incoming
      <4>2. k = "include" => q.to \in IncludedFiles
        BY DEF IncludedFiles
      <4>3. QED
        BY <2>1, <2>2, <2>3, <4>1, <4>2 DEF WellFormed
    <3>3. CASE f \in indexedFiles /\ r \in Load(k, f)
      <4>1. r.file = f
        BY <3>3, LoadedRows
      <4>2. PICK q \in table[k] : Key(q) = Key(r) /\ (k # "reference" => q.to = r.to)
        BY <3>3, LoadedRows
      <4>3. q.file = r.file /\ q.symbol = r.symbol
        BY <4>2, KeyParts
      <4>4. ~ OneFeed(f)
        <5>1. f \in tu.files /\ tu = fed[Len(fed)] /\ Len(fed) \in DOMAIN fed /\ Len(fed) \notin Past /\ Past \subseteq DOMAIN fed
          BY <1>1, <1>3, PastFeeds DEF IInv, TodoInv, FedInv
        <5>2. PICK n \in Past : f \in fed[n].files
          BY <3>3 DEF IInv, FedInv
        <5>3. QED
          BY <5>1, <5>2 DEF OneFeed
      <4>5. QED
        BY <4>1, <4>2, <4>3, <4>4 DEF IInv, ReferencesInv
    <3>4. QED
      BY <1>4, <3>1, <3>2, <3>3
  <2>5. ASSUME NEW j \in Kind, NEW r \in table'[j]
        PROVE  /\ r.file \in DOMAIN dbFile
               /\ j = "include" => r.to \in DOMAIN dbFile
               /\ j \in {"reference", "declaration"} => r.symbol \in DOMAIN dbSymbol
               /\ j = "reference" /\ OneFeed(r.file) => r.to \in DOMAIN dbSymbol \cup {NoSymbol}
    <3>1. CASE j = k
      BY <2>4, <3>1
    <3>2. CASE j # k
      <4>1. r \in table[j]
        BY <1>2, <3>2
      <4>2. QED
        BY <4>1 DEF IInv, ReferencesInv
    <3>3. QED
      BY <3>1, <3>2
  <2>6. \A r \in table'["reference"] : OneFeed(r.file) => r.to \in DOMAIN dbSymbol \cup {NoSymbol}
    BY <2>5 DEF Kind
  <2>7. QED
    BY <1>1, <2>5, <2>6 DEF IInv, ReferencesInv, OneFeed
<1>12. QED
  BY <1>5, <1>6, <1>7, <1>8, <1>9, <1>10, <1>11 DEF IInv

LEMMA Invariance == IInv /\ [Next]_vars => IInv'
<1> SUFFICES ASSUME IInv, [Next]_vars
             PROVE  IInv'
  OBVIOUS
<1>1. ASSUME NEW x \in Indexes, BeginFeed(x)
      PROVE  IInv'
  BY <1>1, BeginStep
<1>2. CASE FeedFiles
  BY <1>2, FilesStep
<1>3. CASE FeedIncludedPaths
  BY <1>3, PathsStep
<1>4. ASSUME NEW k \in Kind, NEW f \in todo, FeedRows(k, f)
      PROVE  IInv'
  BY <1>4, RowsStep
<1>5. CASE FeedSymbols
  BY <1>5, SymbolsStep
<1>6. ASSUME NEW p \in todo, FeedBaseOf(p) \/ FeedOverride(p)
      PROVE  IInv'
  BY <1>6, BaseOfStep, OverrideStep
<1>7. CASE FeedRefargs
  BY <1>7, RefargsStep
<1>8. CASE EndFeed
  BY <1>8, EndFeedStep
<1>9. CASE UNCHANGED vars
  <2>1. Past' = Past /\ stage' = stage /\ todo' = todo
    BY <1>9 DEF vars, locals, Past
  <2>2. TypeOK' /\ FedInv' /\ TodoInv' /\ FilesInv'
    BY <1>9, <2>1 DEF vars, locals, memory, database, relations, IInv, TypeOK, FedInv, TodoInv, FilesInv, MemoryMirrorsDatabase,
                      IncludedFiles
  <2>3. RowsInv'
    BY <1>9, <2>1 DEF vars, locals, database, IInv, RowsInv, Written, Shaped, Key, Keys
  <2>4. RelationsInv' /\ ReferencesInv'
    BY <1>9, <2>1 DEF vars, locals, database, relations, IInv, RelationsInv, SymbolsWritten, BasesWritten, ReferencesInv, OneFeed
  <2>5. QED
    BY <2>2, <2>3, <2>4 DEF IInv
<1>10. CASE EndOfIncludes \/ EndOfReferences \/ EndOfBases \/ EndOfOverrides \/ EndOfDiagnostics \/ Close \/ Closed
  BY <1>10, LeaveSteps
<1>11. QED
  BY <1>1, <1>2, <1>3, <1>4, <1>5, <1>6, <1>7, <1>8, <1>9, <1>10 DEF Next

-----------------------------------------------------------------------------
\* At every commit the database, the memory and what was fed agree.
THEOREM InductiveInvariant == Spec => []IInv
BY InitIInv, Invariance, PTL DEF Spec

\* Every variable keeps its type, whatever indexes are fed.
THEOREM TypeCorrect == Spec => []TypeOK
BY InductiveInvariant, PTL DEF IInv

\* At every commit the flags by which feed decides what to insert describe the
\* database: filePathsInserted, indexedFiles and the symbols in memory.
THEOREM MemoryAlwaysMirrorsDatabase == Spec => []MemoryMirrorsDatabase
<1>1. IInv => MemoryMirrorsDatabase
  BY DEF IInv, FilesInv
<1>2. QED
  BY <1>1, InductiveInvariant, PTL

\* At every commit the files and symbols that rows mention are in their
\* tables, which SQLite does not check; so it is whenever the program is
\* killed.
THEOREM ReferencesAlwaysResolve == Spec => []ReferentialIntegrity
<1>1. ASSUME NEW f, Cardinality({n \in DOMAIN fed : f \in fed[n].files}) = 1
      PROVE  fed \in Seq(Indexes) => OneFeed(f)
  <2> SUFFICES ASSUME fed \in Seq(Indexes)
               PROVE  OneFeed(f)
    OBVIOUS
  <2> DEFINE S == {n \in DOMAIN fed : f \in fed[n].files}
  <2>1. IsFiniteSet(S)
    <3>1. DOMAIN fed = 1 .. Len(fed) /\ Len(fed) \in Nat
      OBVIOUS
    <3>2. IsFiniteSet(1 .. Len(fed))
      BY <3>1, FS_Interval
    <3>3. QED
      BY <3>1, <3>2, FS_Subset
  <2>2. \E n : S = {n}
    BY <1>1, <2>1, FS_Singleton
  <2>3. QED
    BY <2>2 DEF OneFeed
<1>2. IInv => ReferentialIntegrity
  <2> SUFFICES ASSUME IInv
               PROVE  ReferentialIntegrity
    OBVIOUS
  <2>1. fed \in Seq(Indexes)
    BY DEF IInv, TypeOK
  <2>2. \A r \in table["reference"] :
          Cardinality({n \in DOMAIN fed : r.file \in fed[n].files}) = 1 => r.to \in DOMAIN dbSymbol \cup {NoSymbol}
    BY <1>1, <2>1 DEF IInv, ReferencesInv
  <2>3. QED
    BY <2>2 DEF IInv, ReferencesInv, ReferentialIntegrity
<1>3. QED
  BY <1>2, InductiveInvariant, PTL

\* Between two feeds the database holds the rows of every index that was fed,
\* and no others, and no row twice, however the files of the indexes overlap
\* and in whatever order they came.
THEOREM SnapshotIsAlwaysUnion == Spec => []SnapshotIsUnion
<1>1. IInv => SnapshotIsUnion
  <2> SUFFICES ASSUME IInv, AtRest
               PROVE  /\ \A k \in Kind : Keys(table[k]) = UNION {Keys(fed[n].rows[k]) : n \in DOMAIN fed}
                      /\ \A k \in Kind : \A a, b \in table[k] : Key(a) = Key(b) => a.by = b.by
                      /\ dbBaseOf = UNION {fed[n].baseOfs : n \in DOMAIN fed}
                      /\ DOMAIN dbSymbol = UNION {DOMAIN fed[n].symbols : n \in DOMAIN fed}
                      /\ \A m \in DOMAIN dbOverride : \E n \in DOMAIN fed : <<m, dbOverride[m]>> \in fed[n].overrides
                      /\ \A f \in DOMAIN dbFile : (dbFile[f] = "content") <=> \E n \in DOMAIN fed : f \in fed[n].files
    BY DEF SnapshotIsUnion
  <2>1. stage \notin Feeding /\ Past = DOMAIN fed
    BY DEF AtRest, Past, Feeding, AfterFiles, AfterPaths, AfterSymbols
  <2>2. ASSUME NEW k \in Kind
        PROVE  Keys(table[k]) = UNION {Keys(fed[n].rows[k]) : n \in DOMAIN fed}
    <3>1. Written(k) = {}
      BY <2>1 DEF Written, After, AtRest, AfterSymbols, Kind
    <3>2. Keys({}) = {}
      BY DEF Keys
    <3>3. QED
      BY <2>1, <3>1, <3>2 DEF IInv, RowsInv
  <2>3. SymbolsWritten = {} /\ BasesWritten = {}
    BY DEF SymbolsWritten, BasesWritten, AtRest, AfterSymbols
  <2>4. /\ dbBaseOf = UNION {fed[n].baseOfs : n \in DOMAIN fed}
        /\ DOMAIN dbSymbol = UNION {DOMAIN fed[n].symbols : n \in DOMAIN fed}
        /\ \A m \in DOMAIN dbOverride : \E n \in DOMAIN fed : <<m, dbOverride[m]>> \in fed[n].overrides
    BY <2>1, <2>3 DEF IInv, RelationsInv
  <2>5. ASSUME NEW f \in DOMAIN dbFile
        PROVE  (dbFile[f] = "content") <=> \E n \in DOMAIN fed : f \in fed[n].files
    <3>1. dbFile[f] = "content" <=> f \in indexedFiles
      BY <2>1 DEF IInv, FilesInv, MemoryMirrorsDatabase, Feeding
    <3>2. QED
      BY <2>1, <3>1 DEF IInv, FedInv
  <2>6. \A k \in Kind : \A a, b \in table[k] : Key(a) = Key(b) => a.by = b.by
    BY DEF IInv, RowsInv
  <2>7. QED
    BY <2>2, <2>4, <2>5, <2>6
<1>2. QED
  BY <1>1, InductiveInvariant, PTL

\* No transaction loses a row, not even the one that removes all the rows of a
\* file and inserts what it has merged.
THEOREM RowsNeverEverVanish == Spec => RowsNeverVanish
<1>1. IInv /\ [Next]_vars => [\A k \in Kind : Keys(table[k]) \subseteq Keys(table'[k])]_vars
  <2> SUFFICES ASSUME IInv, Next
               PROVE  \A k \in Kind : Keys(table[k]) \subseteq Keys(table'[k])
    OBVIOUS
  <2>1. ASSUME NEW k \in Kind, NEW f \in todo, FeedRows(k, f)
        PROVE  \A j \in Kind : Keys(table[j]) \subseteq Keys(table'[j])
    <3>1. /\ \A j \in Kind \ {k} : table'[j] = table[j]
          /\ Keys(table'[k]) = Keys(table[k]) \cup Keys(Incoming(k, f))
      BY <2>1, RowsFed
    <3>2. QED
      BY <3>1
  <2>2. CASE UNCHANGED table
    BY <2>2
  <2>3. ~ (\E k \in Kind, f \in todo : FeedRows(k, f)) => UNCHANGED table
    BY DEF Next, BeginFeed, FeedFiles, FeedIncludedPaths, FeedSymbols, FeedBaseOf, FeedOverride, FeedRefargs,
           EndOfIncludes, EndOfReferences, EndOfBases, EndOfOverrides, EndOfDiagnostics, Leave, EndFeed, Close, Closed,
           vars, database
  <2>4. QED
    BY <2>1, <2>2, <2>3
<1>2. QED
  BY <1>1, InductiveInvariant, PTL DEF Spec, RowsNeverVanish

-----------------------------------------------------------------------------
(* What a merge finds.  The database as an input of SnapshotMerge, given   *)
(* the path of each file and the home of the project.                      *)

Snap == INSTANCE Snapshot

\* the rows of one table, as the merge compares them (get_as_tuple): the
\* parent is part of what makes two references the same
RowsOf(k) ==
  CASE k = "include" -> {[file |-> r.file, key |-> r.key, to |-> r.to] : r \in table["include"]}
    [] k = "symbolReference" ->
         {[file |-> r.file, key |-> <<r.key, r.to>>, to |-> r.symbol] : r \in table["reference"]}
    [] k = "diagnostic" -> {[file |-> r.file, key |-> r.key, to |-> NoSymbol] : r \in table["diagnostic"]}
    [] k = "symbolDeclaration" ->
         {[file |-> r.file, key |-> r.key, to |-> r.symbol] : r \in table["declaration"]}
    [] k = "refarg" -> {[file |-> r.file, key |-> r.key, to |-> NoSymbol] : r \in dbRefarg}

AsInput(path, home) ==
  [home |-> home,
   file |-> [f \in DOMAIN dbFile |-> [path |-> path[f], content |-> dbFile[f] = "content"]],
   symbol |-> dbSymbol,
   rows |-> [k \in Snap!Kind |-> RowsOf(k)],
   baseOf |-> dbBaseOf,
   override |-> {<<m, dbOverride[m]>> : m \in DOMAIN dbOverride}]

\* An index is made of one translation unit: it has finitely many files,
\* whose ids begin at 1 (DenseIds of FileIdsProofs; 0 is the empty path), and
\* finitely many symbols.
IndexesAreFinite ==
  \A x \in Indexes :
    LET all == x.files \cup {r.to : r \in x.rows["include"]}
    IN /\ all \subseteq Nat \ {0} /\ IsFiniteSet(all)
       /\ DOMAIN x.symbols \subseteq Nat /\ IsFiniteSet(DOMAIN x.symbols)

FinitelyMany == IsFiniteSet(DOMAIN dbFile) /\ IsFiniteSet(DOMAIN dbSymbol)

\* A feed adds finitely many files and symbols.
LEMMA FiniteStep ==
  ASSUME IndexesAreFinite, IInv, FinitelyMany, [Next]_vars
  PROVE  FinitelyMany'
<1>1. IsFiniteSet(newFiles) /\ IsFiniteSet(IncludedFiles) /\ IsFiniteSet(DOMAIN tu.symbols)
  <2>1. tu \in Indexes /\ newFiles \subseteq tu.files
    BY DEF IInv, TypeOK
  <2> DEFINE all == tu.files \cup {r.to : r \in tu.rows["include"]}
  <2>2. IsFiniteSet(all) /\ IsFiniteSet(DOMAIN tu.symbols)
    BY <2>1 DEF IndexesAreFinite
  <2>3. newFiles \subseteq all /\ IncludedFiles \subseteq all
    BY <2>1 DEF IncludedFiles
  <2>4. QED
    BY <2>2, <2>3, FS_Subset
<1>2. \A f, g : DOMAIN Over(g, f) = DOMAIN f \cup DOMAIN g
  BY DEF Over
<1>3. CASE FeedFiles
  <2>1. DOMAIN dbFile' = DOMAIN dbFile \cup newFiles /\ DOMAIN dbSymbol' = DOMAIN dbSymbol
    BY <1>2, <1>3 DEF FeedFiles, InsertFiles
  <2>2. QED
    BY <1>1, <2>1, FS_Union DEF FinitelyMany
<1>4. CASE FeedIncludedPaths
  <2> DEFINE new == IncludedFiles \ pathsInserted
  <2>1. DOMAIN dbFile' = DOMAIN dbFile \cup new /\ DOMAIN dbSymbol' = DOMAIN dbSymbol
    BY <1>2, <1>4 DEF FeedIncludedPaths, InsertFilePaths
  <2>2. IsFiniteSet(new)
    BY <1>1, FS_Subset
  <2>3. QED
    BY <2>1, <2>2, FS_Union DEF FinitelyMany
<1>5. CASE FeedSymbols
  <2> DEFINE new == DOMAIN tu.symbols \ DOMAIN symbols
             old == DOMAIN tu.symbols \cap DOMAIN symbols
             added == new \cup {s \in old : FlagsNeedUpdate(s)}
  <2>1. DOMAIN dbFile' = DOMAIN dbFile /\ DOMAIN dbSymbol' = DOMAIN dbSymbol \cup added
    BY <1>2, <1>5 DEF FeedSymbols
  <2>2. IsFiniteSet(added)
    <3>1. added \subseteq DOMAIN tu.symbols
      OBVIOUS
    <3>2. QED
      BY <1>1, <3>1, FS_Subset
  <2>3. QED
    BY <2>1, <2>2, FS_Union DEF FinitelyMany
<1>6. CASE ~(FeedFiles \/ FeedIncludedPaths \/ FeedSymbols)
  <2>1. UNCHANGED <<dbFile, dbSymbol>>
    BY <1>6 DEF Next, vars, locals, memory, relations, database, BeginFeed, FeedRows, FeedBaseOf, FeedOverride, FeedRefargs,
       Leave, EndOfIncludes, EndOfReferences, EndOfBases, EndOfOverrides, EndOfDiagnostics, EndFeed, Close, Closed
  <2>2. QED
    BY <2>1 DEF FinitelyMany
<1>7. QED
  BY <1>3, <1>4, <1>5, <1>6

\* The rows of each table are in files of the database and are about symbols
\* of the database.
LEMMA RowsAreFound ==
  ASSUME IInv, NEW k \in Snap!Kind, NEW r \in RowsOf(k)
  PROVE  /\ r.file \in DOMAIN dbFile
         /\ k = "include" => r.to \in DOMAIN dbFile
         /\ k \in Snap!HasSymbol => r.to \in DOMAIN dbSymbol
<1>1. /\ \A j \in Kind : \A q \in table[j] :
           /\ q.file \in DOMAIN dbFile
           /\ j = "include" => q.to \in DOMAIN dbFile
           /\ j \in {"reference", "declaration"} => q.symbol \in DOMAIN dbSymbol
      /\ \A q \in dbRefarg : q.file \in DOMAIN dbFile
  BY DEF IInv, ReferencesInv
<1>2. CASE k = "include"
  <2>1. PICK q \in table["include"] : r = [file |-> q.file, key |-> q.key, to |-> q.to]
    BY <1>2 DEF RowsOf
  <2>2. QED
    BY <1>1, <1>2, <2>1 DEF Kind, Snap!HasSymbol
<1>3. CASE k = "symbolReference"
  <2>1. PICK q \in table["reference"] : r = [file |-> q.file, key |-> <<q.key, q.to>>, to |-> q.symbol]
    BY <1>3 DEF RowsOf
  <2>2. QED
    BY <1>1, <1>3, <2>1 DEF Kind
<1>4. CASE k = "diagnostic"
  <2>1. PICK q \in table["diagnostic"] : r = [file |-> q.file, key |-> q.key, to |-> NoSymbol]
    BY <1>4 DEF RowsOf
  <2>2. QED
    BY <1>1, <1>4, <2>1 DEF Kind, Snap!HasSymbol
<1>5. CASE k = "symbolDeclaration"
  <2>1. PICK q \in table["declaration"] : r = [file |-> q.file, key |-> q.key, to |-> q.symbol]
    BY <1>5 DEF RowsOf
  <2>2. QED
    BY <1>1, <1>5, <2>1 DEF Kind
<1>6. CASE k = "refarg"
  <2>1. PICK q \in dbRefarg : r = [file |-> q.file, key |-> q.key, to |-> NoSymbol]
    BY <1>6 DEF RowsOf
  <2>2. QED
    BY <1>1, <1>6, <2>1 DEF Snap!HasSymbol
<1>7. QED
  BY <1>2, <1>3, <1>4, <1>5, <1>6 DEF Snap!Kind, Snap!HasSymbol

\* Ids of files are positive, and an overriding method has one base.
LEMMA InputIsConsistent ==
  ASSUME IndexesAreFinite, IInv, FinitelyMany, NEW path, NEW home
  PROVE  Snap!Consistent(AsInput(path, home))
<1> DEFINE s == AsInput(path, home)
<1>1. /\ DOMAIN s.file = DOMAIN dbFile /\ s.symbol = dbSymbol /\ s.baseOf = dbBaseOf
      /\ s.override = {<<m, dbOverride[m]>> : m \in DOMAIN dbOverride}
      /\ \A k \in Snap!Kind : s.rows[k] = RowsOf(k)
  BY DEF AsInput
<1> HIDE DEF s
<1>2. DOMAIN dbFile \subseteq Nat \ {0} /\ DOMAIN dbSymbol \subseteq Nat
  <2>1. DOMAIN dbFile \subseteq File /\ DOMAIN dbSymbol \subseteq SymbolId
    BY DEF IInv, TypeOK
  <2>2. File \subseteq Nat \ {0} /\ SymbolId \subseteq Nat
    BY DEF File, SymbolId, IndexesAreFinite
  <2>3. QED
    BY <2>1, <2>2
<1>3. \A k \in Snap!Kind : \A r \in s.rows[k] :
        /\ r.file \in DOMAIN s.file
        /\ k = "include" => r.to \in DOMAIN s.file
        /\ k \in Snap!HasSymbol => r.to \in DOMAIN s.symbol
  BY <1>1, RowsAreFound
<1>4. s.baseOf \cup s.override \subseteq (DOMAIN s.symbol) \X (DOMAIN s.symbol)
  <2>1. \A p \in dbBaseOf : p = <<p[1], p[2]>>
    <3>1. \A x \in Indexes : \A p \in x.baseOfs : p = <<p[1], p[2]>>
      BY DEF WellFormed
    <3>2. \A p \in dbBaseOf : \E x \in Indexes : p \in x.baseOfs
      BY PastFeeds DEF IInv, TypeOK, RelationsInv, BasesWritten
    <3>3. QED
      BY <3>1, <3>2
  <2>2. \A p \in dbBaseOf : p[1] \in DOMAIN dbSymbol /\ p[2] \in DOMAIN dbSymbol
    BY DEF IInv, ReferencesInv
  <2>3. \A m \in DOMAIN dbOverride : m \in DOMAIN dbSymbol /\ dbOverride[m] \in DOMAIN dbSymbol
    BY DEF IInv, ReferencesInv
  <2>4. QED
    BY <1>1, <2>1, <2>2, <2>3
<1>5. \A p, q \in s.override : p[1] = q[1] => p = q
  BY <1>1
<1>6. /\ DOMAIN s.file \subseteq Nat \ {0} /\ IsFiniteSet(DOMAIN s.file)
      /\ DOMAIN s.symbol \subseteq Nat /\ IsFiniteSet(DOMAIN s.symbol)
  BY <1>1, <1>2 DEF FinitelyMany
<1>7. Snap!Consistent(s)
  <2>1. Snap!IsFiniteSet(DOMAIN s.file) /\ Snap!IsFiniteSet(DOMAIN s.symbol)
    BY <1>6, Zenon DEF IsFiniteSet, Snap!IsFiniteSet
  <2>2. QED
    BY <1>3, <1>4, <1>5, <1>6, <2>1, Zenon DEF Snap!Consistent
<1>8. QED
  BY <1>7 DEF s

\* Wherever a scan or a compilation is stopped, what it leaves is what a merge
\* takes for granted of its inputs: the assumption of SnapshotMerge is a
\* promise of SnapshotFeed, in the terms of a merge (FOREIGN KEY clauses and
\* keys of the schema, snapshotwriter.cpp:97-313, which SQLite does not check).
THEOREM EverySnapshotIsConsistent ==
  ASSUME IndexesAreFinite
  PROVE  Spec => [](\A path, home : Snap!Consistent(AsInput(path, home)))
<1>1. Init => FinitelyMany
  <2>1. Init => DOMAIN dbFile = {} /\ DOMAIN dbSymbol = {}
    BY DEF Init, EmptyFunction
  <2>2. QED
    BY <2>1, FS_EmptySet DEF FinitelyMany
<1>2. IInv /\ FinitelyMany /\ [Next]_vars => FinitelyMany'
  BY FiniteStep
<1>3. IInv /\ FinitelyMany => \A path, home : Snap!Consistent(AsInput(path, home))
  BY InputIsConsistent
<1>4. QED
  BY <1>1, <1>2, <1>3, InductiveInvariant, PTL DEF Spec
=============================================================================
