----------------------------- MODULE IndexOnce ------------------------------
(***************************************************************************)
(* Which translation unit indexes which file.  Every Indexer asks the      *)
(* arbiter (fileindexingarbiter.cpp) once per inclusion of a file and      *)
(* caches the answer (Indexer::shouldIndexFile); the arbiter is shared by  *)
(* all parsing threads and assigns a file to the first translation unit    *)
(* that asks for it.                                                       *)
(*                                                                         *)
(* The arbiter knows a translation unit by the address of its index, a     *)
(* heap object that the Indexer frees and allocates again.  The allocator  *)
(* is part of the environment and may hand out an address that was freed.  *)
(*                                                                         *)
(* There are two callers of the Indexer: the parsing threads, whose        *)
(* consumer moves the index to the result queue in finish(), and           *)
(* processCommands, alone, which feeds the index after the invocation      *)
(* succeeded.  A behaviour has one or the other.  What the front-end       *)
(* visits, and whether it gets to finish(), is a choice of the             *)
(* environment.                                                            *)
(***************************************************************************)
EXTENDS Integers, FiniteSets

CONSTANTS
  Thread,      \* the threads that own an Indexer
  NbUnits,     \* translation units, numbered in the order they are taken
  File,        \* FileIDs
  InProject,   \* the files that the other arbiters of the composite accept
  Inclusion,   \* clang::FileIDs: one per inclusion of a file
  FileOf,      \* the FileID of each of them
  Addr         \* the addresses an index may be allocated at

NoFile == 0    \* invalidFileID(): a location that is in no file
Null == 0      \* nullptr

ASSUME FilesAssumption ==
  /\ File \subseteq Nat \ {NoFile}
  /\ InProject \subseteq File
  /\ FileOf \in [Inclusion -> File \cup {NoFile}]
ASSUME AddrAssumption == Addr \subseteq Nat \ {Null}
ASSUME UnitsAssumption == NbUnits \in Nat

Unit == 1 .. NbUnits

\* the thread that scans alone when there are no parsing threads
Main == CHOOSE t \in Thread : TRUE

VARIABLES
  threaded,   \* runScanSingleOrMultiThreaded: whether nbThreads is positive
  owner,      \* IndexOnceFileIndexingArbiter::m_translation_units
  index,      \* Indexer::m_index: the address of the current index, or Null
  hasContext, \* Indexer::mAstContext # nullptr
  cache,      \* Indexer::m_ShouldIndexFileCache
  pc,         \* where each thread is in its loop over compile commands
  unit,       \* the translation unit each thread works on
  built,      \* the translation unit whose index m_index is
  nextUnit,   \* the next translation unit to be taken
  at,         \* the address at which the index of each unit was allocated
  files,      \* TranslationUnitIndex::indexedFiles of each translation unit
  finished,   \* the units for which Indexer::finish ran
  delivered   \* the units whose index was queued or fed to the snapshot

indexer == <<index, hasContext, cache, at, built>>
history == <<files, finished>>
vars == <<threaded, owner, indexer, pc, unit, nextUnit, history, delivered>>

Answer == {"unknown", "yes", "no"}
NothingCached == [i \in Inclusion |-> "unknown"]

Init ==
  /\ threaded \in BOOLEAN
  /\ owner = [f \in File |-> Null]
  /\ index = [t \in Thread |-> Null]
  /\ hasContext = [t \in Thread |-> FALSE]
  /\ cache = [t \in Thread |-> NothingCached]
  /\ pc = [t \in Thread |-> IF threaded \/ t = Main THEN "idle" ELSE "exited"]
  /\ unit = [t \in Thread |-> 0]
  /\ built = [t \in Thread |-> 0]
  /\ nextUnit = 1
  /\ at = [u \in Unit |-> Null]
  /\ files = [u \in Unit |-> {}]
  /\ finished = {}
  /\ delivered = {}

Goto(t, from, to) ==
  /\ pc[t] = from
  /\ pc' = [pc EXCEPT ![t] = to]

Live == {index[t] : t \in Thread} \ {Null}

-----------------------------------------------------------------------------
(* The arbiter, under the mutex of ThreadSafeFileIndexingArbiter.          *)

\* mutant of Assigned: false for the translation unit that asks first
AssignedBefore(f, a) == owner[f] = a

\* mutant of Assigned: an owner that was freed does not count any more
AssignedUnlessLive(f, a) == owner[f] \notin Live \ {a}

\* IndexOnceFileIndexingArbiter::shouldIndex
Assigned(f, a) == owner[f] \in {Null, a}

\* CompositeFileIndexingArbiter::shouldIndex: index-once is asked first
ShouldIndex(f, a) == f # NoFile /\ Assigned(f, a) /\ f \in InProject

\* mutant of Claim: without the mutex, two insertions race and one is lost
ClaimUnlocked(f, a) ==
  IF f # NoFile /\ owner[f] = Null
    THEN owner' \in {owner, [owner EXCEPT ![f] = a]}
    ELSE UNCHANGED owner

\* the assignment it makes, even when the next arbiter refuses the file
Claim(f, a) ==
  IF f # NoFile /\ owner[f] = Null
    THEN owner' = [owner EXCEPT ![f] = a]
    ELSE UNCHANGED owner

-----------------------------------------------------------------------------
(* The steps of one Indexer.                                               *)

\* the loop takes the next compile command
TakeUnit(t) ==
  /\ Goto(t, "idle", "parsing")
  /\ nextUnit <= NbUnits
  /\ unit' = [unit EXCEPT ![t] = nextUnit]
  /\ nextUnit' = nextUnit + 1
  /\ UNCHANGED <<threaded, owner, indexer, history, delivered>>

\* there is none left: the Indexer is destroyed
NoUnitLeft(t) ==
  /\ Goto(t, "idle", "exited")
  /\ nextUnit > NbUnits
  /\ index' = [index EXCEPT ![t] = Null]
  /\ UNCHANGED <<threaded, owner, hasContext, cache, at, built, unit, nextUnit, history, delivered>>

\* mutant of Initialize: m_ShouldIndexFileCache is not cleared
InitializeKeepingCache(t) ==
  /\ Goto(t, "parsing", "indexing")
  /\ \E a \in Addr \ Live :
       /\ index' = [index EXCEPT ![t] = a]
       /\ at' = [at EXCEPT ![unit[t]] = a]
  /\ built' = [built EXCEPT ![t] = unit[t]]
  /\ hasContext' = [hasContext EXCEPT ![t] = TRUE]
  /\ UNCHANGED <<threaded, owner, cache, unit, nextUnit, history, delivered>>

\* Indexer::initialize.  make_unique allocates before the assignment frees
\* what m_index held, so the new address differs from the old one.
Initialize(t) ==
  /\ Goto(t, "parsing", "indexing")
  /\ \E a \in Addr \ Live :
       /\ index' = [index EXCEPT ![t] = a]
       /\ at' = [at EXCEPT ![unit[t]] = a]
  /\ built' = [built EXCEPT ![t] = unit[t]]
  /\ hasContext' = [hasContext EXCEPT ![t] = TRUE]
  /\ cache' = [cache EXCEPT ![t] = NothingCached]
  /\ UNCHANGED <<threaded, owner, unit, nextUnit, history, delivered>>

\* Indexer::shouldIndexFile on an inclusion that is not in the cache (when it
\* is, nothing changes)
ShouldIndexFile(t, i) ==
  LET f == FileOf[i]
      ok == ShouldIndex(f, index[t])
  IN /\ pc[t] = "indexing"
     /\ cache[t][i] = "unknown"
     /\ Claim(f, index[t])
     /\ cache' = [cache EXCEPT ![t][i] = IF ok THEN "yes" ELSE "no"]
     /\ files' = [files EXCEPT ![unit[t]] = IF ok THEN @ \cup {f} ELSE @]
     /\ UNCHANGED <<threaded, index, hasContext, at, built, pc, unit, nextUnit, finished, delivered>>

\* the index leaves the Indexer and its memory is freed (resetCurrentIndex)
DeliverIndex(t) ==
  /\ delivered' = delivered \cup {built[t]}
  /\ index' = [index EXCEPT ![t] = Null]

\* mutant of Finish: mAstContext is not reset
FinishKeepingContext(t) ==
  /\ Goto(t, "indexing", "finished")
  /\ finished' = finished \cup {unit[t]}
  /\ IF threaded THEN DeliverIndex(t) ELSE UNCHANGED <<delivered, index>>
  /\ UNCHANGED <<threaded, owner, hasContext, cache, at, built, unit, nextUnit, files>>

\* Indexer::finish, and in a parsing thread the rest of
\* ThreadProcIndexDataConsumer::finish: the index is moved to the result
\* queue
Finish(t) ==
  /\ Goto(t, "indexing", "finished")
  /\ finished' = finished \cup {unit[t]}
  /\ hasContext' = [hasContext EXCEPT ![t] = FALSE]
  /\ IF threaded THEN DeliverIndex(t) ELSE UNCHANGED <<delivered, index>>
  /\ UNCHANGED <<threaded, owner, cache, at, built, unit, nextUnit, files>>

\* ToolInvocation::run() returns, before initialize, before finish or after
\* it.  processCommands feeds the current index, if there is one and the
\* invocation was a success; otherwise what the Indexer holds stays as it is
\* until the next initialize.
InvocationReturns(t) ==
  /\ pc[t] \in {"parsing", "indexing", "finished"}
  /\ pc' = [pc EXCEPT ![t] = "idle"]
  /\ unit' = [unit EXCEPT ![t] = 0]
  /\ \E success \in BOOLEAN :
       IF success /\ ~threaded /\ index[t] # Null
         THEN DeliverIndex(t)
         ELSE UNCHANGED <<delivered, index>>
  /\ UNCHANGED <<threaded, owner, hasContext, cache, at, built, nextUnit, history>>

Done ==
  /\ \A t \in Thread : pc[t] = "exited"
  /\ UNCHANGED vars

-----------------------------------------------------------------------------

ThreadNext(t) ==
  \/ TakeUnit(t) \/ NoUnitLeft(t) \/ Initialize(t)
  \/ (\E i \in Inclusion : ShouldIndexFile(t, i))
  \/ Finish(t) \/ InvocationReturns(t)

Next == (\E t \in Thread : ThreadNext(t)) \/ Done

Spec == Init /\ [][Next]_vars

-----------------------------------------------------------------------------
(* Properties.                                                             *)

\* Every variable has its type.
TypeOK ==
  /\ threaded \in BOOLEAN
  /\ owner \in [File -> Addr \cup {Null}]
  /\ index \in [Thread -> Addr \cup {Null}]
  /\ hasContext \in [Thread -> BOOLEAN]
  /\ cache \in [Thread -> [Inclusion -> Answer]]
  /\ pc \in [Thread -> {"idle", "parsing", "indexing", "finished", "exited"}]
  /\ unit \in [Thread -> 0 .. NbUnits]
  /\ built \in [Thread -> 0 .. NbUnits]
  /\ nextUnit \in 1 .. NbUnits + 1
  /\ at \in [Unit -> Addr \cup {Null}]
  /\ files \in [Unit -> SUBSET File]
  /\ finished \subseteq Unit
  /\ delivered \subseteq Unit

\* Two indexes that are alive at the same time never both contain a file:
\* whatever addresses the allocator reuses, two parsing threads do not index
\* the same file concurrently (IndexOnceFileIndexingArbiter::shouldIndex).
DisjointWhileLive ==
  \A s, t \in Thread :
    s # t /\ index[s] # Null /\ index[t] # Null
      => files[built[s]] \cap files[built[t]] = {}

\* Two translation units have a file in common only if their indexes were
\* allocated at the same address, one after the other: the arbiter, which
\* compares addresses, makes no other mistake
\* (IndexOnceFileIndexingArbiter::shouldIndex).
SharedOnlyByReuse ==
  \A u, v \in Unit : files[u] \cap files[v] # {} => at[u] = at[v]

\* What a thread cached is what the arbiter would still answer, so that all
\* the inclusions of a file in a translation unit get the same answer, and
\* the index lists exactly the files that were accepted
\* (Indexer::shouldIndexFile).
CachedAnswersHold ==
  \A t \in Thread : pc[t] = "indexing" =>
    /\ \A i \in Inclusion : cache[t][i] # "unknown" =>
         (cache[t][i] = "yes" <=> ShouldIndex(FileOf[i], index[t]))
    /\ files[unit[t]] = {FileOf[i] : i \in {j \in Inclusion : cache[t][j] = "yes"}}

\* A project file that was assigned to a translation unit is in the index of
\* one: an assignment never makes every translation unit skip the file.
AssignedIsIndexed ==
  \A f \in InProject : owner[f] # Null => \E u \in Unit : f \in files[u]

\* The Indexer handles a diagnostic (Indexer::initialized() is true) outside
\* of the span from initialize to finish only if an earlier translation unit
\* never reached finish: the diagnostics that clang emits after finish, or
\* before the next initialize, are otherwise not added to any index.
ContextOutlivesNoFinish ==
  \A t \in Thread :
    hasContext[t] /\ index[t] # Null /\ pc[t] # "indexing"
      => built[t] \notin finished
=============================================================================
