------------------------------ MODULE FileIds -------------------------------
(***************************************************************************)
(* The ids of files (fileidentificator.cpp).  The parsing threads turn     *)
(* paths into FileIDs while the thread that feeds the snapshot, for each   *)
(* index it takes from the result queue, copies the list of paths and then *)
(* looks ids up in the copy (SnapshotCreator::feed).                       *)
(*                                                                         *)
(* Abstractions.  A translation unit index is the set of ids it mentions,  *)
(* each with the path it was obtained for, which only the properties read. *)
(***************************************************************************)
EXTENDS Integers, Sequences, FiniteSets

CONSTANTS
  Thread,     \* the parsing threads
  Path,       \* the paths of files
  NbResults   \* bound: how many indexes are written to the result queue

Empty == ""   \* the path of FileID 0

ASSUME PathAssumption == Empty \notin Path
ASSUME NbResultsAssumption == NbResults \in Nat

VARIABLES
  ids,      \* BasicFileIdentificator::m_files
  held,     \* the ids in the index each thread is building, with their paths
  queue,    \* the indexes in the result queue
  written,  \* how many were written to it
  known,    \* feed's local known_files
  todo,     \* the ids of the index being fed that were not looked up yet
  dbPath,   \* the paths in table file
  thrown    \* at() threw std::out_of_range

vars == <<ids, held, queue, written, known, todo, dbPath, thrown>>

\* the vector that resize(1) and one assignment leave
Init ==
  /\ ids = [p \in {Empty} |-> 0]
  /\ held = [t \in Thread |-> {}]
  /\ queue = <<>>
  /\ written = 0
  /\ known = [n \in {} |-> Empty]
  /\ todo = {}
  /\ dbPath = [n \in {} |-> Empty]
  /\ thrown = FALSE

\* f with the value of x set to y
Set(f, x, y) == [z \in DOMAIN f \cup {x} |-> IF z = x THEN y ELSE f[z]]

-----------------------------------------------------------------------------

\* mutant of IdOf: no mutex, and the size is read before the insertion of
\* another thread
IdUnlocked(p) ==
  IF p \in DOMAIN ids THEN ids[p]
  ELSE IF Cardinality(DOMAIN ids) = 1 THEN 1 ELSE Cardinality(DOMAIN ids) - 1

\* BasicFileIdentificator::getIdentification: the next id is m_files.size()
IdOf(p) == IF p \in DOMAIN ids THEN ids[p] ELSE Cardinality(DOMAIN ids)

\* a thread identifies a file it indexes or includes; to do it again for the
\* same index changes nothing
Identify(t, p) ==
  /\ <<IdOf(p), p>> \notin held[t]
  /\ ids' = Set(ids, p, IdOf(p))
  /\ held' = [held EXCEPT ![t] = @ \cup {<<IdOf(p), p>>}]
  /\ UNCHANGED <<queue, written, known, todo, dbPath, thrown>>

\* the index goes to the result queue
WriteResult(t) ==
  /\ written < NbResults
  /\ written' = written + 1
  /\ queue' = Append(queue, held[t])
  /\ held' = [held EXCEPT ![t] = {}]
  /\ UNCHANGED <<ids, known, todo, dbPath, thrown>>

\* mutant of GetFiles: ids are taken to start at 1
GetFilesShifted ==
  [n \in 0 .. Cardinality(DOMAIN ids) - 1 |->
     IF \E p \in DOMAIN ids : ids[p] = n + 1
       THEN CHOOSE p \in DOMAIN ids : ids[p] = n + 1
       ELSE Empty]

\* BasicFileIdentificator::getFiles: a vector of m_files.size() empty paths,
\* then one assignment per entry of the map
GetFiles ==
  [n \in 0 .. Cardinality(DOMAIN ids) - 1 |->
     IF \E p \in DOMAIN ids : ids[p] = n
       THEN CHOOSE p \in DOMAIN ids : ids[p] = n
       ELSE Empty]

\* mutant of BeginFeed: the list is copied once, before the first index
BeginFeedWithOldList ==
  /\ todo = {}
  /\ queue # <<>>
  /\ queue' = Tail(queue)
  /\ todo' = Head(queue)
  /\ known' = IF known = [n \in {} |-> Empty] THEN GetFiles ELSE known
  /\ UNCHANGED <<ids, held, written, dbPath, thrown>>

\* an index is read from the queue and feed copies the list of paths
BeginFeed ==
  /\ todo = {}
  /\ queue # <<>>
  /\ queue' = Tail(queue)
  /\ todo' = Head(queue)
  /\ known' = GetFiles
  /\ UNCHANGED <<ids, held, written, dbPath, thrown>>

\* f.path = known_files.at(fid), and the file's row.  Files that are in the
\* table already are not looked up again.
StorePath(x) ==
  /\ x \in todo
  /\ todo' = todo \ {x}
  /\ IF x[1] \in DOMAIN dbPath
       THEN UNCHANGED <<dbPath, thrown>>
       ELSE IF x[1] \in DOMAIN known
              THEN dbPath' = Set(dbPath, x[1], known[x[1]]) /\ UNCHANGED thrown
              ELSE thrown' = TRUE /\ UNCHANGED dbPath
  /\ UNCHANGED <<ids, held, queue, written, known>>

-----------------------------------------------------------------------------

Next ==
  \/ \E t \in Thread : WriteResult(t) \/ \E p \in Path : Identify(t, p)
  \/ BeginFeed
  \/ \E x \in todo : StorePath(x)

Spec == Init /\ [][Next]_vars

-----------------------------------------------------------------------------
(* Properties.                                                             *)

Pairs == todo \cup (UNION {held[t] : t \in Thread}) \cup (UNION {queue[i] : i \in DOMAIN queue})

IdAndPath == (0 .. Cardinality(Path)) \X (Path \cup {Empty})

\* Every variable has its type.
TypeOK ==
  /\ DOMAIN ids \subseteq Path \cup {Empty}
  /\ \A p \in DOMAIN ids : ids[p] \in 0 .. Cardinality(Path)
  /\ held \in [Thread -> SUBSET IdAndPath]
  /\ queue \in Seq(SUBSET IdAndPath)
  /\ todo \subseteq IdAndPath
  /\ written \in 0 .. NbResults
  /\ \A f \in {known, dbPath} : \A n \in DOMAIN f : <<n, f[n]>> \in IdAndPath
  /\ thrown \in BOOLEAN

\* Ids are dense, so that the vector getFiles makes has a place for each, and
\* no two paths share one.
IdsAreDense ==
  /\ {ids[p] : p \in DOMAIN ids} = 0 .. Cardinality(DOMAIN ids) - 1
  /\ \A p, q \in DOMAIN ids : ids[p] = ids[q] => p = q

\* The list that is copied when an index is fed covers every id of that
\* index, though other threads go on adding ids: at() does not throw.
NeverOutOfRange ==
  /\ ~thrown
  /\ \A x \in todo : x[1] \in DOMAIN known

\* The path stored for an id is the path the id was given for, in whichever
\* thread: an index can be read with the ids of the threads that built it.
PathsAreThoseIdentified ==
  /\ \A x \in Pairs : x[2] \in DOMAIN ids /\ ids[x[2]] = x[1]
  /\ \A n \in DOMAIN dbPath : dbPath[n] \in DOMAIN ids /\ ids[dbPath[n]] = n
=============================================================================
