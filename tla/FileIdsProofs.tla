--------------------------- MODULE FileIdsProofs ---------------------------
(***************************************************************************)
(* Proofs about FileIds, for any number of threads, any paths and any      *)
(* number of results: the vector that getFiles makes has a place for every *)
(* id that was handed out, and the path in that place is the right one.    *)
(***************************************************************************)
EXTENDS FileIds, FiniteSetTheorems, TLAPS

Pair == Nat \X Path

\* The id and the path of a pair are in the identificator.
Agrees(x) == x[2] \in DOMAIN ids /\ ids[x[2]] = x[1]

\* What the identificator always is.
IdsInv ==
  /\ IsFiniteSet(DOMAIN ids)
  /\ ids \in [DOMAIN ids -> Nat]
  /\ IdsAreDense

\* What is in flight, and what the copied list says of it.
FlightInv ==
  /\ held \in [Thread -> SUBSET Pair]
  /\ queue \in Seq(SUBSET Pair)
  /\ todo \in SUBSET Pair
  /\ \A t \in Thread : \A x \in held[t] : Agrees(x)
  /\ \A i \in DOMAIN queue : \A x \in queue[i] : Agrees(x)
  /\ \A x \in todo : Agrees(x) /\ x[1] \in DOMAIN known /\ known[x[1]] = x[2]

\* What was stored.
StoredInv ==
  /\ ~thrown
  /\ \A n \in DOMAIN dbPath : dbPath[n] \in DOMAIN ids /\ ids[dbPath[n]] = n

IInv == IdsInv /\ FlightInv /\ StoredInv

-----------------------------------------------------------------------------

\* getFiles has a place for every id, with its path.
LEMMA GetFilesIsInverse ==
  ASSUME IdsInv
  PROVE  \A p \in DOMAIN ids : ids[p] \in DOMAIN GetFiles /\ GetFiles[ids[p]] = p
<1>1. SUFFICES ASSUME NEW p \in DOMAIN ids
               PROVE  ids[p] \in DOMAIN GetFiles /\ GetFiles[ids[p]] = p
  OBVIOUS
<1>2. ids[p] \in 0 .. Cardinality(DOMAIN ids) - 1
  BY <1>1 DEF IdsInv, IdsAreDense
<1>3. GetFiles[ids[p]] = CHOOSE q \in DOMAIN ids : ids[q] = ids[p]
  BY <1>1, <1>2, Zenon DEF GetFiles
<1>4. \A q \in DOMAIN ids : ids[q] = ids[p] => q = p
  BY <1>1 DEF IdsInv, IdsAreDense
<1>5. (CHOOSE q \in DOMAIN ids : ids[q] = ids[p]) = p
  BY <1>1, <1>4
<1>. QED BY <1>2, <1>3, <1>5, Zenon DEF GetFiles

\* To identify a path leaves the ids of the others, and the ids dense.
LEMMA IdentifyKeepsIds ==
  ASSUME IdsInv, NEW p \in Path, ids' = Set(ids, p, IdOf(p))
  PROVE  /\ IdsInv'
         /\ \A q \in DOMAIN ids : q \in DOMAIN ids' /\ ids'[q] = ids[q]
         /\ p \in DOMAIN ids' /\ ids'[p] = IdOf(p)
         /\ IdOf(p) \in Nat
<1> DEFINE n == Cardinality(DOMAIN ids)
<1>1. n \in Nat
  BY FS_CardinalityType DEF IdsInv
<1>2. DOMAIN ids' = DOMAIN ids \cup {p}
  BY DEF Set
<1>3. p \in DOMAIN ids' /\ ids'[p] = IdOf(p)
  BY DEF Set
<1>4. \A q \in DOMAIN ids : q \in DOMAIN ids' /\ ids'[q] = ids[q]
  BY DEF Set, IdOf
<1>5. IdOf(p) \in Nat
  BY <1>1 DEF IdOf, IdsInv
<1>6. IsFiniteSet(DOMAIN ids')
  BY <1>2, FS_AddElement DEF IdsInv
<1>7. ids' \in [DOMAIN ids' -> Nat]
  BY <1>5 DEF Set, IdsInv
<1>8. IdsAreDense'
  <2>1. CASE p \in DOMAIN ids
    <3>1. DOMAIN ids' = DOMAIN ids /\ \A q \in DOMAIN ids : ids'[q] = ids[q]
      BY <2>1, <1>2, <1>4
    <3>2. {ids'[q] : q \in DOMAIN ids'} = {ids[q] : q \in DOMAIN ids}
      BY <3>1
    <3>. QED BY <3>1, <3>2 DEF IdsAreDense, IdsInv
  <2>2. CASE p \notin DOMAIN ids
    <3>1. Cardinality(DOMAIN ids') = n + 1
      BY <2>2, <1>2, FS_AddElement DEF IdsInv
    <3>2. ids'[p] = n
      BY <2>2, <1>3 DEF IdOf
    <3>3. \A q \in DOMAIN ids : ids[q] \in 0 .. n - 1
      BY DEF IdsInv, IdsAreDense
    <3>4. {ids'[q] : q \in DOMAIN ids'} = {ids[q] : q \in DOMAIN ids} \cup {n}
      BY <1>2, <1>4, <3>2
    <3>5. {ids'[q] : q \in DOMAIN ids'} = 0 .. (n + 1) - 1
      BY <3>4, <1>1 DEF IdsInv, IdsAreDense
    <3>6. ASSUME NEW q \in DOMAIN ids', NEW r \in DOMAIN ids', ids'[q] = ids'[r]
          PROVE  q = r
      <4>1. CASE q \in DOMAIN ids /\ r \in DOMAIN ids
        BY <4>1, <3>6, <1>4 DEF IdsInv, IdsAreDense
      <4>2. CASE q = p /\ r = p
        BY <4>2
      <4>3. CASE q = p /\ r \in DOMAIN ids
        <5>1. ids'[r] = n /\ ids'[r] = ids[r]
          BY <4>3, <3>6, <3>2, <1>4
        <5>2. ids[r] \in 0 .. n - 1
          BY <4>3, <3>3
        <5>. QED BY <5>1, <5>2, <1>1
      <4>4. CASE r = p /\ q \in DOMAIN ids
        <5>1. ids'[q] = n /\ ids'[q] = ids[q]
          BY <4>4, <3>6, <3>2, <1>4
        <5>2. ids[q] \in 0 .. n - 1
          BY <4>4, <3>3
        <5>. QED BY <5>1, <5>2, <1>1
      <4>. QED BY <4>1, <4>2, <4>3, <4>4, <1>2
    <3>. QED BY <3>1, <3>5, <3>6 DEF IdsAreDense
  <2>. QED BY <2>1, <2>2
<1>. QED BY <1>3, <1>4, <1>5, <1>6, <1>7, <1>8 DEF IdsInv

\* The invariant holds initially.
LEMMA InitInv == Init => IInv
<1> SUFFICES ASSUME Init PROVE IInv
  OBVIOUS
<1>1. DOMAIN ids = {Empty} /\ ids[Empty] = 0
  BY DEF Init
<1>2. IsFiniteSet(DOMAIN ids) /\ Cardinality(DOMAIN ids) = 1
  BY <1>1, FS_Singleton
<1>3. {ids[p] : p \in DOMAIN ids} = {0}
  BY <1>1
<1>4. IdsAreDense
  BY <1>1, <1>2, <1>3 DEF IdsAreDense
<1>5. ids \in [DOMAIN ids -> Nat]
  BY DEF Init
<1>6. FlightInv
  BY DEF Init, FlightInv, Agrees
<1>7. StoredInv
  BY DEF Init, StoredInv
<1>. QED BY <1>2, <1>4, <1>5, <1>6, <1>7 DEF IInv, IdsInv

\* Every step keeps the invariant.
LEMMA NextInv == IInv /\ [Next]_vars => IInv'
<1> SUFFICES ASSUME IInv, [Next]_vars PROVE IInv'
  OBVIOUS
<1> USE DEF IInv
<1>1. ASSUME NEW t \in Thread, WriteResult(t) PROVE IInv'
  <2>1. UNCHANGED <<ids, known, todo, dbPath, thrown>>
    BY <1>1 DEF WriteResult
  <2>2. IdsInv' /\ StoredInv'
    BY <2>1 DEF IdsInv, IdsAreDense, StoredInv
  <2>3. held' = [held EXCEPT ![t] = {}] /\ queue' = Append(queue, held[t])
    BY <1>1 DEF WriteResult
  <2>4. held' \in [Thread -> SUBSET Pair] /\ queue' \in Seq(SUBSET Pair)
    BY <2>3 DEF FlightInv
  <2>5. \A s \in Thread : held'[s] \subseteq held[s]
    BY <2>3 DEF FlightInv
  <2>6. \A i \in DOMAIN queue' : queue'[i] = held[t] \/ (i \in DOMAIN queue /\ queue'[i] = queue[i])
    BY <2>3 DEF FlightInv
  <2>7. \A x : Agrees(x)' <=> Agrees(x)
    BY <2>1 DEF Agrees
  <2>8. \A i \in DOMAIN queue' : \A x \in queue'[i] : Agrees(x)
    BY <2>6 DEF FlightInv
  <2>9. \A s \in Thread : \A x \in held'[s] : Agrees(x)
    BY <2>5 DEF FlightInv
  <2>10. FlightInv'
    BY <2>1, <2>4, <2>7, <2>8, <2>9 DEF FlightInv
  <2>. QED BY <2>2, <2>10
<1>2. ASSUME NEW t \in Thread, NEW p \in Path, Identify(t, p) PROVE IInv'
  <2>1. UNCHANGED <<queue, written, known, todo, dbPath, thrown>>
    BY <1>2 DEF Identify
  <2>2. ids' = Set(ids, p, IdOf(p)) /\ held' = [held EXCEPT ![t] = @ \cup {<<IdOf(p), p>>}]
    BY <1>2 DEF Identify
  <2>3. /\ IdsInv'
        /\ \A q \in DOMAIN ids : q \in DOMAIN ids' /\ ids'[q] = ids[q]
        /\ p \in DOMAIN ids' /\ ids'[p] = IdOf(p)
        /\ IdOf(p) \in Nat
    BY <2>2, IdentifyKeepsIds
  <2>4. StoredInv'
    BY <2>1, <2>3 DEF StoredInv
  <2>5. \A x : Agrees(x) => Agrees(x)'
    BY <2>3 DEF Agrees
  <2>6. \A x : x = <<IdOf(p), p>> => Agrees(x)'
    <3>1. <<IdOf(p), p>>[1] = IdOf(p) /\ <<IdOf(p), p>>[2] = p
      OBVIOUS
    <3>2. ASSUME NEW x, x = <<IdOf(p), p>> PROVE Agrees(x)'
      <4>1. x[1] = IdOf(p) /\ x[2] = p
        BY <3>1, <3>2
      <4>. QED BY <4>1, <2>3 DEF Agrees
    <3>. QED BY <3>2
  <2>7. <<IdOf(p), p>> \in Pair
    BY <2>3 DEF Pair
  <2>8. held' \in [Thread -> SUBSET Pair]
    BY <2>2, <2>7 DEF FlightInv
  <2>9. \A s \in Thread : \A x \in held'[s] : x \in held[s] \/ x = <<IdOf(p), p>>
    BY <2>2 DEF FlightInv
  <2>10. \A s \in Thread : \A x \in held'[s] : Agrees(x)'
    BY <2>5, <2>6, <2>9 DEF FlightInv
  <2>11. \A i \in DOMAIN queue' : \A x \in queue'[i] : Agrees(x)'
    BY <2>1, <2>5 DEF FlightInv
  <2>12. \A x \in todo' : Agrees(x)' /\ x[1] \in DOMAIN known' /\ known'[x[1]] = x[2]
    BY <2>1, <2>5 DEF FlightInv
  <2>13. FlightInv'
    BY <2>1, <2>8, <2>10, <2>11, <2>12 DEF FlightInv
  <2>. QED BY <2>3, <2>4, <2>13
<1>3. ASSUME BeginFeed PROVE IInv'
  <2>1. UNCHANGED <<ids, held, dbPath, thrown>>
    BY <1>3 DEF BeginFeed
  <2>2. queue # <<>> /\ queue' = Tail(queue) /\ todo' = Head(queue) /\ known' = GetFiles
    BY <1>3 DEF BeginFeed
  <2>3. IdsInv' /\ StoredInv'
    BY <2>1 DEF IdsInv, IdsAreDense, StoredInv
  <2>4. queue' \in Seq(SUBSET Pair) /\ todo' \in SUBSET Pair /\ todo' = queue[1] /\ 1 \in DOMAIN queue
    BY <2>2 DEF FlightInv
  <2>5. \A i \in DOMAIN queue' : i + 1 \in DOMAIN queue /\ queue'[i] = queue[i + 1]
    BY <2>2 DEF FlightInv
  <2>6. \A x : Agrees(x)' <=> Agrees(x)
    BY <2>1 DEF Agrees
  <2>7. \A x \in todo' : Agrees(x)
    BY <2>4 DEF FlightInv
  <2>8. \A x \in todo' : x[1] \in DOMAIN known' /\ known'[x[1]] = x[2]
    BY <2>2, <2>7, GetFilesIsInverse DEF Agrees
  <2>9. \A i \in DOMAIN queue' : \A x \in queue'[i] : Agrees(x)
    BY <2>5 DEF FlightInv
  <2>10. FlightInv'
    BY <2>1, <2>4, <2>6, <2>7, <2>8, <2>9 DEF FlightInv
  <2>. QED BY <2>3, <2>10
<1>4. ASSUME NEW x \in todo, StorePath(x) PROVE IInv'
  <2>1. UNCHANGED <<ids, held, queue, known>> /\ todo' = todo \ {x}
    BY <1>4 DEF StorePath
  <2>2. IdsInv'
    BY <2>1 DEF IdsInv, IdsAreDense
  <2>3. FlightInv'
    BY <2>1 DEF FlightInv, Agrees
  <2>4. x[1] \in DOMAIN known /\ known[x[1]] = x[2] /\ Agrees(x)
    BY DEF FlightInv
  <2>5. \/ UNCHANGED <<dbPath, thrown>>
        \/ dbPath' = Set(dbPath, x[1], x[2]) /\ UNCHANGED thrown
    BY <1>4, <2>4 DEF StorePath
  <2>6. StoredInv'
    BY <2>1, <2>4, <2>5 DEF StoredInv, Set, Agrees
  <2>. QED BY <2>2, <2>3, <2>6
<1>5. CASE UNCHANGED vars
  BY <1>5 DEF vars, IdsInv, IdsAreDense, FlightInv, StoredInv, Agrees
<1>. QED BY <1>1, <1>2, <1>3, <1>4, <1>5 DEF Next

\* The invariant is inductive.
THEOREM Inductive == Spec => []IInv
<1>. QED BY InitInv, NextInv, PTL DEF Spec

\* The ids that were given are 0, 1, ... n - 1 and no two paths share one,
\* whichever threads asked for them (getIdentification under the mutex).
THEOREM DenseIds == Spec => []IdsAreDense
<1>1. IInv => IdsAreDense
  BY DEF IInv, IdsInv
<1>. QED BY <1>1, Inductive, PTL

\* feed never looks up an id that its copy of the paths does not cover,
\* though threads go on adding ids after the copy was made.
THEOREM LookupsInRange == Spec => []NeverOutOfRange
<1>1. IInv => NeverOutOfRange
  BY DEF IInv, FlightInv, StoredInv, NeverOutOfRange
<1>. QED BY <1>1, Inductive, PTL

\* The path stored for an id is the path that the id was given for.
THEOREM PathsKept == Spec => []PathsAreThoseIdentified
<1>1. IInv => PathsAreThoseIdentified
  <2>1. SUFFICES ASSUME IInv PROVE PathsAreThoseIdentified
    OBVIOUS
  <2>2. ASSUME NEW x \in Pairs PROVE Agrees(x)
    <3>1. \/ x \in todo
          \/ \E t \in Thread : x \in held[t]
          \/ \E i \in DOMAIN queue : x \in queue[i]
      <4>1. CASE x \in UNION {queue[i] : i \in DOMAIN queue}
        <5>1. PICK S \in {queue[i] : i \in DOMAIN queue} : x \in S
          BY <4>1
        <5>. QED BY <5>1
      <4>2. CASE x \in UNION {held[t] : t \in Thread}
        <5>1. PICK S \in {held[t] : t \in Thread} : x \in S
          BY <4>2
        <5>. QED BY <5>1
      <4>. QED BY <2>2, <4>1, <4>2 DEF Pairs
    <3>. QED BY <2>1, <3>1 DEF IInv, FlightInv
  <2>. QED BY <2>1, <2>2 DEF IInv, StoredInv, PathsAreThoseIdentified, Agrees
<1>. QED BY <1>1, Inductive, PTL
=============================================================================
