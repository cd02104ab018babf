-------------------------- MODULE IndexOnceProofs ---------------------------
(***************************************************************************)
(* The inductive invariant of IndexOnce and the theorems that follow from  *)
(* it, for every set of threads, files, inclusions and addresses.          *)
(***************************************************************************)
EXTENDS IndexOnce, TLAPS

Busy == {"parsing", "indexing", "finished"}

\* Units are taken once.
UnitsInv ==
  /\ \A t \in Thread : pc[t] \in Busy => unit[t] \in 1 .. nextUnit - 1
  /\ \A s, t \in Thread : s # t /\ pc[s] \in Busy /\ pc[t] \in Busy => unit[s] # unit[t]

\* The unit of the index a thread holds: its own once initialize has run,
\* an earlier one of its own before.
BuiltInv ==
  /\ \A t \in Thread : index[t] # Null => built[t] \in 1 .. nextUnit - 1
  /\ \A t \in Thread : pc[t] = "indexing" => index[t] # Null /\ built[t] = unit[t]
  /\ \A t \in Thread : pc[t] = "parsing" /\ index[t] # Null => built[t] # unit[t]
  /\ \A s, t \in Thread : s # t /\ index[t] # Null /\ pc[s] \in Busy => built[t] # unit[s]
  /\ \A s, t \in Thread : s # t /\ index[s] # Null /\ index[t] # Null => built[s] # built[t]

\* Nothing is in the index of a unit before initialize has run for it.
EmptyInv ==
  /\ \A u \in Unit : u >= nextUnit => files[u] = {}
  /\ \A t \in Thread : pc[t] = "parsing" => files[unit[t]] = {}

\* Two live indexes have two addresses.
AddrInv ==
  /\ \A s, t \in Thread : s # t /\ index[s] # Null /\ index[t] # Null => index[s] # index[t]
  /\ \A t \in Thread : index[t] # Null => at[built[t]] = index[t]

\* What the arbiter says of the files that are in indexes.
OwnerInv ==
  /\ \A u \in Unit : \A f \in files[u] : owner[f] = at[u] /\ owner[f] # Null
  /\ \A u \in Unit : files[u] \subseteq InProject

\* The arbiter was asked for every file that has a cached answer.
CacheInv ==
  \A t \in Thread : pc[t] = "indexing" =>
    \A i \in Inclusion :
      cache[t][i] # "unknown" /\ FileOf[i] # NoFile => owner[FileOf[i]] # Null

IInv ==
  /\ TypeOK
  /\ UnitsInv
  /\ BuiltInv
  /\ EmptyInv
  /\ AddrInv
  /\ OwnerInv
  /\ CacheInv
  /\ CachedAnswersHold
  /\ AssignedIsIndexed

-----------------------------------------------------------------------------
USE FilesAssumption, AddrAssumption, UnitsAssumption DEF Null, NoFile

\* Before the first unit is taken there is nothing to check.
LEMMA InitIInv == Init => IInv
<1> SUFFICES ASSUME Init PROVE IInv
  OBVIOUS
<1>1. TypeOK
  BY DEF Init, TypeOK, Answer, NothingCached, Unit
<1>2. UnitsInv /\ BuiltInv /\ EmptyInv
  BY DEF Init, UnitsInv, BuiltInv, EmptyInv, Busy, Unit
<1>3. AddrInv /\ OwnerInv /\ CacheInv
  BY DEF Init, AddrInv, OwnerInv, CacheInv, Unit
<1>4. CachedAnswersHold /\ AssignedIsIndexed
  BY DEF Init, CachedAnswersHold, AssignedIsIndexed
<1> QED
  BY <1>1, <1>2, <1>3, <1>4 DEF IInv

\* A thread takes a unit whose number nobody has.
LEMMA StepTakeUnit ==
  ASSUME IInv, NEW t \in Thread, TakeUnit(t)
  PROVE  IInv'
<1> USE DEF IInv, TakeUnit, Goto, indexer, history, DeliverIndex
<1>1. TypeOK'
  BY DEF TypeOK, Answer, NothingCached, Unit
<1>2. UnitsInv'
  BY DEF TypeOK, UnitsInv, Busy
<1>3. BuiltInv'
  BY DEF TypeOK, BuiltInv, UnitsInv, Busy
<1>4. EmptyInv'
  BY DEF TypeOK, EmptyInv, UnitsInv, Busy, Unit
<1>5. AddrInv'
  BY DEF TypeOK, AddrInv, Live
<1>6. OwnerInv'
  BY DEF TypeOK, OwnerInv, BuiltInv, UnitsInv, EmptyInv, AddrInv, Busy
<1>7. CacheInv'
  BY DEF TypeOK, CacheInv
<1>8. CachedAnswersHold'
  BY DEF TypeOK, CachedAnswersHold, ShouldIndex, Assigned
<1>9. AssignedIsIndexed'
  BY DEF TypeOK, AssignedIsIndexed, Unit
<1> QED
  BY <1>1, <1>2, <1>3, <1>4, <1>5, <1>6, <1>7, <1>8, <1>9

\* The Indexer of a thread that exits is destroyed.
LEMMA StepNoUnitLeft ==
  ASSUME IInv, NEW t \in Thread, NoUnitLeft(t)
  PROVE  IInv'
<1> USE DEF IInv, NoUnitLeft, Goto, indexer, history, DeliverIndex
<1>1. TypeOK'
  BY DEF TypeOK, Answer, NothingCached, Unit
<1>2. UnitsInv'
  BY DEF TypeOK, UnitsInv, Busy
<1>3. BuiltInv'
  BY DEF TypeOK, BuiltInv, UnitsInv, Busy
<1>4. EmptyInv'
  BY DEF TypeOK, EmptyInv, UnitsInv, Busy, Unit
<1>5. AddrInv'
  BY DEF TypeOK, AddrInv, Live
<1>6. OwnerInv'
  BY DEF TypeOK, OwnerInv, BuiltInv, UnitsInv, EmptyInv, AddrInv, Busy
<1>7. CacheInv'
  BY DEF TypeOK, CacheInv
<1>8. CachedAnswersHold'
  BY DEF TypeOK, CachedAnswersHold, ShouldIndex, Assigned
<1>9. AssignedIsIndexed'
  BY DEF TypeOK, AssignedIsIndexed, Unit
<1> QED
  BY <1>1, <1>2, <1>3, <1>4, <1>5, <1>6, <1>7, <1>8, <1>9

\* A new index has a fresh address and contains nothing.
LEMMA StepInitialize ==
  ASSUME IInv, NEW t \in Thread, Initialize(t)
  PROVE  IInv'
<1> USE DEF IInv, Initialize, Goto, indexer, history, DeliverIndex
<1>1. TypeOK'
  <2>1. unit[t] \in Unit
    BY DEF TypeOK, UnitsInv, Busy, Unit
  <2>2. /\ built' \in [Thread -> 0 .. NbUnits]
        /\ index' \in [Thread -> Addr \cup {Null}]
        /\ at' \in [Unit -> Addr \cup {Null}]
    BY <2>1 DEF TypeOK, Unit
  <2>3. cache' \in [Thread -> [Inclusion -> Answer]]
    BY DEF TypeOK, Answer, NothingCached
  <2> QED
    BY <2>2, <2>3 DEF TypeOK
<1>2. UnitsInv'
  BY DEF TypeOK, UnitsInv, Busy
<1>3. BuiltInv'
  BY DEF TypeOK, BuiltInv, UnitsInv, Busy
<1>4. EmptyInv'
  BY DEF TypeOK, EmptyInv, UnitsInv, Busy, Unit
<1>5. AddrInv'
  <2>1. unit[t] \in Unit
    BY DEF TypeOK, UnitsInv, Busy, Unit
  <2>2. \A r, s \in Thread : r # s /\ index'[r] # Null /\ index'[s] # Null => index'[r] # index'[s]
    BY DEF TypeOK, AddrInv, Live
  <2>3. \A s \in Thread : index'[s] # Null => at'[built'[s]] = index'[s]
    <3> SUFFICES ASSUME NEW s \in Thread, index'[s] # Null PROVE at'[built'[s]] = index'[s]
      OBVIOUS
    <3>1. CASE s = t
      BY <2>1, <3>1 DEF TypeOK
    <3>2. CASE s # t
      BY <3>2 DEF TypeOK, AddrInv, BuiltInv, Busy
    <3> QED
      BY <3>1, <3>2
  <2> QED
    BY <2>2, <2>3 DEF AddrInv
<1>6. OwnerInv'
  BY DEF TypeOK, OwnerInv, BuiltInv, UnitsInv, EmptyInv, AddrInv, Busy
<1>7. CacheInv'
  <2> SUFFICES ASSUME NEW s \in Thread, pc'[s] = "indexing", NEW i \in Inclusion,
                      cache'[s][i] # "unknown", FileOf[i] # NoFile
               PROVE  owner[FileOf[i]] # Null
    BY DEF CacheInv
  <2>1. CASE s = t
    BY <2>1 DEF TypeOK, NothingCached
  <2>2. CASE s # t
    BY <2>2 DEF TypeOK, CacheInv
  <2> QED
    BY <2>1, <2>2
<1>8. CachedAnswersHold'
  <2> SUFFICES ASSUME NEW s \in Thread, pc'[s] = "indexing"
               PROVE  /\ \A i \in Inclusion : cache'[s][i] # "unknown" =>
                           (cache'[s][i] = "yes" <=> ShouldIndex(FileOf[i], index[s])')
                      /\ files'[unit'[s]] = {FileOf[i] : i \in {j \in Inclusion : cache'[s][j] = "yes"}}
    BY DEF CachedAnswersHold
  <2>1. CASE s = t
    <3>1. \A i \in Inclusion : cache'[s][i] = "unknown"
      BY <2>1 DEF TypeOK, NothingCached
    <3>2. files'[unit'[s]] = {}
      BY <2>1 DEF EmptyInv
    <3> QED
      BY <3>1, <3>2
  <2>2. CASE s # t
    <3>1. pc[s] = "indexing" /\ cache'[s] = cache[s] /\ index'[s] = index[s]
      BY <2>2 DEF TypeOK
    <3>2. \A i \in Inclusion :
            ShouldIndex(FileOf[i], index[s])' <=> ShouldIndex(FileOf[i], index[s])
      BY <3>1 DEF ShouldIndex, Assigned
    <3>3. files'[unit'[s]] = files[unit[s]]
      OBVIOUS
    <3>4. /\ \A i \in Inclusion : cache[s][i] # "unknown" =>
                (cache[s][i] = "yes" <=> ShouldIndex(FileOf[i], index[s]))
          /\ files[unit[s]] = {FileOf[i] : i \in {j \in Inclusion : cache[s][j] = "yes"}}
      BY <3>1, Zenon DEF CachedAnswersHold
    <3> QED
      BY <3>1, <3>2, <3>3, <3>4
  <2> QED
    BY <2>1, <2>2
<1>9. AssignedIsIndexed'
  BY DEF TypeOK, AssignedIsIndexed, Unit
<1> QED
  BY <1>1, <1>2, <1>3, <1>4, <1>5, <1>6, <1>7, <1>8, <1>9

\* A finished index is delivered or kept.
LEMMA StepFinish ==
  ASSUME IInv, NEW t \in Thread, Finish(t)
  PROVE  IInv'
<1> USE DEF IInv, Finish, Goto, indexer, history, DeliverIndex
<1>1. TypeOK'
  <2>1. unit[t] \in Unit /\ built[t] \in Unit
    BY DEF TypeOK, BuiltInv, UnitsInv, Busy, Unit
  <2>2. delivered' \subseteq Unit /\ finished' \subseteq Unit
    BY <2>1 DEF TypeOK
  <2>3. index' \in [Thread -> Addr \cup {Null}]
    BY DEF TypeOK
  <2>4. /\ hasContext' \in [Thread -> BOOLEAN]
        /\ pc' \in [Thread -> {"idle", "parsing", "indexing", "finished", "exited"}]
    BY DEF TypeOK
  <2> QED
    BY <2>2, <2>3, <2>4 DEF TypeOK
<1>2. UnitsInv'
  BY DEF TypeOK, UnitsInv, Busy
<1>3. BuiltInv'
  BY DEF TypeOK, BuiltInv, UnitsInv, Busy
<1>4. EmptyInv'
  BY DEF TypeOK, EmptyInv, UnitsInv, Busy, Unit
<1>5. AddrInv'
  BY DEF TypeOK, AddrInv, Live
<1>6. OwnerInv'
  BY DEF TypeOK, OwnerInv, BuiltInv, UnitsInv, EmptyInv, AddrInv, Busy
<1>7. CacheInv'
  BY DEF TypeOK, CacheInv
<1>8. CachedAnswersHold'
  BY DEF TypeOK, CachedAnswersHold, ShouldIndex, Assigned
<1>9. AssignedIsIndexed'
  BY DEF TypeOK, AssignedIsIndexed, Unit
<1> QED
  BY <1>1, <1>2, <1>3, <1>4, <1>5, <1>6, <1>7, <1>8, <1>9

\* What the Indexer keeps after an invocation is left as it was.
LEMMA StepInvocationReturns ==
  ASSUME IInv, NEW t \in Thread, InvocationReturns(t)
  PROVE  IInv'
<1> USE DEF IInv, InvocationReturns, Goto, indexer, history, DeliverIndex
<1>1. TypeOK'
  <2>1. index[t] # Null => built[t] \in Unit
    BY DEF TypeOK, BuiltInv, Unit
  <2>2. delivered' \subseteq Unit
    BY <2>1 DEF TypeOK
  <2>3. index' \in [Thread -> Addr \cup {Null}]
    BY DEF TypeOK
  <2>4. /\ unit' \in [Thread -> 0 .. NbUnits]
        /\ pc' \in [Thread -> {"idle", "parsing", "indexing", "finished", "exited"}]
    BY DEF TypeOK
  <2> QED
    BY <2>2, <2>3, <2>4 DEF TypeOK
<1>2. UnitsInv'
  BY DEF TypeOK, UnitsInv, Busy
<1>3. BuiltInv'
  BY DEF TypeOK, BuiltInv, UnitsInv, Busy
<1>4. EmptyInv'
  BY DEF TypeOK, EmptyInv, UnitsInv, Busy, Unit
<1>5. AddrInv'
  BY DEF TypeOK, AddrInv, Live
<1>6. OwnerInv'
  BY DEF TypeOK, OwnerInv, BuiltInv, UnitsInv, EmptyInv, AddrInv, Busy
<1>7. CacheInv'
  BY DEF TypeOK, CacheInv
<1>8. CachedAnswersHold'
  BY DEF TypeOK, CachedAnswersHold, ShouldIndex, Assigned
<1>9. AssignedIsIndexed'
  BY DEF TypeOK, AssignedIsIndexed, Unit
<1> QED
  BY <1>1, <1>2, <1>3, <1>4, <1>5, <1>6, <1>7, <1>8, <1>9

\* What one question to the arbiter changes: the asking thread's cache, the
\* file's owner if it had none, and the files of the asking thread's unit.
AskEffect(t, i) ==
  /\ pc' = pc /\ unit' = unit /\ index' = index /\ built' = built
  /\ at' = at /\ nextUnit' = nextUnit
  /\ pc[t] = "indexing" /\ cache[t][i] = "unknown"
  /\ unit[t] \in Unit /\ built[t] = unit[t] /\ index[t] \in Addr
  /\ \A f \in File : owner'[f] # owner[f] =>
       f = FileOf[i] /\ owner[f] = Null /\ owner'[f] = index[t]
  /\ \A s \in Thread \ {t} : cache'[s] = cache[s]
  /\ \A j \in Inclusion \ {i} : cache'[t][j] = cache[t][j]
  /\ \A u \in Unit \ {unit[t]} : files'[u] = files[u]
  /\ FileOf[i] # NoFile => owner'[FileOf[i]] # Null

\* A question has that effect.
LEMMA AskFacts ==
  ASSUME IInv, NEW t \in Thread, NEW i \in Inclusion, ShouldIndexFile(t, i)
  PROVE  AskEffect(t, i)
<1> USE DEF IInv, ShouldIndexFile, indexer, history
<1>1. /\ pc' = pc /\ unit' = unit /\ index' = index /\ built' = built
      /\ at' = at /\ nextUnit' = nextUnit
      /\ pc[t] = "indexing" /\ cache[t][i] = "unknown"
  OBVIOUS
<1>2. unit[t] \in Unit /\ built[t] = unit[t] /\ index[t] \in Addr
  BY DEF TypeOK, UnitsInv, BuiltInv, Busy, Unit
<1>3. \A f \in File : owner'[f] # owner[f] =>
        f = FileOf[i] /\ owner[f] = Null /\ owner'[f] = index[t]
  BY DEF TypeOK, Claim
<1>4. /\ \A s \in Thread \ {t} : cache'[s] = cache[s]
      /\ \A j \in Inclusion \ {i} : cache'[t][j] = cache[t][j]
  BY DEF TypeOK
<1>5. \A u \in Unit \ {unit[t]} : files'[u] = files[u]
  BY DEF TypeOK
<1>6. FileOf[i] # NoFile => owner'[FileOf[i]] # Null
  BY <1>2 DEF TypeOK, Claim
<1> QED
  BY <1>1, <1>2, <1>3, <1>4, <1>5, <1>6 DEF AskEffect

\* The answer decides what is cached and whether the file enters the index;
\* either way the arbiter would answer the same afterwards.
Accepted(t, i) ==
  /\ cache'[t][i] = "yes"
  /\ files'[unit[t]] = files[unit[t]] \cup {FileOf[i]}
  /\ FileOf[i] \in InProject
  /\ owner[FileOf[i]] \in {Null, index[t]}
  /\ owner'[FileOf[i]] = index[t]

Refused(t, i) ==
  /\ cache'[t][i] = "no"
  /\ files'[unit[t]] = files[unit[t]]
  /\ FileOf[i] # NoFile => FileOf[i] \notin InProject \/ owner'[FileOf[i]] # index[t]
  /\ FileOf[i] # NoFile /\ owner[FileOf[i]] = Null => FileOf[i] \notin InProject

\* There is no third answer.
LEMMA AnswerFacts ==
  ASSUME IInv, NEW t \in Thread, NEW i \in Inclusion, ShouldIndexFile(t, i)
  PROVE  Accepted(t, i) \/ Refused(t, i)
<1> USE DEF IInv, ShouldIndexFile
<1>1. unit[t] \in Unit /\ index[t] \in Addr
  BY AskFacts DEF AskEffect
<1>2. CASE ShouldIndex(FileOf[i], index[t])
  <2>1. cache'[t][i] = "yes" /\ files'[unit[t]] = files[unit[t]] \cup {FileOf[i]}
    BY <1>1, <1>2 DEF TypeOK
  <2>2. /\ FileOf[i] \in InProject
        /\ owner[FileOf[i]] \in {Null, index[t]}
        /\ owner'[FileOf[i]] = index[t]
    BY <1>1, <1>2 DEF TypeOK, ShouldIndex, Assigned, Claim
  <2> QED
    BY <2>1, <2>2 DEF Accepted
<1>3. CASE ~ShouldIndex(FileOf[i], index[t])
  <2>1. cache'[t][i] = "no" /\ files'[unit[t]] = files[unit[t]]
    BY <1>1, <1>3 DEF TypeOK
  <2>2. /\ FileOf[i] # NoFile => FileOf[i] \notin InProject \/ owner'[FileOf[i]] # index[t]
        /\ FileOf[i] # NoFile /\ owner[FileOf[i]] = Null => FileOf[i] \notin InProject
    BY <1>1, <1>3 DEF TypeOK, ShouldIndex, Assigned, Claim
  <2> QED
    BY <2>1, <2>2 DEF Refused
<1> QED
  BY <1>2, <1>3

\* A question to the arbiter.
LEMMA StepShouldIndexFile ==
  ASSUME IInv, NEW t \in Thread, NEW i \in Inclusion, ShouldIndexFile(t, i)
  PROVE  IInv'
<1>a. AskEffect(t, i)
  BY AskFacts
<1>b. Accepted(t, i) \/ Refused(t, i)
  BY AnswerFacts
<1> USE <1>a, <1>b DEF IInv, AskEffect, Accepted, Refused
<1>1. TypeOK'
  <2>1. owner' \in [File -> Addr \cup {Null}]
    BY DEF TypeOK, ShouldIndexFile, Claim
  <2>2. cache' \in [Thread -> [Inclusion -> Answer]]
    BY DEF TypeOK, ShouldIndexFile, Answer
  <2>3. files' \in [Unit -> SUBSET File]
    BY DEF TypeOK, ShouldIndexFile
  <2> QED
    BY <2>1, <2>2, <2>3 DEF TypeOK, ShouldIndexFile
<1>2. UnitsInv' /\ BuiltInv'
  BY DEF UnitsInv, BuiltInv
<1>3. EmptyInv'
  <2>1. \A u \in Unit : u >= nextUnit => u # unit[t]
    BY DEF UnitsInv, Busy, Unit, TypeOK
  <2>2. \A s \in Thread : pc[s] = "parsing" => unit[s] \in Unit /\ unit[s] # unit[t]
    BY DEF UnitsInv, Busy, Unit, TypeOK
  <2> QED
    BY <2>1, <2>2 DEF EmptyInv
<1>4. AddrInv'
  BY DEF AddrInv, TypeOK
<1>5. OwnerInv'
  <2>1. at[unit[t]] = index[t]
    BY DEF AddrInv, TypeOK
  <2>2. \A u \in Unit : files[u] \subseteq File
    BY DEF TypeOK
  <2>3. ASSUME NEW u \in Unit, NEW f \in files'[u]
        PROVE  owner'[f] = at[u] /\ owner'[f] # Null /\ f \in InProject
    <3>1. CASE f \in files[u]
      <4>1. f \in File /\ owner[f] = at[u] /\ owner[f] # Null /\ f \in InProject
        BY <2>2, <3>1 DEF OwnerInv
      <4> QED
        BY <4>1
    <3>2. CASE f \notin files[u]
      BY <2>1, <3>2
    <3> QED
      BY <3>1, <3>2
  <2> QED
    BY <2>3 DEF OwnerInv
<1>6. CacheInv'
  <2> SUFFICES ASSUME NEW s \in Thread, pc[s] = "indexing", NEW j \in Inclusion,
                      cache'[s][j] # "unknown", FileOf[j] # NoFile
               PROVE  owner'[FileOf[j]] # Null
    BY DEF CacheInv
  <2>1. FileOf[j] \in File
    OBVIOUS
  <2>2. CASE s = t /\ j = i
    BY <2>2
  <2>3. CASE ~(s = t /\ j = i)
    <3>1. cache'[s][j] = cache[s][j]
      BY <2>3
    <3>2. owner[FileOf[j]] # Null
      BY <3>1 DEF CacheInv
    <3> QED
      BY <2>1, <3>2
  <2> QED
    BY <2>2, <2>3
<1>7. CachedAnswersHold'
  <2> SUFFICES ASSUME NEW s \in Thread, pc[s] = "indexing"
               PROVE  /\ \A j \in Inclusion : cache'[s][j] # "unknown" =>
                           (cache'[s][j] = "yes" <=> ShouldIndex(FileOf[j], index[s])')
                      /\ files'[unit[s]] = {FileOf[j] : j \in {k \in Inclusion : cache'[s][k] = "yes"}}
    BY DEF CachedAnswersHold
  <2>1. \A j \in Inclusion : cache[s][j] # "unknown" =>
          (ShouldIndex(FileOf[j], index[s])' <=> ShouldIndex(FileOf[j], index[s]))
    BY DEF CacheInv, ShouldIndex, Assigned, TypeOK
  <2>2. CASE s = t
    <3>1. ShouldIndex(FileOf[i], index[t])' <=> cache'[t][i] = "yes"
      BY DEF ShouldIndex, Assigned
    <3>2. cache[t][i] = "unknown"
      BY DEF ShouldIndexFile
    <3> QED
      BY <2>1, <2>2, <3>1, <3>2 DEF CachedAnswersHold
  <2>3. CASE s # t
    <3>1. unit[s] \in Unit /\ unit[s] # unit[t]
      BY <2>3 DEF UnitsInv, Busy, TypeOK, Unit
    <3> QED
      BY <2>1, <2>3, <3>1 DEF CachedAnswersHold
  <2> QED
    BY <2>2, <2>3
<1>8. AssignedIsIndexed'
  <2> SUFFICES ASSUME NEW f \in InProject, owner'[f] # Null
               PROVE  \E u \in Unit : f \in files'[u]
    BY DEF AssignedIsIndexed
  <2>1. CASE owner[f] # Null
    <3>1. PICK u \in Unit : f \in files[u]
      BY <2>1 DEF AssignedIsIndexed
    <3>2. f \in files'[u]
      BY <3>1
    <3> QED
      BY <3>1, <3>2
  <2>2. CASE owner[f] = Null
    <3>1. f = FileOf[i]
      BY <2>2
    <3>2. f \in files'[unit[t]]
      BY <2>2, <3>1
    <3> QED
      BY <3>2
  <2> QED
    BY <2>1, <2>2
<1> QED
  BY <1>1, <1>2, <1>3, <1>4, <1>5, <1>6, <1>7, <1>8

\* The invariant holds in every state of every behaviour.
THEOREM Inductive == Spec => []IInv
<1>1. IInv /\ [Next]_vars => IInv'
  <2> SUFFICES ASSUME IInv, [Next]_vars PROVE IInv'
    OBVIOUS
  <2>1. CASE \E t \in Thread : ThreadNext(t)
    <3>1. PICK t \in Thread : ThreadNext(t)
      BY <2>1
    <3> QED
      BY <3>1, StepTakeUnit, StepNoUnitLeft, StepInitialize, StepShouldIndexFile,
         StepFinish, StepInvocationReturns DEF ThreadNext
  <2>2. CASE UNCHANGED vars
    BY <2>2 DEF vars, indexer, history, IInv, TypeOK, UnitsInv, BuiltInv, EmptyInv, AddrInv,
       OwnerInv, CacheInv, CachedAnswersHold, ShouldIndex, Assigned, AssignedIsIndexed
  <2> QED
    BY <2>1, <2>2 DEF Next, Done
<1> QED
  BY <1>1, InitIInv, PTL DEF Spec

\* Every variable keeps its type.
THEOREM TypeCorrect == Spec => []TypeOK
<1>1. IInv => TypeOK
  BY DEF IInv
<1> QED
  BY <1>1, Inductive, PTL

\* Two live indexes never share a file, whatever addresses are reused: the
\* owner of a file is one address, and two live indexes have two.
THEOREM NoConcurrentIndexing == Spec => []DisjointWhileLive
<1>1. IInv => DisjointWhileLive
  <2> SUFFICES ASSUME IInv, NEW s \in Thread, NEW t \in Thread, s # t,
                      index[s] # Null, index[t] # Null,
                      NEW f \in files[built[s]] \cap files[built[t]]
               PROVE  FALSE
    BY DEF DisjointWhileLive
  <2>1. built[s] \in Unit /\ built[t] \in Unit
    BY DEF IInv, TypeOK, BuiltInv, Unit
  <2>2. owner[f] = index[s] /\ owner[f] = index[t]
    BY <2>1 DEF IInv, OwnerInv, AddrInv
  <2> QED
    BY <2>2 DEF IInv, AddrInv
<1> QED
  BY <1>1, Inductive, PTL

\* Two units that have a file in common had their indexes at the same
\* address: without reuse of addresses, no file would be indexed twice.
THEOREM OnceWithoutReuse == Spec => []SharedOnlyByReuse
<1>1. IInv => SharedOnlyByReuse
  BY DEF IInv, OwnerInv, SharedOnlyByReuse
<1> QED
  BY <1>1, Inductive, PTL

\* A cached answer is what the arbiter would still say.
THEOREM CacheIsCurrent == Spec => []CachedAnswersHold
<1>1. IInv => CachedAnswersHold
  BY DEF IInv
<1> QED
  BY <1>1, Inductive, PTL

\* An assigned project file is in some index.
THEOREM NoFileSkipped == Spec => []AssignedIsIndexed
<1>1. IInv => AssignedIsIndexed
  BY DEF IInv
<1> QED
  BY <1>1, Inductive, PTL

-----------------------------------------------------------------------------
(* The Indexer's AST context.                                              *)

\* A unit is finished by the thread that works on it, once.
FinishedInv ==
  /\ \A u \in finished : u < nextUnit
  /\ \A t \in Thread : pc[t] \in {"parsing", "indexing"} => unit[t] \notin finished

ContextInv == FinishedInv /\ ContextOutlivesNoFinish

\* No step leaves a context behind that belongs to a finished unit.
LEMMA ContextStep ==
  ASSUME IInv, ContextInv, NEW t \in Thread, ThreadNext(t)
  PROVE  ContextInv'
<1> USE DEF IInv, ContextInv, Goto, indexer, history, DeliverIndex
<1>1. CASE TakeUnit(t)
  <2> USE <1>1 DEF TakeUnit
  <2>1. nextUnit \in Nat /\ nextUnit' = nextUnit + 1 /\ finished \subseteq Nat
    BY DEF TypeOK, Unit
  <2>2. nextUnit \notin finished
    BY <2>1 DEF FinishedInv
  <2>3. FinishedInv'
    BY <2>1, <2>2 DEF FinishedInv, TypeOK
  <2>4. ContextOutlivesNoFinish'
    BY DEF ContextOutlivesNoFinish, TypeOK
  <2> QED
    BY <2>3, <2>4
<1>2. CASE NoUnitLeft(t)
  BY <1>2 DEF NoUnitLeft, FinishedInv, ContextOutlivesNoFinish, TypeOK
<1>3. CASE Initialize(t)
  BY <1>3 DEF Initialize, FinishedInv, ContextOutlivesNoFinish, TypeOK
<1>4. CASE \E i \in Inclusion : ShouldIndexFile(t, i)
  BY <1>4 DEF ShouldIndexFile, FinishedInv, ContextOutlivesNoFinish, TypeOK
<1>5. CASE Finish(t)
  <2> USE <1>5 DEF Finish
  <2>1. unit[t] \in 1 .. nextUnit - 1 /\ nextUnit \in Nat
    BY DEF UnitsInv, Busy, TypeOK
  <2>2. \A s \in Thread \ {t} : pc[s] \in {"parsing", "indexing"} => unit[s] # unit[t]
    BY DEF UnitsInv, Busy
  <2>3. \A s \in Thread \ {t} : index[s] # Null => built[s] # unit[t]
    BY DEF BuiltInv, Busy
  <2>4. FinishedInv'
    BY <2>1, <2>2 DEF FinishedInv, TypeOK
  <2>5. ContextOutlivesNoFinish'
    BY <2>3 DEF ContextOutlivesNoFinish, TypeOK
  <2> QED
    BY <2>4, <2>5
<1>6. CASE InvocationReturns(t)
  <2> USE <1>6 DEF InvocationReturns
  <2>1. FinishedInv'
    BY DEF FinishedInv, TypeOK
  <2>2. pc[t] = "indexing" => built[t] \notin finished
    BY DEF BuiltInv, FinishedInv
  <2>3. \A s \in Thread : index'[s] # Null => index'[s] = index[s]
    BY DEF TypeOK
  <2>4. ContextOutlivesNoFinish'
    BY <2>2, <2>3 DEF ContextOutlivesNoFinish, TypeOK
  <2> QED
    BY <2>1, <2>4
<1> QED
  BY <1>1, <1>2, <1>3, <1>4, <1>5, <1>6 DEF ThreadNext

\* Outside of initialize .. finish the Indexer only handles diagnostics if
\* the unit whose index it still holds never reached finish.
THEOREM ContextIsOwn == Spec => []ContextOutlivesNoFinish
<1>1. Init => ContextInv
  BY DEF Init, ContextInv, FinishedInv, ContextOutlivesNoFinish
<1>2. IInv /\ ContextInv /\ [Next]_vars => ContextInv'
  <2> SUFFICES ASSUME IInv, ContextInv, [Next]_vars PROVE ContextInv'
    OBVIOUS
  <2>1. CASE \E t \in Thread : ThreadNext(t)
    BY <2>1, ContextStep
  <2>2. CASE UNCHANGED vars
    BY <2>2 DEF vars, indexer, history, ContextInv, FinishedInv, ContextOutlivesNoFinish
  <2> QED
    BY <2>1, <2>2 DEF Next, Done
<1>3. ContextInv => ContextOutlivesNoFinish
  BY DEF ContextInv
<1> QED
  BY <1>1, <1>2, <1>3, Inductive, PTL DEF Spec
=============================================================================
