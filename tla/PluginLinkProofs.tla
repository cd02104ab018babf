-------------------------- MODULE PluginLinkProofs --------------------------
(***************************************************************************)
(* The inductive invariant of PluginLink and the theorems that follow from *)
(* it, for any number of compilations, directories and links.              *)
(***************************************************************************)
EXTENDS PluginLink, TLAPS

\* The compilations that have not opened a file yet.
Young == {"idle", "directory", "probe", "create", "open"}
Place == Ended \cup Young \cup {"tables", "write"}

\* What a compilation is and where its snapshot may be.
JobInv ==
  /\ setting \in Settings
  /\ pc \in [Job -> Place]
  /\ number \in [Job -> 1 .. MaxNumber]
  /\ db \in [Job -> Job \cup {NoJob}]
  /\ \A j \in Job : pc[j] \in {"tables", "write"} => db[j] # NoJob
  /\ entry \in [Path -> Job \cup {NoJob}]
  /\ stored \in [Job -> SUBSET Row]
  /\ open \in [Job -> BOOLEAN]
  /\ pending \in [Job -> SUBSET ToSet(Parts)]
  /\ written \in [Job -> 0 .. Len(Parts)]
  /\ tables \subseteq Job
  /\ raced \subseteq Job

\* An inode has one name, given by the compilation that created it.
InodeInv ==
  /\ \A j \in Job : pc[j] \in Young => j \notin tables /\ (\A p \in Path : entry[p] # j) /\ (\A k \in Job : db[k] # j)
  /\ \A p, q \in Path : entry[p] = entry[q] /\ entry[p] # NoJob => p = q
  /\ \A p \in Path : entry[p] # NoJob => p.dir \in dirs

\* The rows of a compilation are in one inode, which no other one writes to.
StoreInv ==
  /\ \A i \in Job : stored[i] # {} => i \in tables
  /\ \A j \in Job : pc[j] = "write" => db[j] \in tables
  /\ \A j, k \in Job : pc[j] = "write" /\ pc[k] = "write" /\ db[j] = db[k] => j = k
  /\ \A i \in Job : \A r \in stored[i] :
       /\ pc[r[1]] \in Ended \cup {"write"}
       /\ pc[r[1]] = "write" => db[r[1]] = i
  /\ \A j \in Job : pc[j] = "write" => \A r \in stored[db[j]] : r[1] = j
  /\ \A i, k \in Job : \A r : r \in stored[i] /\ r \in stored[k] => i = k
  /\ SnapshotsAreNotShared

\* A compilation that runs alone finds everything as it left it.
Ready(j) ==
  /\ ~LinkRuns
  /\ \A k \in Job : k # j /\ Runs(k) => Numbered(k, 1) # Numbered(j, 1)
  /\ pc[j] # "directory" => OutDir(j) \in dirs
  /\ pc[j] \in {"create", "open"} => entry[Numbered(j, number[j])] = NoJob
  /\ pc[j] = "tables" => /\ db[j] = j /\ j \notin tables /\ entry[Numbered(j, number[j])] = j
                         /\ \A k \in Job : k # j => db[k] # j

AloneInv == \A j \in Job : Runs(j) /\ j \notin raced => Ready(j)

-----------------------------------------------------------------------------
(* Steps.                                                                  *)

USE LinkAssumption

\* What a compilation does.
Compiles(j) == Begin(j) \/ Progress(j) \/ Kill(j)

\* What a link never changes.
LEMMA LinkFrame ==
  ASSUME LinkNext
  PROVE  /\ UNCHANGED <<compilation, tables, stored>>
         /\ phase # "remove" => UNCHANGED disk
         /\ raced \subseteq raced'
BY DEF LinkNext, Pass, Stop, LinkRuns, disk, history, link, search, merge,
       StartLink, Search, SearchThrows, Searched, ListDirectory, NothingFound, RemoveOutput, OpenInput,
       SkipInput, HomeMissing, HomeKnown, ReadInput, InputsKept, Merged, RemoveSnapshot, RemoveDirectory,
       RemoveThrows, InputsRemoved, LinkKilled

\* What a compilation never changes.
LEMMA CompilerFrame ==
  ASSUME NEW j \in Job, Compiles(j)
  PROVE  UNCHANGED <<setting, link, promised>>
BY DEF Compiles, Progress, Goto, End, compilation, disk, history, connection,
       Begin, MakeDirectory, NameTaken, NameFree, CreateRefused, CreateAgreed, OpenFile, DirectoryGone,
       CreateTables, NoTables, Commit, CommitFails, CloseSnapshot, Kill

\* The names that a compilation tries are paths.
LEMMA NamesArePaths ==
  ASSUME JobInv, NEW j \in Job, NEW n \in 1 .. MaxNumber
  PROVE  Numbered(j, n) \in Path /\ Numbered(j, number[j]) \in Path /\ Numbered(j, n).dir = OutDir(j)
BY DEF JobInv, Numbered, OutDir, Path

\* The parts of a snapshot are three.
LEMMA ThreeParts == Len(Parts) = 3 /\ \A n \in 1 .. 3 : Parts[n] \in ToSet(Parts)
BY DEF Parts, ToSet

\* A compilation keeps the types.
LEMMA JobCompiles ==
  ASSUME JobInv, NEW j \in Job, Compiles(j)
  PROVE  JobInv'
<1> USE DEF JobInv, Goto, End, connection, disk, history, link, compilation, Place, Ended, Young
<1>0. Numbered(j, number[j]) \in Path
  BY NamesArePaths
<1>1. CASE Begin(j)
  BY <1>1 DEF Begin
<1>2. CASE MakeDirectory(j)
  BY <1>2 DEF MakeDirectory
<1>3. CASE NameTaken(j)
  BY <1>3 DEF NameTaken
<1>4. CASE NameFree(j)
  BY <1>4 DEF NameFree
<1>5. CASE CreateRefused(j)
  BY <1>5 DEF CreateRefused
<1>6. CASE CreateAgreed(j)
  BY <1>6 DEF CreateAgreed
<1>7. CASE OpenFile(j)
  BY <1>0, <1>7 DEF OpenFile
<1>8. CASE DirectoryGone(j)
  BY <1>8 DEF DirectoryGone
<1>9. CASE CreateTables(j)
  BY <1>9 DEF CreateTables
<1>10. CASE NoTables(j)
  BY <1>10 DEF NoTables
<1>11. CASE Commit(j)
  <2>1. Part(j) \in ToSet(Parts) /\ written[j] + 1 \in 0 .. Len(Parts)
    BY <1>11, ThreeParts DEF Commit, Part
  <2>2. CASE open[j] /\ Part(j) = "home"
    <3>1. pending' = [pending EXCEPT ![j] = @ \cup {Part(j)}] /\ UNCHANGED <<open, stored>>
      BY <1>11, <2>2 DEF Commit
    <3>2. pending' \in [Job -> SUBSET ToSet(Parts)]
      BY <2>1, <3>1
    <3>3. QED
      BY <1>11, <2>1, <3>1, <3>2 DEF Commit
  <2>3. CASE ~(open[j] /\ Part(j) = "home")
    <3>1. {j} \X (pending[j] \cup {Part(j)}) \subseteq Row
      BY <2>1 DEF Row
    <3>2. stored' = [stored EXCEPT ![db[j]] = @ \cup ({j} \X (pending[j] \cup {Part(j)}))]
          /\ open' = [open EXCEPT ![j] = FALSE] /\ pending' = [pending EXCEPT ![j] = {}]
      BY <1>11, <2>3 DEF Commit
    <3>3. stored' \in [Job -> SUBSET Row]
      BY <3>1, <3>2
    <3>4. QED
      BY <1>11, <2>1, <3>2, <3>3 DEF Commit
  <2>4. QED
    BY <2>2, <2>3
<1>12. CASE CommitFails(j)
  <2>1. Part(j) \in ToSet(Parts) /\ written[j] + 1 \in 0 .. Len(Parts)
    BY <1>12, ThreeParts DEF CommitFails, Part
  <2>2. CASE Part(j) = "home"
    BY <1>12, <2>1, <2>2 DEF CommitFails
  <2>3. CASE Part(j) # "home"
    <3>1. pending' = [pending EXCEPT ![j] = @ \cup {Part(j)}] /\ open' = [open EXCEPT ![j] = TRUE]
      BY <1>12, <2>3 DEF CommitFails
    <3>2. pending' \in [Job -> SUBSET ToSet(Parts)] /\ open' \in [Job -> BOOLEAN]
      BY <2>1, <3>1
    <3>3. QED
      BY <1>12, <2>1, <3>2 DEF CommitFails
  <2>4. QED
    BY <2>2, <2>3
<1>13. CASE CloseSnapshot(j)
  BY <1>13 DEF CloseSnapshot
<1>14. CASE Kill(j)
  BY <1>14 DEF Kill
<1>15. QED
  BY <1>1, <1>2, <1>3, <1>4, <1>5, <1>6, <1>7, <1>8, <1>9, <1>10, <1>11, <1>12, <1>13, <1>14 DEF Compiles, Progress

\* An inode keeps its name while compilers run.
LEMMA InodeCompiles ==
  ASSUME JobInv, InodeInv, NEW j \in Job, Compiles(j)
  PROVE  InodeInv'
<1> USE DEF JobInv, InodeInv, Goto, End, connection, disk, history, link, compilation, Place, Ended, Young
<1>0. Numbered(j, number[j]) \in Path
  BY NamesArePaths
<1>1. CASE Begin(j)
  BY <1>1 DEF Begin
<1>2. CASE MakeDirectory(j)
  BY <1>2 DEF MakeDirectory
<1>3. CASE NameTaken(j)
  BY <1>3 DEF NameTaken
<1>4. CASE NameFree(j)
  BY <1>4 DEF NameFree
<1>5. CASE CreateRefused(j)
  BY <1>5 DEF CreateRefused
<1>6. CASE CreateAgreed(j)
  BY <1>6 DEF CreateAgreed
<1>7. CASE OpenFile(j)
  <2> DEFINE p == Numbered(j, number[j])
  <2>1. /\ pc[j] = "open" /\ pc' = [pc EXCEPT ![j] = "tables"] /\ p.dir \in dirs /\ UNCHANGED <<dirs, tables>>
        /\ entry' = IF entry[p] = NoJob THEN [entry EXCEPT ![p] = j] ELSE entry
        /\ db' = [db EXCEPT ![j] = entry'[p]]
    BY <1>7 DEF OpenFile
  <2> HIDE DEF p
  <2>2. p \in Path
    BY <1>0 DEF p
  <2>3. \A q \in Path : entry'[q] = IF q = p /\ entry[p] = NoJob THEN j ELSE entry[q]
    BY <2>1, <2>2
  <2>4. \A k \in Job : db'[k] = IF k = j THEN entry'[p] ELSE db[k]
    BY <2>1
  <2>5. \A q \in Path : entry[q] # j
    BY <2>1
  <2>6. \A k \in Job : pc'[k] \in Young => k # j /\ pc[k] \in Young
    BY <2>1
  <2>7. \A k \in Job : pc'[k] \in Young =>
          k \notin tables' /\ (\A q \in Path : entry'[q] # k) /\ (\A i \in Job : db'[i] # k)
    BY <2>1, <2>2, <2>3, <2>4, <2>6
  <2>8. \A q, x \in Path : entry'[q] = entry'[x] /\ entry'[q] # NoJob => q = x
    BY <2>2, <2>3, <2>5
  <2>9. \A q \in Path : entry'[q] # NoJob => q.dir \in dirs'
    BY <2>1, <2>2, <2>3
  <2>10. QED
    BY <2>7, <2>8, <2>9
<1>8. CASE DirectoryGone(j)
  BY <1>8 DEF DirectoryGone
<1>9. CASE CreateTables(j)
  BY <1>9 DEF CreateTables
<1>10. CASE NoTables(j)
  BY <1>10 DEF NoTables
<1>11. CASE Commit(j)
  BY <1>11 DEF Commit
<1>12. CASE CommitFails(j)
  BY <1>12 DEF CommitFails
<1>13. CASE CloseSnapshot(j)
  BY <1>13 DEF CloseSnapshot
<1>14. CASE Kill(j)
  BY <1>14 DEF Kill
<1>15. QED
  BY <1>1, <1>2, <1>3, <1>4, <1>5, <1>6, <1>7, <1>8, <1>9, <1>10, <1>11, <1>12, <1>13, <1>14 DEF Compiles, Progress

\* The rows of a compilation stay in one inode while compilers run.
LEMMA StoreCompiles ==
  ASSUME JobInv, InodeInv, StoreInv, NEW j \in Job, Compiles(j)
  PROVE  StoreInv'
<1> USE DEF JobInv, StoreInv, SnapshotsAreNotShared, Goto, End, connection, disk, history, link, compilation,
            Place, Ended, Young
<1>00. \A i \in Job : \A r \in stored[i] : r[1] \in Job
  BY DEF Row
<1>1. CASE Begin(j)
  BY <1>00, <1>1 DEF Begin
<1>2. CASE MakeDirectory(j)
  BY <1>00, <1>2 DEF MakeDirectory
<1>3. CASE NameTaken(j)
  BY <1>00, <1>3 DEF NameTaken
<1>4. CASE NameFree(j)
  BY <1>00, <1>4 DEF NameFree
<1>5. CASE CreateRefused(j)
  BY <1>00, <1>5 DEF CreateRefused
<1>6. CASE CreateAgreed(j)
  BY <1>00, <1>6 DEF CreateAgreed
<1>7. CASE OpenFile(j)
  BY <1>00, <1>7 DEF OpenFile
<1>8. CASE DirectoryGone(j)
  BY <1>00, <1>8 DEF DirectoryGone
<1>9. CASE CreateTables(j)
  <2>1. /\ pc[j] = "tables" /\ pc' = [pc EXCEPT ![j] = "write"] /\ db[j] \in Job /\ db[j] \notin tables
        /\ tables' = tables \cup {db[j]} /\ UNCHANGED <<db, stored>>
    BY <1>9 DEF CreateTables
  <2>2. stored[db[j]] = {}
    BY <2>1
  <2>3. \A i \in Job : \A r \in stored[i] : r[1] # j
    BY <2>1
  <2>4. \A k \in Job : pc'[k] = "write" <=> (k = j \/ pc[k] = "write")
    BY <2>1
  <2>5. \A k \in Job : pc[k] = "write" => db[k] # db[j]
    BY <2>1
  <2>6. \A i \in Job : \A r \in stored[i] : pc'[r[1]] = pc[r[1]]
    BY <1>00, <2>1, <2>3
  <2>7. QED
    BY <2>1, <2>2, <2>4, <2>5, <2>6
<1>10. CASE NoTables(j)
  BY <1>00, <1>10 DEF NoTables
<1>11. CASE Commit(j)
  <2>1. pc[j] = "write" /\ db[j] \in Job /\ UNCHANGED <<pc, db, tables>>
    BY <1>11 DEF Commit
  <2>2. CASE stored' = stored
    BY <2>1, <2>2
  <2>3. CASE \E new : stored' = [stored EXCEPT ![db[j]] = @ \cup ({j} \X new)]
    <3>1. PICK new : stored' = [stored EXCEPT ![db[j]] = @ \cup ({j} \X new)]
      BY <2>3
    <3>2. \A i \in Job : i # db[j] => stored'[i] = stored[i]
      BY <3>1
    <3>3. \A r : r \in stored'[db[j]] <=> (r \in stored[db[j]] \/ r \in {j} \X new)
      BY <2>1, <3>1
    <3>4. \A r \in {j} \X new : r[1] = j
      OBVIOUS
    <3> HIDE DEF JobInv
    <3>5. \A i \in Job : \A r \in stored'[i] : r[1] \in Job /\ (r \in stored[i] \/ (i = db[j] /\ r[1] = j))
      BY <1>00, <3>2, <3>3, <3>4
    <3>6. \A i \in Job : \A r \in stored'[i] : r[1] = j => i = db[j]
      BY <2>1, <3>5
    <3>7. \A r \in stored'[db[j]] : r[1] = j
      BY <2>1, <3>5
    <3>8. \A i, k \in Job : \A r : r \in stored'[i] /\ r \in stored'[k] => i = k
      BY <3>5, <3>6
    <3>9. \A i \in Job : \A r, q \in stored'[i] : r[1] = q[1]
      BY <3>2, <3>7
    <3>10. \A i \in Job : \A r \in stored'[i] :
             pc[r[1]] \in Ended \cup {"write"} /\ (pc[r[1]] = "write" => db[r[1]] = i)
      BY <2>1, <3>5
    <3>11. \A k \in Job : pc[k] = "write" => \A r \in stored'[db[k]] : r[1] = k
      BY <2>1, <3>2, <3>7 DEF JobInv
    <3>12. \A i \in Job : stored'[i] # {} => i \in tables
      BY <2>1, <3>2
    <3>13. QED
      BY <2>1, <3>8, <3>9, <3>10, <3>11, <3>12
  <2>4. QED
    BY <1>11, <2>2, <2>3 DEF Commit
<1>12. CASE CommitFails(j)
  BY <1>00, <1>12 DEF CommitFails
<1>13. CASE CloseSnapshot(j)
  BY <1>00, <1>13 DEF CloseSnapshot
<1>14. CASE Kill(j)
  BY <1>00, <1>14 DEF Kill
<1>15. QED
  BY <1>1, <1>2, <1>3, <1>4, <1>5, <1>6, <1>7, <1>8, <1>9, <1>10, <1>11, <1>12, <1>13, <1>14 DEF Compiles, Progress

\* Names differ for every number if they do for the first.
LEMMA Rivals ==
  ASSUME NEW j, NEW k, NEW n, NEW m, Numbered(j, n) = Numbered(k, m)
  PROVE  Numbered(j, 1) = Numbered(k, 1)
BY DEF Numbered

\* The directory of a compilation exists once it was made.
LEMMA DirectoryMade ==
  ASSUME JobInv, NEW j \in Job, MakeDirectory(j)
  PROVE  OutDir(j) \in dirs' /\ dirs \subseteq dirs'
<1>1. OutDir(j) \in Seq(STRING) /\ OutDir(j) # <<>>
  BY SettingsAssumption DEF JobInv, OutDir
<1>2. Len(OutDir(j)) \in 1 .. Len(OutDir(j)) /\ SubSeq(OutDir(j), 1, Len(OutDir(j))) = OutDir(j)
  BY <1>1
<1>3. QED
  BY <1>2 DEF MakeDirectory

\* What a compilation leaves to the others.
LEMMA OthersKept ==
  ASSUME JobInv, NEW a \in Job, Compiles(a)
  PROVE  /\ \A k \in Job : k # a => pc'[k] = pc[k] /\ number'[k] = number[k] /\ db'[k] = db[k]
         /\ \A k \in Job : k # a /\ k \in raced => k \in raced'
         /\ dirs \subseteq dirs'
         /\ \A p \in Path : entry'[p] # entry[p] => pc[a] = "open" /\ p = Numbered(a, number[a]) /\ entry'[p] = a
         /\ db'[a] \in {NoJob, db[a]} \/ (OpenFile(a) /\ db'[a] = entry'[Numbered(a, number[a])])
         /\ \A i \in tables' : i \in tables \/ (pc[a] = "tables" /\ i = db[a])
         /\ ~Begin(a) => Runs(a)
<1> USE DEF JobInv, Goto, End, connection, disk, history, link, compilation
<1>0. Numbered(a, number[a]) \in Path
  BY NamesArePaths
<1>1. CASE Begin(a)
  BY <1>1 DEF Begin, Runs, Ended
<1>2. CASE MakeDirectory(a)
  BY <1>2, DirectoryMade DEF MakeDirectory, Runs, Ended
<1>3. CASE NameTaken(a)
  BY <1>3 DEF NameTaken, Runs, Ended
<1>4. CASE NameFree(a)
  BY <1>4 DEF NameFree, Runs, Ended
<1>5. CASE CreateRefused(a)
  BY <1>5 DEF CreateRefused, Runs, Ended
<1>6. CASE CreateAgreed(a)
  BY <1>6 DEF CreateAgreed, Runs, Ended
<1>7. CASE OpenFile(a)
  BY <1>0, <1>7 DEF OpenFile, Runs, Ended
<1>8. CASE DirectoryGone(a)
  BY <1>8 DEF DirectoryGone, Runs, Ended
<1>9. CASE CreateTables(a)
  BY <1>9 DEF CreateTables, Runs, Ended
<1>10. CASE NoTables(a)
  BY <1>10 DEF NoTables, Runs, Ended
<1>11. CASE Commit(a)
  BY <1>11 DEF Commit, Runs, Ended
<1>12. CASE CommitFails(a)
  BY <1>12 DEF CommitFails, Runs, Ended
<1>13. CASE CloseSnapshot(a)
  BY <1>13 DEF CloseSnapshot, Runs, Ended
<1>14. CASE Kill(a)
  BY <1>14 DEF Kill, Runs, Ended
<1>15. QED
  BY <1>1, <1>2, <1>3, <1>4, <1>5, <1>6, <1>7, <1>8, <1>9, <1>10, <1>11, <1>12, <1>13, <1>14 DEF Compiles, Progress

\* A compilation that is alone stays so while another one, which is not its
\* rival, goes on.
LEMMA OtherReady ==
  ASSUME JobInv, InodeInv, AloneInv, NEW a \in Job, Compiles(a), NEW j \in Job, j # a, Runs(j)', j \notin raced'
  PROVE  Ready(j)'
<1>1. Runs(j) /\ j \notin raced /\ pc'[j] = pc[j] /\ number'[j] = number[j] /\ db'[j] = db[j]
  BY OthersKept DEF Runs
<1>2. Ready(j)
  BY <1>1 DEF AloneInv
<1>3. UNCHANGED <<setting, phase>>
  BY CompilerFrame DEF link
<1>4. \A k \in Job : \A n : Numbered(k, n)' = Numbered(k, n)
  BY <1>3 DEF Numbered, OutDir
<1>5. Numbered(a, 1) # Numbered(j, 1)
  <2>1. CASE Begin(a)
    BY <1>1, <2>1 DEF Begin
  <2>2. CASE ~Begin(a)
    BY <1>2, <2>2, OthersKept DEF Ready
  <2>3. QED
    BY <2>1, <2>2
<1>6. /\ Numbered(a, number[a]) # Numbered(j, number[j])
      /\ Numbered(j, number[j]) \in Path /\ Numbered(a, number[a]) \in Path
  BY <1>5, Rivals, NamesArePaths
<1>7. entry'[Numbered(j, number[j])] = entry[Numbered(j, number[j])]
  BY <1>6, OthersKept
<1>8. \A k \in Job : k # j /\ Runs(k)' => Numbered(k, 1) # Numbered(j, 1)
  BY <1>2, <1>5, OthersKept DEF Ready, Runs
<1>9. pc[j] # "directory" => OutDir(j) \in dirs'
  BY <1>2, OthersKept DEF Ready
<1>10. pc[j] = "tables" => j \notin tables' /\ \A k \in Job : k # j => db'[k] # j
  <2> SUFFICES ASSUME pc[j] = "tables"
               PROVE  j \notin tables' /\ \A k \in Job : k # j => db'[k] # j
    OBVIOUS
  <2>1. j \notin tables /\ db[a] # j /\ entry[Numbered(j, number[j])] = j /\ \A k \in Job : k # j => db[k] # j
    BY <1>2 DEF Ready
  <2>2. entry[Numbered(a, number[a])] # j
    BY <1>6, <2>1 DEF InodeInv
  <2>3. entry'[Numbered(a, number[a])] # j
    BY <1>6, <2>2, OthersKept
  <2>4. db'[a] # j
    BY <2>1, <2>3, OthersKept
  <2>5. QED
    BY <2>1, <2>4, OthersKept
<1>11. ~LinkRuns'
  BY <1>2, <1>3 DEF Ready, LinkRuns
<1>12. OutDir(j)' = OutDir(j)
  BY <1>3 DEF OutDir
<1>13. Numbered(j, number[j])' = Numbered(j, number[j])
  BY <1>1, <1>3 DEF Numbered, OutDir
<1>14. QED
  BY <1>1, <1>2, <1>4, <1>7, <1>8, <1>9, <1>10, <1>11, <1>12, <1>13 DEF Ready

\* A compilation that is alone is so at its next step.
LEMMA OwnReady ==
  ASSUME JobInv, InodeInv, AloneInv, NEW j \in Job, Compiles(j), Runs(j)', j \notin raced'
  PROVE  Ready(j)'
<1>1. UNCHANGED <<setting, phase>>
  BY CompilerFrame DEF link
<1>2. \A k \in Job : \A n : Numbered(k, n)' = Numbered(k, n)
  BY <1>1 DEF Numbered, OutDir
<1>3. OutDir(j)' = OutDir(j) /\ (LinkRuns' <=> LinkRuns) /\ Numbered(j, number[j]) \in Path
  BY <1>1, NamesArePaths DEF OutDir, LinkRuns
<1>4. CASE Begin(j)
  <2>1. /\ {k \in Job : Runs(k) /\ Numbered(k, 1) = Numbered(j, 1)} = {} /\ ~LinkRuns
        /\ pc' = [pc EXCEPT ![j] = "directory"]
    BY <1>4 DEF Begin, Goto
  <2>2. \A k \in Job : k # j /\ Runs(k)' => Numbered(k, 1) # Numbered(j, 1)
    BY <2>1 DEF Runs, JobInv
  <2>3. pc'[j] = "directory"
    BY <2>1 DEF JobInv
  <2>4. QED
    BY <1>2, <1>3, <2>1, <2>2, <2>3 DEF Ready
<1>5. CASE ~Begin(j)
  <2>1. Runs(j) /\ j \notin raced
    BY <1>5, OthersKept DEF Compiles, Progress, Kill, MakeDirectory, NameTaken, NameFree, CreateRefused,
       CreateAgreed, OpenFile,
       DirectoryGone, CreateTables, NoTables, Commit, CommitFails, CloseSnapshot, End, history, Runs, Ended, JobInv
  <2>2. Ready(j)
    BY <2>1 DEF AloneInv
  <2>3. \A k \in Job : k # j /\ Runs(k)' => Numbered(k, 1)' # Numbered(j, 1)'
    BY <1>2, <2>2, OthersKept DEF Ready, Runs
  <2>4. pc'[j] # "directory" => OutDir(j) \in dirs'
    <3>1. CASE MakeDirectory(j)
      BY <3>1, DirectoryMade
    <3>2. CASE ~MakeDirectory(j)
      <4>1. pc'[j] # "directory" => pc[j] # "directory"
        BY <1>5, <3>2 DEF Compiles, Progress, Kill, NameTaken, NameFree, CreateRefused, CreateAgreed, OpenFile,
           DirectoryGone, CreateTables, NoTables, Commit, CommitFails, CloseSnapshot, End, Goto, Runs, Ended, JobInv
      <4>2. QED
        BY <2>2, <4>1, OthersKept DEF Ready
    <3>3. QED
      BY <3>1, <3>2
  <2>5. ASSUME pc'[j] \in {"create", "open"}
        PROVE  (entry[Numbered(j, number[j])])' = NoJob
    <3>1. NameFree(j) \/ CreateAgreed(j)
      BY <1>5, <2>5 DEF Compiles, Progress, Kill, MakeDirectory, NameTaken, CreateRefused, OpenFile,
         DirectoryGone, CreateTables,
         NoTables, Commit, CommitFails, CloseSnapshot, End, Goto, Runs, Ended, JobInv
    <3>2. UNCHANGED <<entry, number>> /\ entry[Numbered(j, number[j])] = NoJob
      BY <3>1 DEF NameFree, CreateAgreed, disk
    <3>3. QED
      BY <1>1, <3>2 DEF Numbered, OutDir
  <2>6. ASSUME pc'[j] = "tables"
        PROVE  /\ db'[j] = j /\ j \notin tables' /\ (entry[Numbered(j, number[j])])' = j
               /\ \A k \in Job : k # j => db'[k] # j
    <3> DEFINE p == Numbered(j, number[j])
    <3>1. OpenFile(j)
      BY <1>5, <2>6 DEF Compiles, Progress, Kill, MakeDirectory, NameTaken, NameFree, CreateRefused,
         CreateAgreed, DirectoryGone,
         CreateTables, NoTables, Commit, CommitFails, CloseSnapshot, End, Goto, Runs, Ended, JobInv
    <3>2. /\ pc[j] = "open" /\ entry' = (IF entry[p] = NoJob THEN [entry EXCEPT ![p] = j] ELSE entry)
          /\ db' = [db EXCEPT ![j] = entry'[p]] /\ UNCHANGED <<number, tables>>
      BY <3>1 DEF OpenFile, Goto
    <3>3. entry[p] = NoJob
      BY <2>2, <3>2 DEF Ready
    <3>4. p' = p
      BY <1>1, <3>2 DEF Numbered, OutDir
    <3> HIDE DEF p
    <3>5. entry'[p] = j
      BY <1>3, <3>2, <3>3 DEF JobInv, p
    <3>6. j \notin tables /\ \A k \in Job : db[k] # j
      BY <3>2 DEF InodeInv, Young
    <3>7. QED
      BY <3>2, <3>4, <3>5, <3>6 DEF JobInv, p
  <2>7. QED
    BY <1>3, <2>2, <2>3, <2>4, <2>5, <2>6 DEF Ready
<1>6. QED
  BY <1>4, <1>5

-----------------------------------------------------------------------------
(* The invariant of the disk.                                              *)

\* A link clears entries, and removes a directory when nothing is left in it.
LEMMA LinkDisk ==
  ASSUME JobInv, LinkNext
  PROVE  /\ entry' \in [Path -> Job \cup {NoJob}]
         /\ \A p \in Path : entry'[p] \in {NoJob, entry[p]}
         /\ \A p \in Path : entry'[p] # NoJob /\ p.dir \in dirs => p.dir \in dirs'
<1>1. CASE UNCHANGED disk
  BY <1>1 DEF disk, JobInv
<1>2. ASSUME NEW p \in Path, RemoveSnapshot(p)
      PROVE  /\ entry' \in [Path -> Job \cup {NoJob}] /\ dirs' = dirs
             /\ \A q \in Path : entry'[q] \in {NoJob, entry[q]}
  BY <1>2 DEF RemoveSnapshot, JobInv
<1>3. ASSUME NEW d \in found, RemoveDirectory(d)
      PROVE  entry' = entry /\ \A p \in Path : entry'[p] # NoJob /\ p.dir \in dirs => p.dir \in dirs'
  BY <1>3 DEF RemoveDirectory, Below
<1>4. UNCHANGED disk \/ (\E p \in Path : RemoveSnapshot(p)) \/ (\E d \in found : RemoveDirectory(d))
  BY DEF LinkNext, disk,
       StartLink, Search, SearchThrows, Searched, ListDirectory, NothingFound, RemoveOutput, OpenInput, SkipInput,
       HomeMissing, HomeKnown, ReadInput, InputsKept, Merged, RemoveThrows, InputsRemoved, LinkKilled
<1>5. QED
  BY <1>1, <1>2, <1>3, <1>4 DEF JobInv

\* A link runs after each of its steps but the last, and its start makes a
\* race of every compilation that runs.
LEMMA LinkStarts ==
  ASSUME LinkNext, ~LinkRuns
  PROVE  raced' = raced \cup {j \in Job : Runs(j)}
BY DEF LinkNext, Pass, Stop, LinkRuns,
       StartLink, Search, SearchThrows, Searched, ListDirectory, NothingFound, RemoveOutput, OpenInput, SkipInput,
       HomeMissing, HomeKnown, ReadInput, InputsKept, Merged, RemoveSnapshot, RemoveDirectory, RemoveThrows,
       InputsRemoved, LinkKilled

\* The four together.
DiskInv == JobInv /\ InodeInv /\ StoreInv /\ AloneInv

\* A link keeps them.
LEMMA LinkKeeps ==
  ASSUME DiskInv, LinkNext
  PROVE  DiskInv'
<1> USE DEF DiskInv
<1>1. UNCHANGED <<setting, pc, number, db, open, pending, written, tables, stored>> /\ raced \subseteq raced'
  BY LinkFrame DEF compilation, connection
<1>2. raced' \subseteq Job
  BY DEF LinkNext, Stop, history, JobInv,
       StartLink, Search, SearchThrows, Searched, ListDirectory, NothingFound, RemoveOutput, OpenInput, SkipInput,
       HomeMissing, HomeKnown, ReadInput, InputsKept, Merged, RemoveSnapshot, RemoveDirectory, RemoveThrows,
       InputsRemoved, LinkKilled
<1>3. JobInv'
  BY <1>1, <1>2, LinkDisk DEF JobInv
<1>4. InodeInv'
  <2>1. \A p \in Path : \A k \in Job : entry[p] # k => entry'[p] # k
    BY LinkDisk
  <2>2. \A p, q \in Path : entry'[p] = entry'[q] /\ entry'[p] # NoJob => p = q
    BY LinkDisk DEF InodeInv
  <2>3. \A p \in Path : entry'[p] # NoJob => p.dir \in dirs'
    BY LinkDisk DEF InodeInv
  <2>4. QED
    BY <1>1, <2>1, <2>2, <2>3 DEF InodeInv
<1>5. StoreInv'
  BY <1>1 DEF StoreInv, SnapshotsAreNotShared
<1>6. AloneInv'
  <2> SUFFICES ASSUME NEW j \in Job, Runs(j)', j \notin raced'
               PROVE  Ready(j)'
    BY DEF AloneInv
  <2>1. Runs(j) /\ j \notin raced
    BY <1>1 DEF Runs
  <2>2. ~LinkRuns
    BY <2>1 DEF AloneInv, Ready
  <2>3. QED
    BY <2>1, <2>2, LinkStarts
<1>7. QED
  BY <1>3, <1>4, <1>5, <1>6

\* A compilation keeps them.
LEMMA CompilerKeeps ==
  ASSUME DiskInv, NEW a \in Job, Compiles(a)
  PROVE  DiskInv'
<1>1. JobInv' /\ InodeInv' /\ StoreInv'
  BY JobCompiles, InodeCompiles, StoreCompiles DEF DiskInv
<1>2. AloneInv'
  <2> SUFFICES ASSUME NEW j \in Job, Runs(j)', j \notin raced'
               PROVE  Ready(j)'
    BY DEF AloneInv
  <2>1. CASE j = a
    BY <2>1, OwnReady DEF DiskInv
  <2>2. CASE j # a
    BY <2>2, OtherReady DEF DiskInv
  <2>3. QED
    BY <2>1, <2>2
<1>3. QED
  BY <1>1, <1>2 DEF DiskInv

\* They hold at first.
LEMMA InitKeeps == Init => DiskInv
<1> SUFFICES ASSUME Init
             PROVE  DiskInv
  OBVIOUS
<1>1. JobInv
  BY ThreeParts DEF Init, JobInv, Place, Young, Ended
<1>2. InodeInv
  BY DEF Init, InodeInv
<1>3. StoreInv
  BY DEF Init, StoreInv, SnapshotsAreNotShared
<1>4. AloneInv
  BY DEF Init, AloneInv, Runs
<1>5. QED
  BY <1>1, <1>2, <1>3, <1>4 DEF DiskInv

\* A step in which nothing changes keeps them.
LEMMA StutterKeeps ==
  ASSUME DiskInv, UNCHANGED vars
  PROVE  DiskInv'
BY DEF DiskInv, JobInv, InodeInv, StoreInv, SnapshotsAreNotShared, AloneInv, Ready, Runs, LinkRuns, Numbered,
       OutDir,
       vars, compilation, connection, disk, link, history

\* What compilations and links leave on the disk satisfies the four
\* invariants, whatever was killed.
THEOREM InductiveInvariant == Spec => []DiskInv
<1>1. DiskInv /\ [Next]_vars => DiskInv'
  BY LinkKeeps, CompilerKeeps, StutterKeeps DEF Next, Compiles
<1>2. QED
  BY <1>1, InitKeeps, PTL DEF Spec

\* Compilers that open the same file never both write to it: whoever comes
\* second has no tables to create (plugin.cpp:67).
THEOREM SnapshotsAreNeverShared == Spec => []SnapshotsAreNotShared
<1>1. DiskInv => SnapshotsAreNotShared
  BY DEF DiskInv, StoreInv
<1>2. QED
  BY <1>1, InductiveInvariant, PTL

\* A compilation that is alone does not fail.
LEMMA AloneSucceeds ==
  ASSUME DiskInv, Next, NEW j \in Job, pc[j] # "exception", pc'[j] = "exception"
  PROVE  j \in raced
<1> SUFFICES ASSUME j \notin raced
             PROVE  FALSE
  OBVIOUS
<1> USE DEF DiskInv
<1>1. ~LinkNext
  BY LinkFrame DEF compilation
<1>2. Compiles(j)
  BY <1>1, OthersKept DEF Next, Compiles
<1>3. CreateRefused(j) \/ DirectoryGone(j) \/ NoTables(j)
  BY <1>2 DEF Compiles, Progress, Kill, Begin, MakeDirectory, NameTaken, NameFree, CreateAgreed, OpenFile,
     CreateTables,
     Commit, CommitFails, CloseSnapshot, End, Goto, JobInv
<1>4. Runs(j)
  BY <1>3 DEF CreateRefused, DirectoryGone, NoTables, Runs, Ended
<1>5. Ready(j)
  BY <1>4 DEF AloneInv
<1>6. CASE CreateRefused(j)
  BY <1>5, <1>6 DEF CreateRefused, Ready
<1>7. CASE DirectoryGone(j)
  BY <1>5, <1>7 DEF DirectoryGone, Ready
<1>8. CASE NoTables(j)
  <2>1. /\ pc[j] = "tables" /\ db[j] = j /\ j \notin tables /\ entry[Numbered(j, number[j])] = j
        /\ ~LinkRuns /\ \A k \in Job : k # j => db[k] # j
    BY <1>5, <1>8 DEF NoTables, Ready
  <2>2. j \in Linked
    BY <2>1, NamesArePaths DEF Linked
  <2>3. ~BeingRead(j)
    BY <2>1 DEF BeingRead, LinkRuns
  <2>4. QED
    BY <1>8, <2>1, <2>2, <2>3 DEF NoTables, CommitMayFail
<1>9. QED
  BY <1>3, <1>6, <1>7, <1>8

\* The plugin fails only a compilation that has or had a rival or a link at
\* its side.
THEOREM AbortsOnlyInARace == Spec => AbortOnlyInARace
<1>1. DiskInv /\ [Next]_vars => [\A j \in Job : pc[j] # "exception" /\ pc'[j] = "exception" => j \in raced]_vars
  BY AloneSucceeds
<1>2. QED
  BY <1>1, InductiveInvariant, PTL DEF Spec, AbortOnlyInARace

-----------------------------------------------------------------------------
(* The invariant of a link.                                                *)

\* The types of a link.
LinkTypes ==
  /\ phase \in {"none", "search", "list", "open", "read", "remove", "success", "failure", "exception", "killed"}
  /\ asked \in Link \cup {Unset}
  /\ homeless \in BOOLEAN
  /\ output \in [exists : BOOLEAN, finished : BOOLEAN, rows : SUBSET Row]
  /\ links \in 0 .. MaxLinks
  /\ promised \subseteq Row

\* What a link works on is what it has found.
LinkInv ==
  /\ inputs \subseteq Path /\ good \subseteq inputs
  /\ promised # {} => LinkRuns
  /\ ~LinkRuns \/ phase = "search" => inputs = {}
  /\ ~LinkRuns => found = {}
  /\ phase = "list" => todo \subseteq found
  /\ phase \in {"list", "open", "read"} => \A p \in inputs : entry[p] # NoJob /\ p.dir \in found
  /\ phase = "remove" => ~asked.keep /\ output.finished

\* The link is still to come to the snapshot at p.
Reaches(p) ==
  /\ phase = "search" => p.dir \in found
  /\ phase = "list" => p \in inputs \/ p.dir \in todo
  /\ phase = "open" => p \in todo \cup good
  /\ phase = "read" => p \in todo

\* The row r is in a snapshot that nobody writes to and the link still reaches.
Waits(r) == \E p \in Path : /\ entry[p] \in tables /\ ~BeingWritten(entry[p])
                            /\ r \in stored[entry[p]]
                            /\ Reaches(p)

\* A row that was promised is on its way to the output until it is there.
PromiseInv ==
  \A r \in promised :
    \/ phase \in {"read", "remove"} /\ r \in output.rows
    \/ phase \in {"search", "list", "open", "read"} /\ Waits(r)

\* What the output has is still to be removed, if it has not been.
OutputInv ==
  phase \in {"open", "read", "remove"} =>
    \A r \in output.rows : \E i \in Job :
       /\ r \in stored[i]
       /\ \A p \in Path : entry[p] = i => \E d \in found : Below(d, p)

\* The invariants of the disk and of the link together.
AllInv == DiskInv /\ LinkTypes /\ LinkInv /\ PromiseInv /\ OutputInv

\* A snapshot that nobody writes to stays as it is while compilers run.
LEMMA CompilerLeaves ==
  ASSUME DiskInv, NEW a \in Job, Compiles(a)
  PROVE  /\ \A p \in Path : entry[p] # NoJob => entry'[p] = entry[p]
         /\ tables \subseteq tables'
         /\ \A i \in Job : stored[i] \subseteq stored'[i]
         /\ \A i \in tables : ~BeingWritten(i) => ~BeingWritten(i)'
         /\ \A p \in Path : \A i \in Job : entry'[p] = i => entry[p] = i \/ stored[i] = {}
<1> USE DEF DiskInv, JobInv, Goto, End, connection, disk, history, link, compilation
<1>0. Numbered(a, number[a]) \in Path
  BY NamesArePaths
<1>1. \A p \in Path : entry[p] # NoJob => entry'[p] = entry[p]
  <2>1. CASE OpenFile(a)
    BY <1>0, <2>1 DEF OpenFile
  <2>2. CASE ~OpenFile(a)
    BY <2>2 DEF Compiles, Progress, Begin, MakeDirectory, NameTaken, NameFree, CreateRefused, CreateAgreed,
       DirectoryGone,
       CreateTables, NoTables, Commit, CommitFails, CloseSnapshot, Kill
  <2>3. QED
    BY <2>1, <2>2
<1>2. tables \subseteq tables'
  BY DEF Compiles, Progress, Begin, MakeDirectory, NameTaken, NameFree, CreateRefused, CreateAgreed, OpenFile,
     DirectoryGone, CreateTables, NoTables, Commit, CommitFails, CloseSnapshot, Kill
<1>3. \A i \in Job : stored[i] \subseteq stored'[i]
  <2>1. CASE Commit(a)
    <3>1. CASE stored' = stored
      BY <3>1
    <3>2. CASE stored' = [stored EXCEPT ![db[a]] = @ \cup ({a} \X (pending[a] \cup {Part(a)}))]
      BY <3>2
    <3>3. QED
      BY <2>1, <3>1, <3>2 DEF Commit
  <2>2. CASE ~Commit(a)
    BY <2>2 DEF Compiles, Progress, Begin, MakeDirectory, NameTaken, NameFree, CreateRefused, CreateAgreed,
       OpenFile,
       DirectoryGone, CreateTables, NoTables, CommitFails, CloseSnapshot, Kill
  <2>3. QED
    BY <2>1, <2>2
<1>4. \A j \in Job : pc'[j] = "write" => db'[j] = db[j] /\ (pc[j] = "write" \/ db[j] \notin tables)
  <2>1. pc'[a] = "write" => CreateTables(a) \/ Commit(a) \/ CommitFails(a)
    <3>1. CASE Begin(a)
      BY <3>1 DEF Begin
    <3>2. CASE Kill(a)
      BY <3>2 DEF Kill
    <3>3. CASE MakeDirectory(a) \/ NameTaken(a) \/ NameFree(a) \/ CreateAgreed(a) \/ OpenFile(a)
      BY <3>3 DEF MakeDirectory, NameTaken, NameFree, CreateAgreed, OpenFile
    <3>4. CASE CreateRefused(a) \/ DirectoryGone(a) \/ NoTables(a) \/ CloseSnapshot(a)
      BY <3>4 DEF CreateRefused, DirectoryGone, NoTables, CloseSnapshot
    <3>5. QED
      BY <3>1, <3>2, <3>3, <3>4 DEF Compiles, Progress
  <2>2. pc'[a] = "write" => db'[a] = db[a] /\ (pc[a] = "write" \/ db[a] \notin tables)
    BY <2>1 DEF CreateTables, Commit, CommitFails
  <2>3. QED
    BY <2>2, OthersKept
<1>5. \A i \in tables : ~BeingWritten(i) => ~BeingWritten(i)'
  BY <1>2, <1>4 DEF BeingWritten
<1>6. \A p \in Path : \A i \in Job : entry'[p] = i => entry[p] = i \/ stored[i] = {}
  <2>1. pc[a] = "open" => stored[a] = {}
    BY DEF InodeInv, StoreInv, Young
  <2>2. QED
    BY <2>1, OthersKept
<1>7. QED
  BY <1>1, <1>2, <1>3, <1>5, <1>6

\* A compilation keeps the invariant of the link.
LEMMA LinkCompiles ==
  ASSUME AllInv, NEW a \in Job, Compiles(a)
  PROVE  LinkTypes' /\ LinkInv' /\ PromiseInv' /\ OutputInv'
<1> USE DEF AllInv
<1>1. UNCHANGED <<phase, asked, roots, found, inputs, todo, good, homeless, output, links, promised>>
  BY CompilerFrame DEF link, search, merge
<1>2. LinkInv'
  BY <1>1, CompilerLeaves DEF LinkInv, LinkRuns
<1>3. \A r : Waits(r) => Waits(r)'
  <2> SUFFICES ASSUME NEW r, Waits(r)
               PROVE  Waits(r)'
    OBVIOUS
  <2>1. PICK p \in Path : /\ entry[p] \in tables /\ ~BeingWritten(entry[p]) /\ r \in stored[entry[p]]
                         /\ Reaches(p)
    BY DEF Waits
  <2>2. entry[p] \in Job /\ entry[p] # NoJob
    BY <2>1 DEF DiskInv, JobInv
  <2>3. entry'[p] = entry[p]
    BY <2>2, CompilerLeaves
  <2>4. entry'[p] \in tables' /\ r \in stored'[entry'[p]] /\ ~BeingWritten(entry[p])'
    BY <2>1, <2>2, <2>3, CompilerLeaves
  <2>5. Reaches(p)'
    BY <1>1, <2>1 DEF Reaches
  <2>6. QED
    BY <2>4, <2>5 DEF Waits
<1>4. PromiseInv'
  BY <1>1, <1>3 DEF PromiseInv
<1>5. OutputInv'
  <2> SUFFICES ASSUME phase \in {"open", "read", "remove"}, NEW r \in output.rows
               PROVE  \E i \in Job : /\ r \in stored'[i]
                                    /\ \A p \in Path : entry'[p] = i => \E d \in found : Below(d, p)
    BY <1>1 DEF OutputInv, Below
  <2>1. PICK i \in Job : r \in stored[i] /\ \A p \in Path : entry[p] = i => \E d \in found : Below(d, p)
    BY DEF OutputInv
  <2>2. \A p \in Path : entry'[p] = i => entry[p] = i
    BY <2>1, CompilerLeaves
  <2>3. QED
    BY <2>1, <2>2, CompilerLeaves
<1>6. LinkTypes'
  BY <1>1 DEF LinkTypes
<1>7. QED
  BY <1>2, <1>4, <1>5, <1>6

\* A search covers what is promised of it.
LEMMA SearchFinds ==
  ASSUME DiskInv, NEW root, NEW p \in Path, Covers(root, p.dir), entry[p] # NoJob
  PROVE  p.dir \in Within(root)
<1>1. p.dir \in dirs /\ p.dir # <<>>
  BY SettingsAssumption DEF DiskInv, InodeInv, Path
<1>2. QED
  BY <1>1 DEF Covers, Within

\* A link keeps the invariant of what it works on.
LEMMA LinkInvKept ==
  ASSUME AllInv, LinkNext
  PROVE  LinkInv'
<1> USE DEF AllInv, LinkInv, LinkRuns, Pass, Stop, search, merge, disk, history, compilation
<1>1. CASE StartLink
  BY <1>1 DEF StartLink
<1>2. CASE Search
  BY <1>2 DEF Search
<1>3. CASE Searched
  BY <1>3 DEF Searched
<1>4. ASSUME NEW d \in todo, ListDirectory(d)
      PROVE  LinkInv'
  BY <1>4 DEF ListDirectory
<1>5. CASE RemoveOutput
  BY <1>5 DEF RemoveOutput
<1>6. ASSUME NEW p \in inputs, OpenInput(p)
      PROVE  LinkInv'
  BY <1>6 DEF OpenInput
<1>7. ASSUME NEW p \in inputs, SkipInput(p)
      PROVE  LinkInv'
  BY <1>7 DEF SkipInput
<1>8. CASE HomeKnown
  BY <1>8 DEF HomeKnown
<1>9. ASSUME NEW p \in good, ReadInput(p)
      PROVE  LinkInv'
  BY <1>9 DEF ReadInput
<1>10. CASE Merged
  <2>1. output'.finished
    BY <1>10 DEF Merged, LinkTypes
  <2>2. QED
    BY <1>10, <2>1 DEF Merged
<1>11. ASSUME NEW p \in Path, RemoveSnapshot(p)
       PROVE  LinkInv'
  BY <1>11 DEF RemoveSnapshot
<1>12. ASSUME NEW d \in found, RemoveDirectory(d)
       PROVE  LinkInv'
  BY <1>12 DEF RemoveDirectory
<1>13. CASE SearchThrows \/ NothingFound \/ HomeMissing \/ InputsKept \/ RemoveThrows \/ InputsRemoved \/ LinkKilled
  BY <1>13 DEF SearchThrows, NothingFound, HomeMissing, InputsKept, RemoveThrows, InputsRemoved, LinkKilled
<1>14. QED
  BY <1>1, <1>2, <1>3, <1>4, <1>5, <1>6, <1>7, <1>8, <1>9, <1>10, <1>11, <1>12, <1>13 DEF LinkNext

\* A link keeps its promise.
LEMMA PromiseKept ==
  ASSUME AllInv, LinkNext
  PROVE  PromiseInv'
<1> USE DEF AllInv, Pass, Stop, search, merge, disk, history
<1>1. CASE promised' = {}
  BY <1>1 DEF PromiseInv
<1>2. CASE phase = "remove" /\ promised' # {}
  <2>1. phase' = "remove" /\ UNCHANGED <<output, promised>>
    BY <1>2 DEF LinkNext, LinkRuns, StartLink, Search, SearchThrows, Searched, ListDirectory, NothingFound,
       RemoveOutput,
       OpenInput, SkipInput, HomeMissing, HomeKnown, ReadInput, InputsKept, Merged, RemoveSnapshot, RemoveDirectory,
       RemoveThrows, InputsRemoved, LinkKilled
  <2>2. QED
    BY <1>2, <2>1 DEF PromiseInv
<1>3. CASE phase # "remove" /\ promised' # {}
  <2>1. UNCHANGED <<entry, tables, stored, pc, db>>
    BY <1>3, LinkFrame DEF compilation, connection
  <2>2. \A p \in Path : (BeingWritten(entry[p]))' <=> BeingWritten(entry[p])
    BY <2>1 DEF BeingWritten
  <2>3. ASSUME NEW r, NEW p \in Path, entry[p] \in tables, ~BeingWritten(entry[p]), r \in stored[entry[p]], Reaches(p)'
        PROVE  Waits(r)'
    BY <2>1, <2>2, <2>3 DEF Waits
  <2>4. CASE Search
    <3> SUFFICES ASSUME NEW r \in promised'
                 PROVE  Waits(r)'
      BY <2>4 DEF PromiseInv, Search
    <3>1. phase = "search" /\ phase' = "search" /\ found' = found \cup Within(Head(roots))
          /\ promised' = promised \cup Promised(Head(roots))
      BY <2>4 DEF Search
    <3>2. CASE r \in promised
      BY <2>3, <3>1, <3>2 DEF PromiseInv, Waits, Reaches
    <3>3. CASE r \in Promised(Head(roots))
      <4>1. PICK p \in Path : /\ Covers(Head(roots), p.dir) /\ entry[p] \in tables /\ ~BeingWritten(entry[p])
                             /\ r \in stored[entry[p]]
        BY <3>3 DEF Promised
      <4>2. entry[p] # NoJob
        BY <4>1 DEF DiskInv, JobInv
      <4>3. Reaches(p)'
        BY <3>1, <4>1, <4>2, SearchFinds DEF Reaches
      <4>4. QED
        BY <2>3, <4>1, <4>3
    <3>4. QED
      BY <3>1, <3>2, <3>3
  <2>5. CASE Searched
    BY <2>3, <2>5 DEF Searched, PromiseInv, Waits, Reaches
  <2>6. ASSUME NEW d \in todo, ListDirectory(d)
        PROVE  PromiseInv'
    <3>1. \A p \in Path : entry[p] \in tables /\ Reaches(p) => Reaches(p)'
      BY <2>6 DEF ListDirectory, Reaches, DiskInv, JobInv
    <3>2. QED
      BY <2>3, <2>6, <3>1 DEF ListDirectory, PromiseInv, Waits
  <2>7. CASE RemoveOutput
    <3>1. \A p \in Path : Reaches(p) => Reaches(p)'
      BY <2>7 DEF RemoveOutput, Reaches
    <3>2. QED
      BY <2>3, <2>7, <3>1 DEF RemoveOutput, PromiseInv, Waits
  <2>8. ASSUME NEW q \in inputs, OpenInput(q)
        PROVE  PromiseInv'
    <3>1. \A p \in Path : Reaches(p) => Reaches(p)'
      BY <2>8 DEF OpenInput, Reaches
    <3>2. QED
      BY <2>3, <2>8, <3>1 DEF OpenInput, PromiseInv, Waits
  <2>9. ASSUME NEW q \in inputs, SkipInput(q)
        PROVE  PromiseInv'
    <3>1. \A p \in Path : entry[p] \in tables /\ ~BeingWritten(entry[p]) /\ Reaches(p) => Reaches(p)'
      BY <2>9 DEF SkipInput, Reaches
    <3>2. QED
      BY <2>3, <2>9, <3>1 DEF SkipInput, PromiseInv, Waits
  <2>10. CASE HomeKnown
    <3>1. \A p \in Path : Reaches(p) => Reaches(p)'
      BY <2>10 DEF HomeKnown, Reaches
    <3>2. QED
      BY <2>3, <2>10, <3>1 DEF HomeKnown, PromiseInv, Waits
  <2>11. ASSUME NEW q \in good, ReadInput(q)
         PROVE  PromiseInv'
    <3>1. phase = "read" /\ phase' = "read" /\ todo' = todo \ {q} /\ UNCHANGED promised
      BY <2>11 DEF ReadInput
    <3>2. PICK read : /\ read \in IF BeingWritten(entry[q]) THEN SUBSET stored[entry[q]] ELSE {stored[entry[q]]}
                      /\ output' = [output EXCEPT !.rows = @ \cup read]
      BY <2>11 DEF ReadInput
    <3>3. output'.rows = output.rows \cup read
      BY <3>2 DEF LinkTypes
    <3>4. ASSUME NEW r \in promised
          PROVE  r \in output'.rows \/ Waits(r)'
      <4>1. CASE r \in output.rows
        BY <3>3, <4>1
      <4>2. CASE Waits(r)
        <5>1. PICK p \in Path : /\ entry[p] \in tables /\ ~BeingWritten(entry[p])
                               /\ r \in stored[entry[p]] /\ Reaches(p)
          BY <4>2 DEF Waits
        <5>2. CASE p = q
          BY <3>2, <3>3, <5>1, <5>2
        <5>3. CASE p # q
          BY <2>3, <3>1, <5>1, <5>3 DEF Reaches
        <5>4. QED
          BY <5>2, <5>3
      <4>3. QED
        BY <3>1, <4>1, <4>2 DEF PromiseInv
    <3>5. QED
      BY <3>1, <3>4 DEF PromiseInv
  <2>12. CASE Merged
    <3>1. \A r \in promised : r \in output.rows
      BY <2>12 DEF Merged, PromiseInv, Waits, Reaches
    <3>2. output'.rows = output.rows
      BY <2>12 DEF Merged, LinkTypes
    <3>3. QED
      BY <2>12, <3>1, <3>2 DEF Merged, PromiseInv
  <2>13. QED
    BY <1>3, <2>4, <2>5, <2>6, <2>7, <2>8, <2>9, <2>10, <2>11, <2>12 DEF LinkNext, StartLink, SearchThrows,
       NothingFound,
       HomeMissing, InputsKept, RemoveSnapshot, RemoveDirectory, RemoveThrows, InputsRemoved, LinkKilled
<1>4. QED
  BY <1>1, <1>2, <1>3

\* A link keeps its types.
LEMMA LinkTypesKept ==
  ASSUME AllInv, LinkNext
  PROVE  LinkTypes'
<1> USE DEF AllInv, LinkTypes, LinkRuns, Pass, Stop, search, merge, disk, history, compilation
<1>1. CASE StartLink
  BY <1>1 DEF StartLink
<1>2. CASE Search
  <2>1. Promised(Head(roots)) \subseteq Row
    BY DEF Promised, DiskInv, JobInv
  <2>2. QED
    BY <1>2, <2>1 DEF Search
<1>3. CASE Searched
  BY <1>3 DEF Searched
<1>4. ASSUME NEW d \in todo, ListDirectory(d)
      PROVE  LinkTypes'
  BY <1>4 DEF ListDirectory
<1>5. CASE RemoveOutput
  BY <1>5 DEF RemoveOutput
<1>6. ASSUME NEW p \in inputs, OpenInput(p)
      PROVE  LinkTypes'
  BY <1>6 DEF OpenInput
<1>7. ASSUME NEW p \in inputs, SkipInput(p)
      PROVE  LinkTypes'
  BY <1>7 DEF SkipInput
<1>8. CASE HomeKnown
  BY <1>8 DEF HomeKnown
<1>9. ASSUME NEW p \in good, ReadInput(p)
      PROVE  LinkTypes'
  <2>1. entry[p] \in Job
    BY <1>9 DEF ReadInput, LinkInv, DiskInv, JobInv
  <2>2. PICK read : /\ read \in IF BeingWritten(entry[p]) THEN SUBSET stored[entry[p]] ELSE {stored[entry[p]]}
                    /\ output' = [output EXCEPT !.rows = @ \cup read]
    BY <1>9 DEF ReadInput
  <2>3. read \subseteq Row
    BY <2>1, <2>2 DEF DiskInv, JobInv
  <2>4. output' \in [exists : BOOLEAN, finished : BOOLEAN, rows : SUBSET Row]
    BY <2>2, <2>3
  <2>5. QED
    BY <1>9, <2>4 DEF ReadInput
<1>10. CASE Merged
  BY <1>10 DEF Merged
<1>11. ASSUME NEW p \in Path, RemoveSnapshot(p)
       PROVE  LinkTypes'
  BY <1>11 DEF RemoveSnapshot
<1>12. ASSUME NEW d \in found, RemoveDirectory(d)
       PROVE  LinkTypes'
  BY <1>12 DEF RemoveDirectory
<1>13. CASE SearchThrows \/ NothingFound \/ HomeMissing \/ InputsKept \/ RemoveThrows \/ InputsRemoved \/ LinkKilled
  BY <1>13 DEF SearchThrows, NothingFound, HomeMissing, InputsKept, RemoveThrows, InputsRemoved, LinkKilled
<1>14. QED
  BY <1>1, <1>2, <1>3, <1>4, <1>5, <1>6, <1>7, <1>8, <1>9, <1>10, <1>11, <1>12, <1>13 DEF LinkNext

\* A link has only rows in its output whose snapshots it removes.
LEMMA OutputKept ==
  ASSUME AllInv, LinkNext
  PROVE  OutputInv'
<1> USE DEF AllInv, Pass, Stop, search, merge, disk, history, compilation
<1>1. CASE phase' \notin {"open", "read", "remove"}
  BY <1>1 DEF OutputInv
<1>2. CASE RemoveOutput
  BY <1>2 DEF RemoveOutput, OutputInv
<1>3. CASE phase \in {"open", "read"} /\ phase' \in {"open", "read", "remove"} /\ output'.rows = output.rows
  <2>1. UNCHANGED <<entry, stored, found>>
    BY <1>3 DEF LinkNext, LinkRuns, StartLink, Search, SearchThrows, Searched, ListDirectory, NothingFound,
       RemoveOutput,
       OpenInput, SkipInput, HomeMissing, HomeKnown, ReadInput, InputsKept, Merged, RemoveSnapshot, RemoveDirectory,
       RemoveThrows, InputsRemoved, LinkKilled
  <2>2. QED
    BY <1>3, <2>1 DEF OutputInv, Below
<1>4. ASSUME NEW q \in good, ReadInput(q)
      PROVE  OutputInv'
  <2>1. phase = "read" /\ UNCHANGED <<entry, stored, found>>
    BY <1>4 DEF ReadInput
  <2>2. PICK read : /\ read \in IF BeingWritten(entry[q]) THEN SUBSET stored[entry[q]] ELSE {stored[entry[q]]}
                    /\ output' = [output EXCEPT !.rows = @ \cup read]
    BY <1>4 DEF ReadInput
  <2>3. output'.rows = output.rows \cup read /\ read \subseteq stored[entry[q]]
    BY <2>2 DEF LinkTypes
  <2>4. q \in Path /\ entry[q] \in Job /\ entry[q] # NoJob /\ q.dir \in found
    BY <2>1 DEF LinkInv, DiskInv, JobInv
  <2>5. Below(q.dir, q)
    <3>1. q.dir \in Seq(STRING)
      BY <2>4, SettingsAssumption DEF Path
    <3>2. QED
      BY <3>1 DEF Below, IsPrefix
  <2>6. \A p \in Path : entry[p] = entry[q] => \E d \in found : Below(d, p)
    BY <2>4, <2>5 DEF DiskInv, InodeInv
  <2>7. SUFFICES ASSUME NEW r \in output'.rows
                 PROVE  \E i \in Job : /\ r \in stored[i]
                                      /\ \A p \in Path : entry[p] = i => \E d \in found : Below(d, p)
    BY <2>1 DEF OutputInv, Below
  <2>8. CASE r \in output.rows
    BY <2>1, <2>8 DEF OutputInv
  <2>9. CASE r \in read
    BY <2>3, <2>4, <2>6, <2>9
  <2>10. QED
    BY <2>3, <2>8, <2>9
<1>5. ASSUME NEW q \in Path, RemoveSnapshot(q)
      PROVE  OutputInv'
  <2>1. phase = "remove" /\ phase' = "remove" /\ UNCHANGED <<stored, found, output>>
    BY <1>5 DEF RemoveSnapshot
  <2>2. \A p \in Path : \A i \in Job : entry'[p] = i => entry[p] = i
    BY LinkDisk DEF DiskInv
  <2>3. QED
    BY <2>1, <2>2 DEF OutputInv, Below
<1>6. ASSUME NEW d \in found, RemoveDirectory(d)
      PROVE  OutputInv'
  <2>1. /\ phase = "remove" /\ phase' = "remove" /\ UNCHANGED <<entry, stored, output>> /\ found' = found \ {d}
        /\ \A p \in Path : Below(d, p) => entry[p] = NoJob
    BY <1>6 DEF RemoveDirectory
  <2>2. \A p \in Path : entry[p] \in Job /\ (\E e \in found : Below(e, p)) => \E e \in found' : Below(e, p)
    BY <2>1
  <2>3. SUFFICES ASSUME NEW r \in output.rows
                 PROVE  \E i \in Job : /\ r \in stored[i]
                                      /\ \A p \in Path : entry[p] = i => \E e \in found' : Below(e, p)
    BY <2>1 DEF OutputInv, Below
  <2>4. PICK i \in Job : r \in stored[i] /\ \A p \in Path : entry[p] = i => \E e \in found : Below(e, p)
    BY <2>1 DEF OutputInv
  <2>5. QED
    BY <2>2, <2>4
<1>7. QED
  <2>1. ASSUME NEW p \in inputs, OpenInput(p) \/ SkipInput(p)
        PROVE  OutputInv'
    BY <1>3, <2>1 DEF OpenInput, SkipInput
  <2>2. CASE HomeKnown \/ Merged
    <3>1. output'.rows = output.rows
      BY <2>2 DEF HomeKnown, Merged, LinkTypes
    <3>2. QED
      BY <1>3, <2>2, <3>1 DEF HomeKnown, Merged
  <2>3. CASE StartLink \/ Search \/ Searched \/ \E d \in todo : ListDirectory(d)
    BY <1>1, <2>3 DEF StartLink, Search, Searched, ListDirectory
  <2>4. CASE SearchThrows \/ NothingFound \/ HomeMissing \/ InputsKept \/ RemoveThrows \/ InputsRemoved \/ LinkKilled
    BY <1>1, <2>4 DEF SearchThrows, NothingFound, HomeMissing, InputsKept, RemoveThrows, InputsRemoved, LinkKilled
  <2>5. QED
    BY <1>2, <1>4, <1>5, <1>6, <2>1, <2>2, <2>3, <2>4 DEF LinkNext

\* All of it together is inductive.
LEMMA AllKept ==
  ASSUME AllInv, [Next]_vars
  PROVE  AllInv'
<1>1. CASE LinkNext
  BY <1>1, LinkKeeps, LinkTypesKept, LinkInvKept, PromiseKept, OutputKept DEF AllInv
<1>2. ASSUME NEW a \in Job, Compiles(a)
      PROVE  AllInv'
  BY <1>2, CompilerKeeps, LinkCompiles DEF AllInv
<1>3. CASE UNCHANGED vars
  <2>1. DiskInv'
    BY <1>3, StutterKeeps DEF AllInv
  <2>2. LinkTypes' /\ LinkInv'
    BY <1>3 DEF AllInv, LinkTypes, LinkInv, LinkRuns, vars, link, search, merge, disk, history
  <2>3. PromiseInv'
    BY <1>3 DEF AllInv, PromiseInv, Waits, Reaches, BeingWritten, vars, link, search, merge, disk, history,
       compilation,
       connection
  <2>4. OutputInv'
    BY <1>3 DEF AllInv, OutputInv, Below, vars, link, search, merge, disk
  <2>5. QED
    BY <2>1, <2>2, <2>3, <2>4 DEF AllInv
<1>4. QED
  BY <1>1, <1>2, <1>3 DEF Next, Compiles

\* It holds of every state.
THEOREM LinkInvariant == Spec => []AllInv
<1>1. Init => AllInv
  <2> SUFFICES ASSUME Init
               PROVE  AllInv
    OBVIOUS
  <2>1. LinkTypes
    <3>1. output = [exists |-> FALSE, finished |-> FALSE, rows |-> {}] /\ links = 0
      BY DEF Init
    <3>2. output \in [exists : BOOLEAN, finished : BOOLEAN, rows : SUBSET Row] /\ links \in 0 .. MaxLinks
      BY <3>1
    <3>3. QED
      BY <3>2 DEF Init, LinkTypes
  <2>2. LinkInv /\ PromiseInv /\ OutputInv
    BY DEF Init, LinkInv, LinkRuns, PromiseInv, OutputInv
  <2>3. QED
    BY <2>1, <2>2, InitKeeps DEF AllInv
<1>2. AllInv /\ [Next]_vars => AllInv'
  BY AllKept
<1>3. QED
  BY <1>1, <1>2, PTL DEF Spec

\* Every variable of compilations, disk and link keeps its type.
THEOREM TypeCorrect == Spec => []TypeOK
<1>1. AllInv => TypeOK
  BY DEF AllInv, DiskInv, JobInv, LinkTypes, LinkInv, TypeOK, Place, Young, Ended
<1>2. QED
  BY <1>1, LinkInvariant, PTL

\* A link removes only what its finished output has, or what came after its
\* search (merge.cpp, removeInputs).
THEOREM RemovedIsAlwaysLinked == Spec => RemovedIsLinked
<1>1. ASSUME AllInv, Next, NEW p \in Path, entry[p] # NoJob, entry'[p] = NoJob
      PROVE  ~asked.keep /\ output.finished /\ stored[entry[p]] \cap promised \subseteq output.rows
  <2>1. ~\E a \in Job : Compiles(a)
    BY <1>1, CompilerLeaves DEF AllInv
  <2>2. phase = "remove"
    BY <1>1, <2>1, LinkFrame DEF Next, Compiles, disk
  <2>3. QED
    BY <1>1, <2>2 DEF AllInv, LinkInv, PromiseInv
<1>2. AllInv /\ [Next]_vars =>
        [\A p \in Path : entry[p] # NoJob /\ entry'[p] = NoJob =>
           /\ ~asked.keep /\ output.finished
           /\ stored[entry[p]] \cap promised \subseteq output.rows]_vars
  BY <1>1
<1>3. QED
  BY <1>2, LinkInvariant, PTL DEF Spec, RemovedIsLinked

\* A link that succeeds has all that it was promised, and removed the
\* snapshots of all that it has unless it keeps them.
THEOREM SuccessfulLinksMoveAll == Spec => SuccessfulLinkMovesAll
<1>1. ASSUME AllInv, Next, LinkRuns, phase' = "success"
      PROVE  /\ promised \subseteq output'.rows
             /\ asked.keep \/ \A p \in Path : entry[p] # NoJob => stored[entry[p]] \cap output'.rows = {}
  <2>1. InputsKept \/ InputsRemoved
    <3>1. phase' # phase
      BY <1>1 DEF LinkRuns
    <3>2. LinkNext
      BY <1>1, <3>1, CompilerFrame DEF Next, Compiles, link
    <3>3. QED
      BY <1>1, <3>2 DEF LinkNext, Pass, Stop, LinkRuns, StartLink, Search, SearchThrows, Searched, ListDirectory,
         NothingFound,
         RemoveOutput, OpenInput, SkipInput, HomeMissing, HomeKnown, ReadInput, Merged, RemoveSnapshot,
         RemoveDirectory,
         RemoveThrows, LinkKilled
  <2>2. CASE InputsKept
    <3>1. promised \subseteq output.rows
      BY <1>1, <2>2 DEF InputsKept, Stop, AllInv, PromiseInv, Waits, Reaches
    <3>2. output'.rows = output.rows
      BY <1>1, <2>2 DEF InputsKept, AllInv, LinkTypes
    <3>3. QED
      BY <2>2, <3>1, <3>2 DEF InputsKept
  <2>3. CASE InputsRemoved
    <3>1. phase = "remove" /\ found = {} /\ output' = output
      BY <2>3 DEF InputsRemoved, Stop
    <3>2. promised \subseteq output.rows
      BY <1>1, <3>1 DEF AllInv, PromiseInv
    <3>3. ASSUME NEW p \in Path, entry[p] # NoJob, NEW r \in stored[entry[p]], r \in output.rows
          PROVE  FALSE
      <4>1. PICK i \in Job : r \in stored[i] /\ \A q \in Path : entry[q] # i
        BY <1>1, <3>1, <3>3 DEF AllInv, OutputInv
      <4>2. entry[p] \in Job
        BY <1>1, <3>3 DEF AllInv, DiskInv, JobInv
      <4>3. i = entry[p]
        BY <1>1, <3>3, <4>1, <4>2 DEF AllInv, DiskInv, StoreInv
      <4>4. QED
        BY <4>1, <4>3
    <3>4. QED
      BY <3>1, <3>2, <3>3
  <2>4. QED
    BY <2>1, <2>2, <2>3
<1>2. AllInv /\ [Next]_vars =>
        [LinkRuns /\ phase' = "success" =>
           /\ promised \subseteq output'.rows
           /\ asked.keep \/ \A p \in Path : entry[p] # NoJob => stored[entry[p]] \cap output'.rows = {}]_vars
  BY <1>1
<1>3. QED
  BY <1>2, LinkInvariant, PTL DEF Spec, SuccessfulLinkMovesAll

=============================================================================
