------------------------ MODULE SnapshotMergeProofs ------------------------
(***************************************************************************)
(* The inductive invariant of SnapshotMerge and the theorems that follow   *)
(* from it, for any number of inputs and any snapshots.  It holds as long  *)
(* as no compiler has written to an input whose files had been read; the   *)
(* types are right in any case.                                            *)
(***************************************************************************)
EXTENDS SnapshotMerge, FiniteSetTheorems, SequenceTheorems, WellFoundedInduction, TLAPS

\* How many tables have been written when a phase begins.
Rank ==
  [thrown |-> 0, aborted |-> 0, list |-> 0, table |-> 1, paths |-> 2, contents |-> 3, remap |-> 4, include |-> 5,
   refarg |-> 6, diagnostic |-> 7, symbol |-> 8, symbolReference |-> 9, symbolDeclaration |-> 10, baseOf |-> 11,
   override |-> 12, done |-> 13]
Phase == DOMAIN Rank
Table == Phase \ {"thrown", "aborted", "list"}
Written(t) == Rank[t] < Rank[phase]

\* What may be found at a path.
Complete(s) == Consistent(s) /\ s.home \in Home /\ PathsOf(s) \subseteq Path
DiskInv ==
  /\ inputs \in Seq(DOMAIN disk)
  /\ inputs \in Inputs /\ projectHome \in Home
  /\ \A p \in DOMAIN disk : disk[p] = NoSnapshot \/ Complete(disk[p])

\* The snapshots are those of the inputs that were looked at.
Seen == IF phase = "list" THEN reached ELSE Len(inputs)
ListInv ==
  /\ snapshots \in Seq(DOMAIN disk)
  /\ \A i \in DOMAIN snapshots : disk[snapshots[i]] # NoSnapshot
  /\ \A i, j \in DOMAIN snapshots : snapshots[i] = snapshots[j] => i = j
  /\ reached \in 0 .. (IF phase = "list" THEN Len(inputs) ELSE Len(snapshots))
  /\ \A n \in 1 .. Seen : disk[inputs[n]] # NoSnapshot => \E i \in DOMAIN snapshots : snapshots[i] = inputs[n]

\* The numbers that t gives are those up to the size of t.
Numbering(t) ==
  /\ IsFiniteSet(DOMAIN t)
  /\ \A p \in DOMAIN t : t[p] \in 1 .. Cardinality(DOMAIN t)
  /\ \A p, q \in DOMAIN t : t[p] = t[q] => p = q

\* The snapshots whose files are in the table or external.
Added(i) == Written("table") \/ (phase = "table" /\ i <= reached)

\* A file has a number of the project if and only if it is in the project.
FileInv ==
  /\ Numbering(table)
  /\ IsFiniteSet(external) /\ external \subseteq Path
  /\ DOMAIN content \subseteq DOMAIN table /\ DOMAIN table \subseteq Path
  /\ \A p \in DOMAIN table : table[p] <= NbFilesInProject <=> p \in DOMAIN content
  /\ \A p \in DOMAIN content : InProject(p)
  /\ \A p \in external : ~InProject(p)
  /\ DOMAIN table = DOMAIN content \cup (IF Written("table") THEN external ELSE {})
  /\ \A i \in DOMAIN snapshots : Added(i) => PathsOf(Source(i)) \subseteq DOMAIN content \cup external
  /\ phase \in {"list", "thrown"} => DOMAIN table = {} /\ external = {}

\* The file table of the output is the inverse of the numbering.
OutFileInv ==
  Written("paths") =>
    /\ DOMAIN outFile = {table[p] : p \in DOMAIN table}
    /\ \A p \in DOMAIN table : outFile[table[p]].path = p

\* The number that the file n of s has in the output.
NumberOf(s, n) == table[s.file[n].path]

\* ids has the number of each file of each snapshot.
Remaps(ids) ==
  /\ DOMAIN ids = DOMAIN snapshots
  /\ \A i \in DOMAIN snapshots :
       /\ DOMAIN Source(i).file \subseteq DOMAIN ids[i]
       /\ \A n \in DOMAIN Source(i).file : ids[i][n] = NumberOf(Source(i), n)

\* No look-up has failed.
IdsInv == phase # "aborted" /\ (Written("remap") => Remaps(idtable))

\* The row r of table k is that of x in s.
Stands(r, k, s, x) ==
  /\ s.file[x.file].path \in DOMAIN content
  /\ r.file = NumberOf(s, x.file)
  /\ r.key = x.key
  /\ r.to = IF k = "include" THEN NumberOf(s, x.to) ELSE x.to

\* The row x of s has a row in the output.
Kept(k, s, x) ==
  s.file[x.file].path \in DOMAIN content =>
    \E r \in outRows[k] : r.file = NumberOf(s, x.file) /\ r.key = x.key /\ (k # "include" => r.to = x.to)

\* The tables of rows hold, once each, the rows of the files of the project.
RowsInv ==
  /\ DOMAIN outRows = Kind
  /\ \A k \in Kind :
       /\ \A r \in outRows[k] :
            Written(k) /\ \E i \in DOMAIN snapshots : \E x \in Source(i).rows[k] : Stands(r, k, Source(i), x)
       /\ Written(k) => \A i \in DOMAIN snapshots : \A x \in Source(i).rows[k] : Kept(k, Source(i), x)
       /\ \A q, r \in outRows[k] : Same(q, r) => q = r

\* The table of symbols holds the flags of all snapshots.
SymbolInv ==
  Written("symbol") =>
    /\ \A i \in DOMAIN snapshots : DOMAIN Source(i).symbol \subseteq DOMAIN outSymbol
    /\ \A s \in DOMAIN outSymbol : \A f \in outSymbol[s] :
         \E i \in DOMAIN snapshots : s \in DOMAIN Source(i).symbol /\ f \in Source(i).symbol[s]
    /\ \A i \in DOMAIN snapshots : \A s \in DOMAIN Source(i).symbol : Source(i).symbol[s] \subseteq outSymbol[s]

\* The table baseOf holds the pairs of all snapshots.
BaseInv ==
  /\ \A p \in outBaseOf : Written("baseOf") /\ \E i \in DOMAIN snapshots : p \in Source(i).baseOf
  /\ Written("baseOf") => \A i \in DOMAIN snapshots : Source(i).baseOf \subseteq outBaseOf

\* The table override holds one pair of each overriding method.
OverrideInv ==
  /\ \A p \in outOverride : Written("override") /\ \E i \in DOMAIN snapshots : p \in Source(i).override
  /\ Written("override") =>
       \A i \in DOMAIN snapshots : \A p \in Source(i).override : \E q \in outOverride : q[1] = p[1]

\* The inputs are removed at the end.
PhaseInv == phase \in Phase /\ {raced, removed} \subseteq BOOLEAN /\ (removed => phase = "done") /\ home \in Home

\* What holds whatever a compiler writes.
TypeInv ==
  /\ PhaseInv /\ DiskInv /\ ListInv
  /\ DOMAIN content \subseteq DOMAIN table /\ DOMAIN table \subseteq Path /\ external \subseteq Path
  /\ DOMAIN outRows = Kind

IInv ==
  /\ PhaseInv /\ DiskInv /\ ListInv /\ FileInv /\ OutFileInv
  /\ IdsInv /\ RowsInv /\ SymbolInv /\ BaseInv /\ OverrideInv

\* It includes the types.
LEMMA InvariantHasTypes == IInv => TypeInv
BY DEF IInv, TypeInv, FileInv, RowsInv

-----------------------------------------------------------------------------
(* Numbers.                                                                *)

\* Every set of naturals that is not empty has a least element.
LEMMA LeastExists ==
  ASSUME NEW T, T \subseteq Nat, T # {}
  PROVE  \E x \in T : \A y \in T : x <= y
<1> DEFINE R == StrictSubsetOrdering(Nat)
           W == {0 .. n : n \in T}
<1>1. IsWellFoundedOn(R, FiniteSubsetsOf(Nat))
  BY FS_StrictSubsetOrderingWellFounded
<1>2. W \subseteq FiniteSubsetsOf(Nat) /\ W # {}
  <2>1. \A n \in T : IsFiniteSet(0 .. n) /\ 0 .. n \subseteq Nat
    BY FS_Interval
  <2>2. QED
    BY <2>1 DEF FiniteSubsetsOf
<1> HIDE DEF W, R
<1>3. PICK w \in W : \A v \in W : ~ (<<v, w>> \in R)
  BY <1>1, <1>2, WFMin
<1>4. PICK x \in T : w = 0 .. x
  BY DEF W
<1>5. ASSUME NEW y \in T
      PROVE  x <= y
  <2> SUFFICES ASSUME y < x
               PROVE  FALSE
    OBVIOUS
  <2>1. 0 .. y \in W
    BY DEF W
  <2>2. 0 .. y \subseteq 0 .. x /\ x \in 0 .. x /\ x \notin 0 .. y /\ 0 .. x \subseteq Nat
    OBVIOUS
  <2>3. <<0 .. y, w>> \in R
    BY <1>4, <2>2 DEF R, StrictSubsetOrdering
  <2>4. QED
    BY <1>3, <2>1, <2>3
<1>6. QED
  BY <1>5

\* Every finite set of naturals that is not empty has a greatest element.
LEMMA GreatestExists ==
  ASSUME NEW T, T \subseteq Nat, T # {}, IsFiniteSet(T)
  PROVE  \E x \in T : \A y \in T : y <= x
<1> DEFINE R == StrictSubsetOrdering(Nat)
           Above(n) == {m \in T : n < m}
           W == {Above(n) : n \in T}
<1>1. IsWellFoundedOn(R, FiniteSubsetsOf(Nat))
  BY FS_StrictSubsetOrderingWellFounded
<1>2. W \subseteq FiniteSubsetsOf(Nat) /\ W # {}
  <2>1. \A n \in T : IsFiniteSet(Above(n)) /\ Above(n) \subseteq Nat
    BY FS_Subset
  <2>2. QED
    BY <2>1 DEF FiniteSubsetsOf
<1> HIDE DEF W, R
<1>3. PICK w \in W : \A v \in W : ~ (<<v, w>> \in R)
  BY <1>1, <1>2, WFMin
<1>4. PICK x \in T : w = Above(x)
  BY DEF W
<1>5. ASSUME NEW y \in T
      PROVE  y <= x
  <2> SUFFICES ASSUME x < y
               PROVE  FALSE
    OBVIOUS
  <2>1. Above(y) \in W
    BY DEF W
  <2>2. Above(y) \subseteq Above(x) /\ y \in Above(x) /\ y \notin Above(y) /\ Above(x) \subseteq Nat
    <3>1. \A m \in T : m \in Nat
      OBVIOUS
    <3>2. \A m \in T : y < m => x < m
      BY <3>1
    <3>3. ~ (y < y) /\ x < y
      BY <3>1
    <3>4. QED
      BY <3>1, <3>2, <3>3
  <2>3. <<Above(y), w>> \in R
    BY <1>4, <2>2 DEF R, StrictSubsetOrdering
  <2>4. QED
    BY <1>3, <2>1, <2>3
<1>6. QED
  BY <1>5

\* The paths of the files of a snapshot are finitely many.
LEMMA PathsFinite ==
  ASSUME NEW s, IsFiniteSet(DOMAIN s.file), NEW mine, mine \subseteq DOMAIN s.file
  PROVE  IsFiniteSet({s.file[n].path : n \in mine})
<1> DEFINE f == [n \in mine |-> s.file[n].path]
<1>1. IsFiniteSet(mine)
  BY FS_Subset
<1>2. f \in Surjection(mine, {s.file[n].path : n \in mine})
  BY DEF Surjection
<1>3. QED
  BY <1>1, <1>2, FS_Surjection

\* What FileIdTable::insert leaves: the numbers given before stay, the new
\* ones are greater and are those up to the size of the table.
LEMMA NumberedIsNumbering ==
  ASSUME NEW t, Numbering(t), NEW paths, IsFiniteSet(paths), NEW u \in Numbered(t, paths)
  PROVE  /\ DOMAIN u = DOMAIN t \cup paths
         /\ Numbering(u)
         /\ \A p \in DOMAIN t : u[p] = t[p]
         /\ \A p \in paths \ DOMAIN t : u[p] > Cardinality(DOMAIN t)
<1> DEFINE all == DOMAIN t \cup paths
<1>1. IsFiniteSet(all) /\ IsFiniteSet(DOMAIN t) /\ Cardinality(DOMAIN t) \in Nat /\ Cardinality(all) \in Nat
  BY FS_Union, FS_CardinalityType DEF Numbering
<1>2. Cardinality(DOMAIN t) <= Cardinality(all)
  BY <1>1, FS_Subset
<1>3. PICK f \in [paths \ DOMAIN t -> Cardinality(DOMAIN t) + 1 .. Cardinality(all)] :
        /\ \A p, q \in DOMAIN f : f[p] = f[q] => p = q
        /\ u = Over(f, t)
  BY DEF Numbered
<1>4. DOMAIN u = all
  BY <1>3 DEF Over
<1>5. \A p \in DOMAIN t : u[p] = t[p]
  BY <1>3 DEF Over
<1>6. \A p \in paths \ DOMAIN t : u[p] = f[p] /\ u[p] \in Cardinality(DOMAIN t) + 1 .. Cardinality(all)
  BY <1>3 DEF Over
<1> HIDE DEF all
<1>7. \A p \in DOMAIN t : u[p] \in 1 .. Cardinality(DOMAIN t)
  BY <1>5 DEF Numbering
<1>8. \A p \in all : u[p] \in 1 .. Cardinality(all)
  BY <1>1, <1>2, <1>6, <1>7 DEF all
<1>9. ASSUME NEW p \in all, NEW q \in all, u[p] = u[q]
      PROVE  p = q
  <2>1. CASE p \in DOMAIN t /\ q \in DOMAIN t
    BY <1>5, <1>9, <2>1 DEF Numbering
  <2>2. CASE p \notin DOMAIN t /\ q \notin DOMAIN t
    BY <1>3, <1>6, <1>9, <2>2 DEF all
  <2>3. CASE ~(p \in DOMAIN t <=> q \in DOMAIN t)
    BY <1>1, <1>6, <1>7, <1>9, <2>3 DEF all
  <2>4. QED
    BY <2>1, <2>2, <2>3
<1>10. Numbering(u)
  BY <1>1, <1>4, <1>8, <1>9 DEF Numbering
<1>11. \A p \in paths \ DOMAIN t : u[p] > Cardinality(DOMAIN t)
  BY <1>1, <1>6
<1>12. QED
  BY <1>4, <1>5, <1>10, <1>11 DEF all

-----------------------------------------------------------------------------
(* The phases.                                                             *)

\* Tables are written in the order of their ranks.
LEMMA Ranks ==
  /\ \A x \in Phase : Rank[x] \in Nat
  /\ \A x, y \in Table : Rank[x] = Rank[y] => x = y
  /\ \A x \in Table : Rank[x] > 0
  /\ Rank["list"] = 0 /\ Rank["thrown"] = 0 /\ Rank["aborted"] = 0
<1>1. Phase = {"thrown", "aborted", "list", "table", "paths", "contents", "remap", "include", "refarg", "diagnostic", "symbol",
               "symbolReference", "symbolDeclaration", "baseOf", "override", "done"}
  BY DEF Phase, Rank
<1>2. QED
  BY <1>1 DEF Table, Rank

\* The table that is written after t has the next rank.
LEMMA NextRank ==
  /\ {"paths", "contents", "remap", "include", "symbol", "symbolReference", "symbolDeclaration", "baseOf", "override",
      "done", "thrown", "aborted", "table", "list"} \subseteq Phase
  /\ Kind \subseteq Table
  /\ Rank["table"] = 1
  /\ Rank["paths"] = Rank["table"] + 1
  /\ Rank["contents"] = Rank["paths"] + 1
  /\ Rank["remap"] = Rank["contents"] + 1
  /\ Rank["include"] = Rank["remap"] + 1
  /\ Rank["symbolReference"] = Rank["symbol"] + 1
  /\ Rank["override"] = Rank["baseOf"] + 1
  /\ Rank["done"] = Rank["override"] + 1
  /\ \A k \in Kind : NextPhase[k] \in Phase /\ Rank[NextPhase[k]] = Rank[k] + 1
<1>1. Phase = {"thrown", "aborted", "list", "table", "paths", "contents", "remap", "include", "refarg", "diagnostic", "symbol",
               "symbolReference", "symbolDeclaration", "baseOf", "override", "done"}
  BY DEF Phase, Rank
<1>2. Kind = {"include", "refarg", "diagnostic", "symbolReference", "symbolDeclaration"}
  BY DEF Kind, HasSymbol
<1>3. \A k \in Kind : NextPhase[k] \in Phase /\ Rank[NextPhase[k]] = Rank[k] + 1
  BY <1>1, <1>2 DEF Rank, NextPhase
<1>4. QED
  BY <1>1, <1>2, <1>3 DEF Table, Rank

\* The tables that are written at the end are all of them, and the rows that
\* have a symbol are written after the symbols.
LEMMA Order ==
  /\ Rank["table"] < Rank["paths"] /\ Rank["paths"] < Rank["remap"]
  /\ \A k \in Kind : Rank["remap"] < Rank[k] /\ Rank[k] < Rank["baseOf"]
  /\ \A k \in HasSymbol : Rank["symbol"] < Rank[k]
  /\ Rank["symbol"] < Rank["baseOf"] /\ Rank["baseOf"] < Rank["override"]
  /\ \A x \in Table \ {"done"} : Rank[x] < Rank["done"]
  /\ \A x \in Table \ {"table"} : Rank["table"] < Rank[x]
  /\ {"table", "paths", "remap", "symbol", "baseOf", "override", "done"} \subseteq Table /\ Kind \subseteq Table
<1>1. Phase = {"thrown", "aborted", "list", "table", "paths", "contents", "remap", "include", "refarg", "diagnostic", "symbol",
               "symbolReference", "symbolDeclaration", "baseOf", "override", "done"}
  BY DEF Phase, Rank
<1>2. Kind = {"include", "refarg", "diagnostic", "symbolReference", "symbolDeclaration"}
  BY DEF Kind, HasSymbol
<1>3. QED
  BY <1>1, <1>2 DEF Table, Rank, HasSymbol

\* A compiler writes to an input.
Grows == \E p \in DOMAIN disk : \E s \in Versions(p) : Grow(p, s)

\* What a step may change, by the phase it is taken in.
Frame ==
  /\ phase \notin {"list", "table"} /\ ~raced' => UNCHANGED disk
  /\ UNCHANGED <<inputs, projectHome>>
  /\ phase # "list" => UNCHANGED locals /\ phase' # "list"
  /\ phase \notin {"list", "table"} => UNCHANGED files
  /\ phase = "list" => UNCHANGED <<table, content, external>> /\ phase' \in {"list", "table", "thrown"}
  /\ phase = "thrown" => phase' = "thrown"
  /\ phase \notin {"paths", "contents"} => UNCHANGED outFile
  /\ phase # "remap" => UNCHANGED idtable
  /\ DOMAIN outRows' = Kind
  /\ \A t \in Kind : phase # t => outRows'[t] = outRows[t]
  /\ phase # "symbol" => UNCHANGED outSymbol
  /\ phase # "baseOf" => UNCHANGED outBaseOf
  /\ phase # "override" => UNCHANGED outOverride
  /\ raced => raced'

\* Each table is written once: a table that is written now was written before
\* or is the one of this phase.
Progress ==
  /\ phase' \in Phase
  /\ \A t \in Table : Written(t)' <=> (Written(t) \/ (phase = t /\ phase' # t))

\* No table is followed by the list.
LEMMA NextIsLater == \A k \in Kind : NextPhase[k] # "list"
BY NextRank, Ranks DEF Table

\* The frame of the actions.
LEMMA StepFrame == DOMAIN outRows = Kind /\ [Next]_vars => Frame
<1> SUFFICES ASSUME DOMAIN outRows = Kind, [Next]_vars
             PROVE  Frame
  OBVIOUS
<1> USE DEF Frame, vars, locals, files, relations, out
<1>0. "list" \notin Kind /\ "remap" \notin Kind /\ "table" \notin Kind /\ "paths" \notin Kind /\ "contents" \notin Kind /\ "symbol" \notin Kind
      /\ "baseOf" \notin Kind /\ "override" \notin Kind /\ "thrown" \notin Kind /\ "done" \notin Kind
  BY DEF Kind, HasSymbol
<1>1. ASSUME ListSnapshot
      PROVE  Frame
  BY <1>0, <1>1 DEF ListSnapshot
<1>2. ASSUME ComputeHome
      PROVE  Frame
  BY <1>0, <1>2 DEF ComputeHome
<1>3. ASSUME NEW i \in DOMAIN snapshots, AddFilesOf(i)
      PROVE  Frame
  BY <1>0, <1>3 DEF AddFilesOf
<1>4. ASSUME AddExternalFiles
      PROVE  Frame
  BY <1>0, <1>4 DEF AddExternalFiles
<1>5. ASSUME WritePaths
      PROVE  Frame
  BY <1>0, <1>5 DEF WritePaths
<1>6. ASSUME WriteContents
      PROVE  Frame
  BY <1>0, <1>6 DEF WriteContents
<1>7. ASSUME NEW k \in Kind, WriteRows(k)
      PROVE  Frame
  BY <1>0, <1>7, NextIsLater DEF WriteRows
<1>8. ASSUME WriteSymbols
      PROVE  Frame
  BY <1>0, <1>8 DEF WriteSymbols
<1>9. ASSUME WriteBaseOf
      PROVE  Frame
  BY <1>0, <1>9 DEF WriteBaseOf
<1>10. ASSUME WriteOverride
       PROVE  Frame
  BY <1>0, <1>10 DEF WriteOverride
<1>11. ASSUME RemoveSources
       PROVE  Frame
  BY <1>0, <1>11 DEF RemoveSources
<1>12. ASSUME Finished \/ UNCHANGED vars
       PROVE  Frame
  BY <1>0, <1>12 DEF Finished
<1>13. ASSUME NEW p \in DOMAIN disk, NEW s \in Versions(p), Grow(p, s)
       PROVE  Frame
  BY <1>0, <1>13 DEF Grow, HasRead
<1>14. ASSUME ComputeIds
       PROVE  Frame
  BY <1>0, <1>14 DEF ComputeIds
<1>15. ASSUME LookUpInVain
       PROVE  Frame
  BY <1>0, <1>15 DEF LookUpInVain
<1>16. QED
  BY <1>1, <1>2, <1>3, <1>4, <1>5, <1>6, <1>7, <1>8, <1>9, <1>10, <1>11, <1>12, <1>13, <1>14, <1>15 DEF Next

\* The order of the phases.
LEMMA StepProgress == phase \in Phase /\ phase' # "aborted" /\ [Next]_vars => Progress
<1> SUFFICES ASSUME phase \in Phase, phase' # "aborted", [Next]_vars
             PROVE  Progress
  OBVIOUS
<1> USE Ranks, NextRank DEF Progress, Written, vars
<1>1. ASSUME ListSnapshot
      PROVE  Progress
  BY <1>1 DEF ListSnapshot, Table
<1>2. ASSUME ComputeHome
      PROVE  Progress
  BY <1>2 DEF ComputeHome, Table
<1>3. ASSUME NEW i \in DOMAIN snapshots, AddFilesOf(i)
      PROVE  Progress
  BY <1>3 DEF AddFilesOf, Table
<1>4. ASSUME AddExternalFiles
      PROVE  Progress
  BY <1>4 DEF AddExternalFiles, Table
<1>5. ASSUME WritePaths
      PROVE  Progress
  BY <1>5 DEF WritePaths, Table
<1>6. ASSUME WriteContents
      PROVE  Progress
  BY <1>6 DEF WriteContents, Table
<1>7. ASSUME NEW k \in Kind, WriteRows(k)
      PROVE  Progress
  BY <1>7 DEF WriteRows, Table
<1>8. ASSUME WriteSymbols
      PROVE  Progress
  BY <1>8 DEF WriteSymbols, Table
<1>9. ASSUME WriteBaseOf
      PROVE  Progress
  <2>1. phase = "baseOf" /\ phase' = "override" /\ "baseOf" \in Table
    BY <1>9, Order DEF WriteBaseOf
  <2>2. \A t \in Table : Rank[t] < Rank["baseOf"] + 1 <=> (Rank[t] < Rank["baseOf"] \/ t = "baseOf")
    BY <2>1 DEF Table
  <2>3. QED
    BY <2>1, <2>2
<1>10. ASSUME WriteOverride
       PROVE  Progress
  BY <1>10 DEF WriteOverride, Table
<1>11. ASSUME RemoveSources
       PROVE  Progress
  BY <1>11 DEF RemoveSources, Table
<1>12. ASSUME Finished \/ UNCHANGED vars
       PROVE  Progress
  BY <1>12 DEF Finished, Table
<1>13. ASSUME NEW p \in DOMAIN disk, NEW s \in Versions(p), Grow(p, s)
       PROVE  Progress
  BY <1>13 DEF Grow, Table
<1>14. ASSUME ComputeIds
       PROVE  Progress
  BY <1>14 DEF ComputeIds, Table
<1>15. QED
  BY <1>1, <1>2, <1>3, <1>4, <1>5, <1>6, <1>7, <1>8, <1>9, <1>10, <1>11, <1>12, <1>13, <1>14 DEF Next, LookUpInVain

\* What happens while the files are not all read.
LEMMA ReadingActions ==
  ASSUME [Next]_vars
  PROVE  /\ phase = "list" => ListSnapshot \/ ComputeHome \/ Grows \/ UNCHANGED vars
         /\ phase = "table" => (\E i \in DOMAIN snapshots : AddFilesOf(i)) \/ AddExternalFiles \/ Grows \/ UNCHANGED vars
<1>1. \A k \in Kind : k \notin {"list", "table"}
  BY DEF Kind, HasSymbol
<1>2. QED
  BY <1>1
     DEF Next, ListSnapshot, ComputeHome, AddFilesOf, AddExternalFiles, WritePaths, WriteContents, ComputeIds,
         LookUpInVain, WriteRows, WriteSymbols, WriteBaseOf, WriteOverride, RemoveSources, Finished, Grows

\* What each phase does after that, if no compiler interferes and all look-ups
\* succeed.
LEMMA PhaseActions ==
  ASSUME [Next]_vars, ~raced', phase' # "aborted"
  PROVE  /\ phase = "paths" => WritePaths \/ UNCHANGED vars
         /\ phase = "contents" => WriteContents \/ UNCHANGED vars
         /\ phase = "remap" => ComputeIds \/ UNCHANGED vars
         /\ \A k \in Kind : phase = k => WriteRows(k) \/ UNCHANGED vars
         /\ phase = "symbol" => WriteSymbols \/ UNCHANGED vars
         /\ phase = "baseOf" => WriteBaseOf \/ UNCHANGED vars
         /\ phase = "override" => WriteOverride \/ UNCHANGED vars
<1>1. \A k \in Kind : k \notin {"list", "table", "paths", "contents", "remap", "symbol", "baseOf", "override", "done", "thrown",
                              "aborted"}
  BY DEF Kind, HasSymbol
<1>2. phase \notin {"list", "table"} => ~Grows
  BY DEF Grows, Grow, HasRead
<1>3. ~LookUpInVain
  BY DEF LookUpInVain
<1>4. QED
  BY <1>1, <1>2, <1>3
     DEF Next, Grows, ListSnapshot, ComputeHome, AddFilesOf, AddExternalFiles, WritePaths, WriteContents, ComputeIds,
         WriteRows, WriteSymbols, WriteBaseOf, WriteOverride, RemoveSources, Finished

-----------------------------------------------------------------------------
(* The initial states.                                                     *)

\* At first there is nothing.
LEMMA InitIInv == Init => IInv
<1> SUFFICES ASSUME Init
             PROVE  IInv
  OBVIOUS
<1>1. phase = "list" /\ snapshots = <<>> /\ reached = 0 /\ DOMAIN table = {} /\ DOMAIN content = {} /\ external = {}
      /\ raced = FALSE /\ removed = FALSE /\ home = NoHome /\ outBaseOf = {} /\ outOverride = {}
  BY DEF Init, EmptyFunction
<1>2. \A t \in Table : ~Written(t)
  BY <1>1, Ranks DEF Written, Table
<1>3. \A t \in {"table", "paths", "remap", "symbol", "baseOf", "override"} \cup Kind : ~Written(t)
  BY <1>2, Order
<1>4. PhaseInv
  BY <1>1, NextRank DEF PhaseInv, Home
<1>5. DiskInv
  <2>1. inputs \in Seq(DOMAIN disk) /\ inputs \in Inputs /\ projectHome \in Home
    BY InputsAssumption, HomesAssumption DEF Init
  <2>2. ASSUME NEW p \in DOMAIN disk, disk[p] # NoSnapshot
        PROVE  Complete(disk[p])
    <3>1. disk \in Disks
      BY DEF Init
    <3>2. PathsOf(disk[p]) \subseteq Path
      BY <2>2, <3>1 DEF Path
    <3>3. QED
      BY <2>2, <3>1, <3>2, DisksAssumption DEF Complete
  <2>3. QED
    BY <2>1, <2>2 DEF DiskInv
<1>6. ListInv
  <2>1. Len(inputs) \in Nat /\ Seen = 0 /\ DOMAIN snapshots = {} /\ snapshots \in Seq(DOMAIN disk)
    BY <1>1, <1>5 DEF Seen, DiskInv
  <2>2. QED
    BY <1>1, <2>1 DEF ListInv
<1>7. FileInv
  <2>1. Numbering(table) /\ IsFiniteSet(external)
    BY <1>1, FS_EmptySet DEF Numbering
  <2>2. QED
    BY <1>1, <1>3, <2>1 DEF FileInv
<1>8. OutFileInv /\ IdsInv /\ SymbolInv /\ BaseInv /\ OverrideInv
  BY <1>1, <1>3 DEF OutFileInv, IdsInv, SymbolInv, BaseInv, OverrideInv
<1>9. RowsInv
  <2>1. DOMAIN outRows = Kind /\ \A k \in Kind : outRows[k] = {}
    BY DEF Init
  <2>2. QED
    BY <1>3, <2>1 DEF RowsInv
<1>10. QED
  BY <1>4, <1>5, <1>6, <1>7, <1>8, <1>9 DEF IInv

-----------------------------------------------------------------------------
(* The inputs.                                                             *)

\* The phases and the removal of the inputs.
LEMMA PhaseStep == TypeInv /\ [Next]_vars => PhaseInv'
<1> SUFFICES ASSUME TypeInv, [Next]_vars
             PROVE  PhaseInv'
  OBVIOUS
<1>0. "done" \notin Kind
  BY DEF Kind, HasSymbol
<1>1. Frame
  BY StepFrame DEF TypeInv
<1>2. removed' \in BOOLEAN /\ (removed' => phase' = "done")
  <2>1. CASE RemoveSources
    BY <2>1 DEF RemoveSources
  <2>2. CASE ~RemoveSources
    <3>1. removed' = removed
      BY <2>2 DEF Next, vars, ListSnapshot, ComputeHome, AddFilesOf, AddExternalFiles, WritePaths, WriteContents, ComputeIds,
                  LookUpInVain, WriteRows, WriteSymbols, WriteBaseOf, WriteOverride, Finished, Grow
    <3>2. phase = "done" => phase' = "done"
      BY <2>2, <1>0
         DEF Next, vars, ListSnapshot, ComputeHome, AddFilesOf, AddExternalFiles, WritePaths, WriteContents, ComputeIds,
             LookUpInVain, WriteRows, WriteSymbols, WriteBaseOf, WriteOverride, Finished, Grow
    <3>3. QED
      BY <3>1, <3>2 DEF TypeInv, PhaseInv
  <2>3. QED
    BY <2>1, <2>2
<1>3. home' \in Home
  <2>1. CASE phase # "list"
    BY <1>1, <2>1 DEF Frame, TypeInv, PhaseInv, locals
  <2>2. CASE phase = "list"
    <3>1. CASE ComputeHome
      <4>1. \A h \in HomesOfInputs : h \in Home
        BY DEF HomesOfInputs, Source, TypeInv, DiskInv, ListInv, Complete
      <4>2. QED
        <5>1. projectHome \in Home /\ home \in Home /\ NoHome \in Home
          BY DEF TypeInv, PhaseInv, DiskInv, Home
        <5>2. Cardinality(HomesOfInputs) = 1 => HomesOfInputs # {}
          BY FS_EmptySet
        <5>3. Cardinality(HomesOfInputs) = 1 => (CHOOSE h \in HomesOfInputs : TRUE) \in Home
          BY <4>1, <5>2
        <5>4. QED
          BY <3>1, <5>1, <5>3 DEF ComputeHome
    <3>2. CASE ~ComputeHome
      BY <2>2, <3>2, ReadingActions DEF ListSnapshot, Grows, Grow, vars, locals, TypeInv, PhaseInv
    <3>3. QED
      BY <3>1, <3>2
  <2>3. QED
    BY <2>1, <2>2
<1>4. raced' \in BOOLEAN
  <2>1. CASE Grows
    <3>1. PICK p \in DOMAIN disk : \E t \in Versions(p) : Grow(p, t)
      BY <2>1 DEF Grows
    <3>2. QED
      BY <3>1 DEF Grow
  <2>2. CASE ~Grows
    BY <2>2 DEF Next, Grows, vars, TypeInv, PhaseInv, ListSnapshot, ComputeHome, AddFilesOf, AddExternalFiles, WritePaths,
                WriteContents, ComputeIds, LookUpInVain, WriteRows, WriteSymbols, WriteBaseOf, WriteOverride, RemoveSources,
                Finished
  <2>3. QED
    BY <2>1, <2>2
<1>5. phase' \in Phase
  <2>1. CASE phase' = "aborted"
    BY <2>1, NextRank
  <2>2. CASE phase' # "aborted"
    BY <2>2, StepProgress DEF TypeInv, PhaseInv, Progress
  <2>3. QED
    BY <2>1, <2>2
<1>6. QED
  BY <1>2, <1>3, <1>4, <1>5 DEF PhaseInv

\* The paths that are not those of snapshots stay the same.
SamePaths ==
  DOMAIN disk' = DOMAIN disk /\ \A p \in DOMAIN disk : disk'[p] = NoSnapshot <=> disk[p] = NoSnapshot

\* A compiler replaces a snapshot by one that is complete, too.
LEMMA DiskStep == TypeInv /\ [Next]_vars => DiskInv' /\ SamePaths
<1> SUFFICES ASSUME TypeInv, [Next]_vars
             PROVE  DiskInv' /\ SamePaths
  OBVIOUS
<1>0. UNCHANGED <<inputs, projectHome>>
  BY StepFrame DEF Frame, TypeInv
<1>1. CASE Grows
  <2>0. PICK p \in DOMAIN disk : \E t \in Versions(p) : Grow(p, t)
    BY <1>1 DEF Grows
  <2>1. PICK s \in Versions(p) : Grow(p, s)
    BY <2>0
  <2>2. disk' = [disk EXCEPT ![p] = s] /\ s # NoSnapshot /\ disk[p] # NoSnapshot
    BY <2>1 DEF Grow
  <2>3. PICK d \in Disks : p \in DOMAIN d /\ s = d[p]
    BY <2>1 DEF Versions
  <2>4. PathsOf(s) \subseteq Path
    BY <2>2, <2>3 DEF Path
  <2>5. Complete(s)
    BY <2>2, <2>3, <2>4, DisksAssumption DEF Complete
  <2>6. DOMAIN disk' = DOMAIN disk /\ \A x \in DOMAIN disk : disk'[x] = IF x = p THEN s ELSE disk[x]
    BY <2>2
  <2>7. QED
    BY <1>0, <2>2, <2>5, <2>6 DEF TypeInv, DiskInv, SamePaths
<1>2. CASE ~Grows
  <2>1. UNCHANGED disk
    BY <1>2 DEF Next, Grows, vars, ListSnapshot, ComputeHome, AddFilesOf, AddExternalFiles, WritePaths, WriteContents,
                ComputeIds, LookUpInVain, WriteRows, WriteSymbols, WriteBaseOf, WriteOverride, RemoveSources, Finished
  <2>2. QED
    BY <1>0, <2>1 DEF TypeInv, DiskInv, Complete, SamePaths
<1>3. QED
  BY <1>1, <1>2

\* The snapshots are listed once each, whatever the list of inputs.
LEMMA ListStep == TypeInv /\ [Next]_vars => ListInv'
<1> SUFFICES ASSUME TypeInv, [Next]_vars
             PROVE  ListInv'
  OBVIOUS
<1>1. Frame
  BY StepFrame DEF TypeInv
<1>2. DOMAIN disk' = DOMAIN disk /\ \A p \in DOMAIN disk : disk'[p] = NoSnapshot <=> disk[p] = NoSnapshot
  BY DiskStep DEF SamePaths
<1>3. inputs \in Seq(DOMAIN disk) /\ snapshots \in Seq(DOMAIN disk) /\ Len(inputs) \in Nat /\ Len(snapshots) \in Nat
      /\ DOMAIN snapshots = 1 .. Len(snapshots)
  BY DEF TypeInv, DiskInv, ListInv
<1>4. CASE ListSnapshot
  <2> DEFINE p == inputs[reached + 1]
  <2>1. phase = "list" /\ reached \in Nat /\ reached < Len(inputs) /\ reached' = reached + 1
        /\ UNCHANGED <<phase, inputs, disk>>
    BY <1>4 DEF ListSnapshot, TypeInv, ListInv
  <2>2. p \in DOMAIN disk
    BY <1>3, <2>1
  <2>3. CASE Good(snapshots, p)
    <3>1. snapshots' = Append(snapshots, p)
      BY <1>4, <2>3 DEF ListSnapshot
    <3> HIDE DEF p
    <3>2. snapshots' \in Seq(DOMAIN disk) /\ Len(snapshots') = Len(snapshots) + 1 /\ snapshots'[Len(snapshots) + 1] = p
          /\ DOMAIN snapshots' = 1 .. Len(snapshots) + 1
          /\ \A i \in DOMAIN snapshots : snapshots'[i] = snapshots[i]
      BY <1>3, <2>2, <3>1
    <3>3. \A i \in DOMAIN snapshots' : i \in DOMAIN snapshots \/ i = Len(snapshots) + 1
      BY <1>3, <3>2
    <3>4. \A i, j \in DOMAIN snapshots' : snapshots'[i] = snapshots'[j] => i = j
      BY <2>3, <3>2, <3>3 DEF Good, TypeInv, ListInv
    <3>5. \A i \in DOMAIN snapshots' : disk'[snapshots'[i]] # NoSnapshot
      BY <2>1, <2>3, <3>2, <3>3 DEF Good, TypeInv, ListInv
    <3>6. ASSUME NEW n \in 1 .. reached + 1, disk[inputs[n]] # NoSnapshot
          PROVE  \E i \in DOMAIN snapshots' : snapshots'[i] = inputs[n]
      <4>1. CASE n = reached + 1
        BY <1>3, <3>2, <4>1 DEF p
      <4>2. CASE n # reached + 1
        <5>1. n \in 1 .. Seen
          BY <2>1, <4>2 DEF Seen
        <5>2. PICK i \in DOMAIN snapshots : snapshots[i] = inputs[n]
          BY <3>6, <5>1 DEF TypeInv, ListInv
        <5>3. i \in DOMAIN snapshots' /\ snapshots'[i] = inputs[n]
          BY <1>3, <3>2, <5>2
        <5>4. QED
          BY <5>3
      <4>3. QED
        BY <4>1, <4>2
    <3>7. reached' \in 0 .. Len(inputs') /\ Seen' = reached + 1
      BY <1>3, <2>1 DEF Seen
    <3>8. QED
      BY <2>1, <3>2, <3>4, <3>5, <3>6, <3>7 DEF ListInv
  <2>4. CASE ~Good(snapshots, p)
    <3>1. snapshots' = snapshots
      BY <1>4, <2>4 DEF ListSnapshot
    <3>2. ASSUME NEW n \in 1 .. reached + 1, disk[inputs[n]] # NoSnapshot
          PROVE  \E i \in DOMAIN snapshots : snapshots[i] = inputs[n]
      <4>1. CASE n = reached + 1
        BY <2>4, <3>2, <4>1 DEF Good
      <4>2. CASE n # reached + 1
        BY <2>1, <3>2, <4>2 DEF Seen, TypeInv, ListInv
      <4>3. QED
        BY <4>1, <4>2
    <3>3. reached' \in 0 .. Len(inputs') /\ Seen' = reached + 1
      BY <1>3, <2>1 DEF Seen
    <3>4. QED
      BY <2>1, <3>1, <3>2, <3>3 DEF TypeInv, ListInv
  <2>5. QED
    BY <2>3, <2>4
<1>5. CASE ComputeHome
  <2>1. phase = "list" /\ phase' # "list" /\ reached = Len(inputs) /\ reached' = 0
        /\ UNCHANGED <<disk, inputs, snapshots>>
    BY <1>5 DEF ComputeHome
  <2>2. Seen' = Seen /\ reached' \in 0 .. Len(snapshots')
    BY <1>3, <2>1 DEF Seen
  <2>3. QED
    BY <2>1, <2>2 DEF TypeInv, ListInv
<1>6. CASE phase = "list" /\ Grows
  <2>1. UNCHANGED <<phase, inputs, snapshots, reached>>
    BY <1>6 DEF Grows, Grow, locals, files
  <2>2. \A n \in 1 .. Seen : inputs[n] \in DOMAIN disk
    BY <1>3 DEF Seen, TypeInv, ListInv
  <2>3. \A i \in DOMAIN snapshots : snapshots[i] \in DOMAIN disk
    BY <1>3
  <2>4. Seen' = Seen
    BY <2>1 DEF Seen
  <2>5. QED
    BY <1>2, <2>1, <2>2, <2>3, <2>4 DEF TypeInv, ListInv
<1>7. CASE phase # "list"
  <2>1. UNCHANGED <<inputs, snapshots>> /\ phase' # "list"
    BY <1>1, <1>7 DEF Frame, locals
  <2>2. Seen' = Seen /\ Seen = Len(inputs)
    BY <1>7, <2>1 DEF Seen
  <2>3. reached' \in 0 .. Len(snapshots)
    <3>1. CASE \E i \in DOMAIN snapshots : AddFilesOf(i)
      BY <1>3, <3>1 DEF AddFilesOf
    <3>2. CASE UNCHANGED reached
      BY <1>7, <3>2 DEF TypeInv, ListInv
    <3>3. CASE AddExternalFiles \/ Grows \/ UNCHANGED vars \/ phase # "table"
      BY <1>1, <1>7, <3>2, <3>3 DEF Frame, AddExternalFiles, Grows, Grow, vars, files
    <3>4. QED
      BY <3>1, <3>3, ReadingActions
  <2>4. \A n \in 1 .. Seen : inputs[n] \in DOMAIN disk
    BY <1>3, <2>2
  <2>5. \A i \in DOMAIN snapshots : snapshots[i] \in DOMAIN disk
    BY <1>3
  <2>6. QED
    BY <1>2, <1>7, <2>1, <2>2, <2>3, <2>4, <2>5 DEF TypeInv, ListInv
<1>8. CASE UNCHANGED vars
  BY <1>8 DEF vars, locals, files, TypeInv, ListInv, Seen
<1>9. QED
  BY <1>4, <1>5, <1>6, <1>7, <1>8, ReadingActions

-----------------------------------------------------------------------------
(* The files.                                                              *)

\* The snapshots that are listed are complete.
LEMMA SnapshotsComplete ==
  ASSUME DiskInv, ListInv, NEW i \in DOMAIN snapshots
  PROVE  Complete(Source(i))
BY DEF DiskInv, ListInv, Source

\* FileIdTable::insert adds the paths it is given.
LEMMA NumberedDomain ==
  ASSUME NEW t, NEW paths, NEW u \in Numbered(t, paths)
  PROVE  DOMAIN u = DOMAIN t \cup paths
<1>1. PICK f \in [paths \ DOMAIN t -> Cardinality(DOMAIN t) + 1 .. Cardinality(DOMAIN t \cup paths)] : u = Over(f, t)
  BY DEF Numbered
<1>2. QED
  BY <1>1 DEF Over

\* The types are right after every step.
LEMMA TypeStep == TypeInv /\ [Next]_vars => TypeInv'
<1> SUFFICES ASSUME TypeInv, [Next]_vars
             PROVE  TypeInv'
  OBVIOUS
<1>1. PhaseInv' /\ DiskInv' /\ ListInv' /\ Frame
  BY PhaseStep, DiskStep, ListStep, StepFrame DEF TypeInv
<1>2. CASE \E i \in DOMAIN snapshots : AddFilesOf(i)
  <2>1. PICK i \in DOMAIN snapshots : AddFilesOf(i)
    BY <1>2
  <2> DEFINE s == Source(i)
             mine == {n \in DOMAIN s.file : InProject(s.file[n].path)}
             new == {n \in mine : s.file[n].path \notin DOMAIN table}
             P == {s.file[n].path : n \in mine}
             E == {s.file[n].path : n \in DOMAIN s.file \ mine}
  <2>2. /\ table' \in Numbered(table, P)
        /\ external' = external \cup E
        /\ content' = Over([p \in {s.file[n].path : n \in new} |->
                              s.file[CHOOSE n \in new : s.file[n].path = p].content], content)
    BY <2>1 DEF AddFilesOf
  <2>3. PathsOf(s) \subseteq Path
    BY SnapshotsComplete DEF TypeInv, Complete
  <2>4. P \subseteq Path /\ E \subseteq Path
    BY <2>3 DEF PathsOf
  <2>5. DOMAIN content' = DOMAIN content \cup {s.file[n].path : n \in new}
    BY <2>2 DEF Over
  <2>6. {s.file[n].path : n \in new} \subseteq P
    OBVIOUS
  <2> HIDE DEF s, mine, new, P, E
  <2>7. DOMAIN table' = DOMAIN table \cup P
    BY <2>2, NumberedDomain
  <2>8. QED
    BY <1>1, <2>2, <2>4, <2>5, <2>6, <2>7 DEF TypeInv, Frame
<1>3. CASE AddExternalFiles
  <2>1. table' \in Numbered(table, external) /\ UNCHANGED <<content, external>>
    BY <1>3 DEF AddExternalFiles
  <2>2. DOMAIN table' = DOMAIN table \cup external
    BY <2>1, NumberedDomain
  <2>3. QED
    BY <1>1, <2>1, <2>2 DEF TypeInv, Frame
<1>4. CASE UNCHANGED <<table, content, external>>
  BY <1>1, <1>4 DEF TypeInv, Frame
<1>5. CASE phase = "table" => Grows \/ UNCHANGED vars
  <2>1. UNCHANGED <<table, content, external>>
    BY <1>1, <1>5 DEF Frame, Grows, Grow, vars, files
  <2>2. QED
    BY <1>4, <2>1
<1>6. QED
  BY <1>2, <1>3, <1>5, ReadingActions

\* When paths are looked up every file of every snapshot has a number.
LEMMA RowsPhase ==
  ASSUME IInv, phase = "remap" \/ phase \in Kind
  PROVE  /\ Written("table") /\ Written("paths")
         /\ phase \in Kind => Written("remap")
         /\ \A i \in DOMAIN snapshots : PathsOf(Source(i)) \subseteq DOMAIN table
<1>1. {"table", "paths", "remap"} \subseteq Table /\ Kind \subseteq Table
  BY Order
<1>2. Rank["table"] \in Nat /\ Rank["paths"] \in Nat /\ Rank["remap"] \in Nat /\ \A k \in Kind : Rank[k] \in Nat
  BY <1>1, Ranks DEF Table
<1>3. Written("table") /\ Written("paths") /\ (phase \in Kind => Written("remap"))
  BY <1>2, Order DEF Written
<1>4. \A i \in DOMAIN snapshots : PathsOf(Source(i)) \subseteq DOMAIN table
  BY <1>3 DEF Added, IInv, FileInv
<1>5. QED
  BY <1>3, <1>4

\* No look-up fails as long as nothing is written to what was read.
LEMMA EveryLookUpSucceeds == IInv => ~LookUpInVain
<1> SUFFICES ASSUME IInv, LookUpInVain
             PROVE  FALSE
  OBVIOUS
<1>1. CASE phase = "remap" /\ \E i \in DOMAIN snapshots : ~AllFound(i)
  BY <1>1, RowsPhase DEF AllFound
<1>2. CASE phase \in Kind /\ \E i \in DOMAIN snapshots : ~Indexable(i, phase)
  <2>1. PICK i \in DOMAIN snapshots : ~Indexable(i, phase)
    BY <1>2
  <2>2. Remaps(idtable)
    BY <1>2, RowsPhase DEF IInv, IdsInv
  <2>3. DOMAIN Source(i).file \subseteq DOMAIN idtable[i]
    BY <2>2 DEF Remaps
  <2>4. \A r \in Source(i).rows[phase] :
          r.file \in DOMAIN Source(i).file /\ (phase = "include" => r.to \in DOMAIN Source(i).file)
    BY <1>2, SnapshotsComplete DEF IInv, Complete, Consistent
  <2>5. QED
    BY <2>1, <2>3, <2>4 DEF Indexable
<1>3. QED
  BY <1>1, <1>2 DEF LookUpInVain

\* So the phases follow each other.
LEMMA OrderlyStep ==
  ASSUME IInv, [Next]_vars
  PROVE  Frame /\ Progress /\ phase' # "aborted"
<1>1. phase' # "aborted"
  <2>1. \A k \in Kind : NextPhase[k] # "aborted"
    BY DEF NextPhase, Kind, HasSymbol
  <2>2. phase # "aborted" /\ ~LookUpInVain
    BY EveryLookUpSucceeds DEF IInv, IdsInv
  <2>3. QED
    BY <2>1, <2>2
       DEF Next, vars, ListSnapshot, ComputeHome, AddFilesOf, AddExternalFiles, WritePaths, WriteContents, ComputeIds,
           WriteRows, WriteSymbols, WriteBaseOf, WriteOverride, RemoveSources, Finished, Grow
<1>2. Frame /\ Progress
  BY <1>1, StepFrame, StepProgress DEF IInv, PhaseInv, RowsInv
<1>3. QED
  BY <1>1, <1>2

\* The files of one snapshot more: the table and the content have the same
\* paths, so that every number is one of the project.
LEMMA AddFilesStep ==
  ASSUME IInv, Frame, Progress, NEW i \in DOMAIN snapshots, AddFilesOf(i)
  PROVE  FileInv'
<1> DEFINE s == Source(i)
           mine == {n \in DOMAIN s.file : InProject(s.file[n].path)}
           new == {n \in mine : s.file[n].path \notin DOMAIN table}
           P == {s.file[n].path : n \in mine}
           E == {s.file[n].path : n \in DOMAIN s.file \ mine}
<1>1. /\ phase = "table" /\ phase' = "table" /\ reached = i - 1 /\ reached' = i
      /\ UNCHANGED <<disk, inputs, snapshots, home>>
      /\ table' \in Numbered(table, P)
      /\ external' = external \cup E
      /\ content' = Over([p \in {s.file[n].path : n \in new} |->
                            s.file[CHOOSE n \in new : s.file[n].path = p].content], content)
  BY DEF AddFilesOf, locals
<1>2. IsFiniteSet(DOMAIN s.file) /\ PathsOf(s) \subseteq Path
  BY SnapshotsComplete DEF IInv, Complete, Consistent
<1>3. IsFiniteSet(P) /\ IsFiniteSet(E)
  BY <1>2, PathsFinite
<1>4. P \subseteq Path /\ E \subseteq Path /\ PathsOf(s) = P \cup E
  BY <1>2 DEF PathsOf
<1>5. (\A p \in P : InProject(p)) /\ (\A p \in E : ~InProject(p))
  OBVIOUS
<1>6. DOMAIN content' = DOMAIN content \cup {s.file[n].path : n \in new}
  BY <1>1 DEF Over
<1>7. {s.file[n].path : n \in new} \subseteq P /\ P \ DOMAIN table \subseteq {s.file[n].path : n \in new}
  OBVIOUS
<1> HIDE DEF s, P, E, mine, new
<1>8. ~Written("table") /\ ~Written("table")'
  BY <1>1, Ranks, NextRank DEF Written
<1>9. DOMAIN table = DOMAIN content
  BY <1>8 DEF IInv, FileInv
<1>10. DOMAIN table' = DOMAIN table \cup P /\ Numbering(table')
  BY <1>1, <1>3, NumberedIsNumbering DEF IInv, FileInv
<1>11. DOMAIN content' = DOMAIN table'
  BY <1>6, <1>7, <1>9, <1>10
<1>12. \A p \in DOMAIN table' : table'[p] <= NbFilesInProject'
  <2>1. Cardinality(DOMAIN table') \in Nat
    BY <1>10, FS_CardinalityType DEF Numbering
  <2>2. \A p \in DOMAIN table' : table'[p] \in 1 .. Cardinality(DOMAIN table')
    BY <1>10 DEF Numbering
  <2>3. QED
    BY <1>11, <2>1, <2>2 DEF NbFilesInProject
<1>13. \A p : InProject(p)' <=> InProject(p)
  BY <1>1 DEF InProject
<1>14. IsFiniteSet(external') /\ external' \subseteq Path /\ DOMAIN table' \subseteq Path
  BY <1>1, <1>3, <1>4, <1>10, FS_Union DEF IInv, FileInv
<1>15. \A p \in DOMAIN content' : InProject(p)
  BY <1>5, <1>9, <1>10, <1>11 DEF IInv, FileInv
<1>16. \A p \in external' : ~InProject(p)
  BY <1>1, <1>5 DEF IInv, FileInv
<1>17. ASSUME NEW j \in DOMAIN snapshots, j <= i
       PROVE  PathsOf(Source(j)) \subseteq DOMAIN content' \cup external'
  <2>1. CASE j = i
    BY <1>1, <1>4, <1>10, <1>11, <2>1 DEF s
  <2>2. CASE j # i
    <3>1. i \in Nat /\ j \in Nat
      BY DEF IInv, ListInv
    <3>2. Added(j)
      BY <1>1, <1>17, <2>2, <3>1 DEF Added
    <3>3. QED
      BY <1>1, <1>6, <3>2 DEF IInv, FileInv
  <2>3. QED
    BY <2>1, <2>2
<1>18. \A j \in DOMAIN snapshots' : Added(j)' => PathsOf(Source(j))' \subseteq DOMAIN content' \cup external'
  BY <1>1, <1>8, <1>17 DEF Added, Source, PathsOf
<1>19. QED
  BY <1>1, <1>8, <1>10, <1>11, <1>12, <1>13, <1>14, <1>15, <1>16, <1>18 DEF FileInv

\* The files outside of the project get the numbers after those.
LEMMA AddExternalStep ==
  ASSUME IInv, Frame, Progress, AddExternalFiles
  PROVE  FileInv'
<1>1. /\ phase = "table" /\ phase' = "paths" /\ reached = Len(snapshots) /\ table' \in Numbered(table, external)
      /\ UNCHANGED <<disk, inputs, snapshots, home, content, external>>
  BY DEF AddExternalFiles, locals
<1>2. ~Written("table") /\ Written("table")'
  BY <1>1, Ranks, NextRank, Order DEF Written
<1>3. DOMAIN table = DOMAIN content
  BY <1>2 DEF IInv, FileInv
<1>4. /\ DOMAIN table' = DOMAIN content \cup external /\ Numbering(table')
      /\ \A p \in DOMAIN table : table'[p] = table[p]
      /\ \A p \in external \ DOMAIN table : table'[p] > Cardinality(DOMAIN table)
  <2>1. Numbering(table) /\ IsFiniteSet(external) /\ table' \in Numbered(table, external)
    BY <1>1 DEF IInv, FileInv
  <2>2. QED
    BY <1>3, <2>1, NumberedIsNumbering
<1>5. /\ Cardinality(DOMAIN table) \in Nat
      /\ NbFilesInProject' = Cardinality(DOMAIN table) /\ NbFilesInProject = Cardinality(DOMAIN table)
  BY <1>1, <1>3, FS_CardinalityType DEF IInv, FileInv, Numbering, NbFilesInProject
<1>6. ASSUME NEW p \in DOMAIN table'
      PROVE  table'[p] <= NbFilesInProject' <=> p \in DOMAIN content
  <2>1. CASE p \in DOMAIN table
    BY <1>3, <1>4, <1>5, <2>1 DEF IInv, FileInv
  <2>2. CASE p \notin DOMAIN table
    <3>1. table'[p] > Cardinality(DOMAIN table) /\ table'[p] \in Nat
      BY <1>3, <1>4, <2>2, FS_CardinalityType DEF Numbering
    <3>2. QED
      BY <1>3, <1>5, <2>2, <3>1
  <2>3. QED
    BY <2>1, <2>2
<1>7. \A p : InProject(p)' <=> InProject(p)
  BY <1>1 DEF InProject
<1>8. \A j \in DOMAIN snapshots' : PathsOf(Source(j))' \subseteq DOMAIN content' \cup external'
  <2>1. \A j \in DOMAIN snapshots : Added(j)
    BY <1>1 DEF Added, IInv, ListInv
  <2>2. \A j \in DOMAIN snapshots : PathsOf(Source(j)) \subseteq DOMAIN content \cup external
    BY <2>1 DEF IInv, FileInv
  <2>3. QED
    BY <1>1, <2>2 DEF Source, PathsOf
<1>9. QED
  BY <1>1, <1>2, <1>3, <1>4, <1>6, <1>7, <1>8 DEF IInv, FileInv

\* The numbering does not change once the table is complete.
LEMMA FileStep == IInv /\ ~raced' /\ [Next]_vars => FileInv'
<1> SUFFICES ASSUME IInv, ~raced', [Next]_vars
             PROVE  FileInv'
  OBVIOUS
<1>1. Frame /\ Progress /\ phase' # "aborted"
  BY OrderlyStep
<1>2. Written("table")' <=> (Written("table") \/ (phase = "table" /\ phase' # "table"))
  BY <1>1, Order DEF Progress
<1>3. CASE phase = "list"
  <2>1. phase' \in {"list", "table", "thrown"} /\ UNCHANGED <<table, content, external>>
    BY <1>1, <1>3 DEF Frame
  <2>2. DOMAIN table = {} /\ DOMAIN content = {} /\ external = {} /\ ~Written("table")
    BY <1>3, Ranks, NextRank, Order DEF Written, IInv, FileInv
  <2>3. \A j \in DOMAIN snapshots' : ~Added(j)'
    <3>1. ~Written("table")'
      BY <1>2, <1>3, <2>2
    <3>2. phase' = "table" => reached' = 0
      BY <1>3, ReadingActions DEF ListSnapshot, ComputeHome, Grows, Grow, vars
    <3>3. \A j \in DOMAIN snapshots' : j \in Nat /\ j > 0
      BY InvariantHasTypes, ListStep DEF ListInv
    <3>4. QED
      BY <3>1, <3>2, <3>3 DEF Added
  <2>4. QED
    BY <1>2, <1>3, <2>1, <2>2, <2>3 DEF IInv, FileInv, NbFilesInProject
<1>4. CASE phase = "table"
  <2>1. CASE UNCHANGED vars
    <3>1. UNCHANGED <<phase, disk, inputs, snapshots, home, table, content, external, reached>>
      BY <2>1 DEF vars, locals, files
    <3>2. \A p : InProject(p)' <=> InProject(p)
      BY <3>1 DEF InProject
    <3>3. \A j \in DOMAIN snapshots : (Added(j)' <=> Added(j)) /\ PathsOf(Source(j))' = PathsOf(Source(j))
      BY <3>1 DEF Added, Written, PathsOf, Source
    <3>4. QED
      BY <1>2, <3>1, <3>2, <3>3 DEF IInv, FileInv, NbFilesInProject
  <2>2. CASE Grows
    <3>1. PICK p \in DOMAIN disk : \E t \in Versions(p) : Grow(p, t)
      BY <2>2 DEF Grows
    <3>2. PICK t \in Versions(p) : Grow(p, t)
      BY <3>1
    <3>3. UNCHANGED <<phase, inputs, snapshots, home, table, content, external, reached>>
          /\ disk' = [disk EXCEPT ![p] = t] /\ ~HasRead(p)
      BY <3>2 DEF Grow, locals, files
    <3>4. \A q : InProject(q)' <=> InProject(q)
      BY <3>3 DEF InProject
    <3>5. ASSUME NEW j \in DOMAIN snapshots, Added(j)'
          PROVE  Added(j) /\ PathsOf(Source(j))' = PathsOf(Source(j))
      <4>1. Added(j)
        BY <3>3, <3>5 DEF Added, Written
      <4>2. ~Written("table")
        BY <1>4, Ranks, NextRank DEF Written
      <4>3. j \in 1 .. reached
        <5>1. j \in 1 .. Len(snapshots) /\ Len(snapshots) \in Nat
          BY DEF IInv, ListInv
        <5>2. j <= reached
          BY <4>1, <4>2 DEF Added
        <5>3. reached \in Nat
          BY <1>4 DEF IInv, ListInv
        <5>4. QED
          BY <5>1, <5>2, <5>3
      <4>4. snapshots[j] # p
        BY <1>4, <3>3, <4>3 DEF HasRead
      <4>5. disk'[snapshots[j]] = disk[snapshots[j]]
        BY <3>3, <4>4
      <4>6. QED
        BY <3>3, <4>1, <4>5 DEF PathsOf, Source
    <3>6. QED
      BY <1>2, <3>3, <3>4, <3>5 DEF IInv, FileInv, NbFilesInProject
  <2>3. QED
    BY <1>1, <1>4, <2>1, <2>2, AddFilesStep, AddExternalStep, ReadingActions
<1>5. CASE phase \notin {"list", "table"}
  <2>1. UNCHANGED <<disk, inputs, snapshots, home, table, content, external, reached>>
    BY <1>1, <1>5 DEF Frame, locals, files
  <2>2. Written("table")' <=> Written("table")
    BY <1>2, <1>5
  <2>3. \A j \in DOMAIN snapshots : Added(j)' => Added(j)
    <3>1. phase' = "table" => Written("table") \/ phase = "thrown"
      BY <1>5, Order DEF Written, IInv, PhaseInv, IdsInv, Table
    <3>2. phase' # "table"
      BY <1>1, <1>5, <2>2, <3>1, Ranks, NextRank DEF Written, Frame
    <3>3. QED
      BY <2>2, <3>2 DEF Added
  <2>4. \A p : InProject(p)' <=> InProject(p)
    BY <2>1 DEF InProject
  <2>5. phase' \in {"list", "thrown"} => phase \in {"list", "thrown"}
    <3>1. CASE phase = "thrown"
      BY <3>1
    <3>2. CASE phase \in Table
      <4>1. Written("table")'
        BY <1>2, <1>5, <3>2, Order DEF Written
      <4>2. QED
        BY <4>1, Ranks, NextRank, Order DEF Written
    <3>3. QED
      BY <1>5, <3>1, <3>2 DEF IInv, PhaseInv, IdsInv, Table
  <2>6. \A j \in DOMAIN snapshots' : PathsOf(Source(j))' = PathsOf(Source(j))
    BY <2>1 DEF PathsOf, Source
  <2>7. QED
    BY <2>1, <2>2, <2>3, <2>4, <2>5, <2>6 DEF IInv, FileInv, NbFilesInProject
<1>6. QED
  BY <1>3, <1>4, <1>5

\* Nothing of the inputs and of the numbering changes after that.
LEMMA StandStill ==
  ASSUME IInv, ~raced', [Next]_vars, Written("table")
  PROVE  UNCHANGED <<disk, inputs, snapshots, home, table, content, external>>
<1>1. phase \notin {"list", "table", "thrown"}
  BY Ranks, NextRank DEF Written
<1>2. QED
  BY <1>1, OrderlyStep DEF Frame, locals, files

\* The file table of the output is written from the numbering.
LEMMA OutFileStep == IInv /\ ~raced' /\ [Next]_vars => OutFileInv'
<1> SUFFICES ASSUME IInv, ~raced', [Next]_vars, Written("paths")'
             PROVE  /\ DOMAIN outFile' = {table'[p] : p \in DOMAIN table'}
                    /\ \A p \in DOMAIN table' : outFile'[table'[p]].path = p
  BY DEF OutFileInv
<1>1. Frame /\ Progress /\ phase' # "aborted"
  BY OrderlyStep
<1>2. Written("paths") \/ (phase = "paths" /\ phase' # "paths")
  BY <1>1, Order DEF Progress
<1>3. Written("table")
  BY <1>2, Ranks, NextRank, Order DEF Written, IInv, PhaseInv
<1>4. UNCHANGED <<table, content>>
  BY <1>3, StandStill
<1>5. (\A p, q \in DOMAIN table : table[p] = table[q] => p = q) /\ DOMAIN content \subseteq DOMAIN table
  BY DEF IInv, FileInv, Numbering
<1>6. CASE phase = "paths" /\ phase' # "paths"
  <2>1. outFile' = [n \in {table[p] : p \in DOMAIN table} |->
                      [path |-> CHOOSE p \in DOMAIN table : table[p] = n, content |-> FALSE]]
    BY <1>1, <1>6, PhaseActions DEF WritePaths, vars
  <2>2. ASSUME NEW p \in DOMAIN table
        PROVE  outFile'[table[p]].path = p
    BY <1>5, <2>1
  <2>3. QED
    BY <1>4, <2>1, <2>2
<1>7. CASE Written("paths") /\ phase # "contents"
  <2>1. UNCHANGED outFile
    BY <1>1, <1>7, Ranks, NextRank DEF Frame, Written
  <2>2. QED
    BY <1>4, <1>7, <2>1 DEF IInv, OutFileInv
<1>8. CASE phase = "contents"
  <2>1. Written("paths")
    BY <1>2, <1>8
  <2>2. CASE UNCHANGED vars
    BY <1>4, <2>1, <2>2 DEF vars, out, IInv, OutFileInv
  <2>3. CASE WriteContents
    <3>1. PICK found : outFile' = Over([n \in {table[p] : p \in DOMAIN content} |->
                          LET path == CHOOSE p \in DOMAIN content : table[p] = n
                          IN [path |-> path, content |-> content[path] \/ path \in found]], outFile)
      BY <2>3 DEF WriteContents
    <3>2. DOMAIN outFile = {table[p] : p \in DOMAIN table} /\ \A p \in DOMAIN table : outFile[table[p]].path = p
      BY <2>1 DEF IInv, OutFileInv
    <3>3. DOMAIN outFile' = DOMAIN outFile
      BY <1>5, <3>1, <3>2 DEF Over
    <3>4. ASSUME NEW p \in DOMAIN content
          PROVE  outFile'[table[p]].path = p
      <4>1. (CHOOSE q \in DOMAIN content : table[q] = table[p]) = p
        BY <1>5
      <4>2. QED
        BY <3>1, <4>1 DEF Over
    <3>5. ASSUME NEW p \in DOMAIN table, p \notin DOMAIN content
          PROVE  outFile'[table[p]].path = p
      <4>1. table[p] \notin {table[q] : q \in DOMAIN content}
        BY <1>5, <3>5
      <4>2. table[p] \in DOMAIN outFile
        BY <3>2
      <4>3. outFile'[table[p]] = outFile[table[p]]
        BY <3>1, <4>1, <4>2 DEF Over
      <4>4. QED
        BY <3>2, <4>3
    <3>6. QED
      BY <1>4, <3>2, <3>3, <3>4, <3>5
  <2>4. QED
    BY <1>1, <1>8, <2>2, <2>3, PhaseActions
<1>9. QED
  BY <1>2, <1>6, <1>7, <1>8

-----------------------------------------------------------------------------
(* The rows.                                                               *)

\* The remap tables stay right.
LEMMA IdsStep == IInv /\ ~raced' /\ [Next]_vars => IdsInv'
<1> SUFFICES ASSUME IInv, ~raced', [Next]_vars
             PROVE  IdsInv'
  OBVIOUS
<1>1. Frame /\ Progress /\ phase' # "aborted"
  BY OrderlyStep
<1>2. Written("remap")' <=> (Written("remap") \/ (phase = "remap" /\ phase' # "remap"))
  BY <1>1, Order DEF Progress
<1>3. ASSUME Written("table"), Remaps(idtable')
      PROVE  Remaps(idtable)'
  BY <1>3, StandStill DEF Remaps, NumberOf, Source
<1>4. Written("remap") => Written("table") /\ Remaps(idtable)
  BY Ranks, NextRank, Order DEF Written, IInv, IdsInv, PhaseInv
<1>5. CASE ComputeIds
  <2>1. phase = "remap" /\ idtable' = [i \in DOMAIN snapshots |-> RemapTable(Source(i))]
    BY <1>5 DEF ComputeIds
  <2>2. ASSUME NEW i \in DOMAIN snapshots, NEW n \in DOMAIN Source(i).file
        PROVE  n \in DOMAIN RemapTable(Source(i)) /\ RemapTable(Source(i))[n] = NumberOf(Source(i), n)
    <3>1. n \in Nat
      BY SnapshotsComplete DEF IInv, Complete, Consistent
    <3>2. n \in 0 .. n
      BY <3>1
    <3>3. QED
      BY <3>2 DEF RemapTable, NumberOf
  <2>3. Remaps(idtable')
    BY <2>1, <2>2 DEF Remaps
  <2>4. QED
    BY <1>1, <1>3, <2>1, <2>3, RowsPhase DEF IdsInv
<1>6. CASE ~ComputeIds
  <2>1. UNCHANGED idtable /\ (Written("remap")' <=> Written("remap"))
    <3>1. CASE phase = "remap"
      BY <1>1, <1>2, <1>6, <3>1, PhaseActions DEF vars
    <3>2. CASE phase # "remap"
      BY <1>1, <1>2, <3>2 DEF Frame
    <3>3. QED
      BY <3>1, <3>2
  <2>2. QED
    BY <1>1, <1>3, <1>4, <2>1 DEF IdsInv
<1>7. QED
  BY <1>5, <1>6

\* The rows that are collected are those of the files of the project.
LEMMA CollectedRows ==
  ASSUME NEW k \in Kind, NEW r
  PROVE  r \in Collected(k) <=>
           \E i \in DOMAIN snapshots : \E x \in Source(i).rows[k] : InRange(i, x) /\ r = Remapped(k, i, x)
BY DEF Collected

\* Of rows that are the same the one of the first snapshot stays.
LEMMA DeduplicatedRows ==
  ASSUME ListInv, NEW k \in Kind, NEW S, S = Collected(k)
  PROVE  /\ Deduplicated(S) \subseteq S
         /\ \A r \in S : \E q \in Deduplicated(S) : Same(q, r)
         /\ \A q, r \in Deduplicated(S) : Same(q, r) => q = r
<1>1. \A r \in S : r.by \in DOMAIN snapshots /\ r = [file |-> r.file, key |-> r.key, to |-> r.to, by |-> r.by]
  BY CollectedRows DEF Remapped
<1>2. Len(snapshots) \in Nat /\ DOMAIN snapshots = 1 .. Len(snapshots)
  BY DEF ListInv
<1>3. \A q, r \in S : Same(q, r) /\ q.by = r.by => q = r
  BY <1>1 DEF Same
<1>4. CASE Len(snapshots) > 1
  <2>1. ASSUME NEW r \in S
        PROVE  \E q \in Deduplicated(S) : Same(q, r)
    <3> DEFINE B == {q.by : q \in {z \in S : Same(z, r)}}
    <3>1. B \subseteq Nat /\ B # {}
      BY <1>1, <1>2 DEF Same
    <3>2. PICK b \in B : \A c \in B : b <= c
      BY <3>1, LeastExists
    <3>3. PICK q \in S : Same(q, r) /\ q.by = b
      OBVIOUS
    <3>4. \A z \in S : Same(z, q) => q.by <= z.by
      BY <3>2, <3>3 DEF Same
    <3>5. QED
      BY <1>4, <3>3, <3>4 DEF Deduplicated
  <2>2. ASSUME NEW q \in Deduplicated(S), NEW r \in Deduplicated(S), Same(q, r)
        PROVE  q = r
    <3>1. q \in S /\ r \in S /\ Same(r, q) /\ q.by <= r.by /\ r.by <= q.by
      BY <1>4, <2>2 DEF Deduplicated, Same
    <3>2. q.by = r.by
      BY <1>1, <1>2, <3>1
    <3>3. QED
      BY <1>3, <2>2, <3>1, <3>2
  <2>3. QED
    BY <1>4, <2>1, <2>2 DEF Deduplicated
<1>5. CASE ~(Len(snapshots) > 1)
  <2>1. Deduplicated(S) = S
    BY <1>5 DEF Deduplicated
  <2>2. \A q, r \in S : q.by = r.by
    BY <1>1, <1>2, <1>5
  <2>3. QED
    BY <1>3, <2>1, <2>2 DEF Same
<1>6. QED
  BY <1>4, <1>5

\* Of several includes at one line the first stays.
LEMMA InsertedRows ==
  ASSUME NEW k \in Kind, NEW S, k = "include" => \A r \in S : r.to \in Nat
  PROVE  /\ Inserted(k, S) \subseteq S
         /\ \A r \in S : \E q \in Inserted(k, S) : q.file = r.file /\ q.key = r.key /\ (k # "include" => q = r)
<1>1. CASE k = "include"
  <2>1. ASSUME NEW r \in S
        PROVE  \E q \in Inserted(k, S) : q.file = r.file /\ q.key = r.key
    <3> DEFINE T == {q.to : q \in {z \in S : z.file = r.file /\ z.key = r.key}}
    <3>1. T \subseteq Nat /\ T # {}
      BY <1>1
    <3>2. PICK m \in T : \A n \in T : m <= n
      BY <3>1, LeastExists
    <3>3. PICK q \in S : q.file = r.file /\ q.key = r.key /\ q.to = m
      OBVIOUS
    <3>4. \A z \in S : z.file = q.file /\ z.key = q.key => q.to <= z.to
      BY <3>2, <3>3
    <3>5. QED
      BY <1>1, <3>3, <3>4 DEF Inserted
  <2>2. QED
    BY <1>1, <2>1 DEF Inserted
<1>2. CASE k # "include"
  BY <1>2 DEF Inserted
<1>3. QED
  BY <1>1, <1>2

\* What one table of rows becomes: each of its rows stands for one of a
\* snapshot, each row of a file of the project has one, and there are no
\* duplicates.
LEMMA MergedRows ==
  ASSUME IInv, NEW k \in Kind, phase = k, NEW T, T = Inserted(k, Deduplicated(Collected(k)))
  PROVE  /\ \A r \in T : \E i \in DOMAIN snapshots : \E x \in Source(i).rows[k] : Stands(r, k, Source(i), x)
         /\ \A i \in DOMAIN snapshots : \A x \in Source(i).rows[k] :
              Source(i).file[x.file].path \in DOMAIN content =>
                \E r \in T : r.file = NumberOf(Source(i), x.file) /\ r.key = x.key /\ (k # "include" => r.to = x.to)
         /\ \A q, r \in T : Same(q, r) => q = r
<1> DEFINE S == Collected(k)
           D == Deduplicated(S)
<1>1. Remaps(idtable)
  BY RowsPhase DEF IInv, IdsInv
<1>2. ASSUME NEW i \in DOMAIN snapshots, NEW x \in Source(i).rows[k]
      PROVE  /\ x.file \in DOMAIN Source(i).file /\ (k = "include" => x.to \in DOMAIN Source(i).file)
             /\ idtable[i][x.file] = NumberOf(Source(i), x.file)
             /\ k = "include" => idtable[i][x.to] = NumberOf(Source(i), x.to) /\ idtable[i][x.to] \in Nat
             /\ InRange(i, x) <=> Source(i).file[x.file].path \in DOMAIN content
  <2>1. x.file \in DOMAIN Source(i).file /\ (k = "include" => x.to \in DOMAIN Source(i).file)
    BY SnapshotsComplete DEF IInv, Complete, Consistent
  <2>2. idtable[i][x.file] = NumberOf(Source(i), x.file) /\ (k = "include" => idtable[i][x.to] = NumberOf(Source(i), x.to))
    BY <1>1, <2>1 DEF Remaps
  <2>3. \A n \in DOMAIN Source(i).file : Source(i).file[n].path \in DOMAIN table
    BY RowsPhase DEF PathsOf
  <2>4. \A p \in DOMAIN table : table[p] \in Nat /\ (table[p] <= NbFilesInProject <=> p \in DOMAIN content)
    BY FS_CardinalityType DEF IInv, FileInv, Numbering
  <2>5. QED
    BY <2>1, <2>2, <2>3, <2>4 DEF NumberOf, InRange
<1>3. \A r \in S : \E i \in DOMAIN snapshots : \E x \in Source(i).rows[k] : Stands(r, k, Source(i), x)
  <2> TAKE r \in S
  <2>0. PICK i \in DOMAIN snapshots : \E x \in Source(i).rows[k] :
          InRange(i, x) /\ r = Remapped(k, i, x)
    BY CollectedRows
  <2>1. PICK x \in Source(i).rows[k] :
          InRange(i, x) /\ r = Remapped(k, i, x)
    BY <2>0
  <2>2. Stands(r, k, Source(i), x)
    BY <1>2, <2>1 DEF Stands, Remapped
  <2>3. QED
    BY <2>2
<1>4. \A i \in DOMAIN snapshots : \A x \in Source(i).rows[k] :
        Source(i).file[x.file].path \in DOMAIN content =>
          \E r \in S : r.file = NumberOf(Source(i), x.file) /\ r.key = x.key /\ (k # "include" => r.to = x.to)
  <2> TAKE i \in DOMAIN snapshots
  <2> TAKE x \in Source(i).rows[k]
  <2> HAVE Source(i).file[x.file].path \in DOMAIN content
  <2>1. InRange(i, x)
    BY <1>1, <1>2 DEF Remaps
  <2>2. Remapped(k, i, x) \in S
    BY <2>1, CollectedRows
  <2>3. Remapped(k, i, x).file = NumberOf(Source(i), x.file) /\ Remapped(k, i, x).key = x.key
        /\ (k # "include" => Remapped(k, i, x).to = x.to)
    BY <1>2 DEF Remapped
  <2>4. QED
    BY <2>2, <2>3
<1>5. k = "include" => \A r \in S : r.to \in Nat
  <2> SUFFICES ASSUME k = "include", NEW r \in S
               PROVE  r.to \in Nat
    OBVIOUS
  <2>0. PICK i \in DOMAIN snapshots : \E x \in Source(i).rows[k] : r = Remapped(k, i, x)
    BY CollectedRows
  <2>1. PICK x \in Source(i).rows[k] : r = Remapped(k, i, x)
    BY <2>0
  <2>2. QED
    BY <1>2, <2>1 DEF Remapped
<1>6. /\ D \subseteq S
      /\ \A r \in S : \E q \in D : Same(q, r)
      /\ \A q, r \in D : Same(q, r) => q = r
  BY DeduplicatedRows DEF IInv
<1> HIDE DEF S, D
<1>7. k = "include" => \A r \in D : r.to \in Nat
  BY <1>5, <1>6
<1>8. T = Inserted(k, D)
  BY DEF S, D
<1>9. /\ T \subseteq D
      /\ \A r \in D : \E q \in T : q.file = r.file /\ q.key = r.key /\ (k # "include" => q = r)
  BY <1>7, <1>8, InsertedRows
<1>10. \A r \in S : \E q \in T : q.file = r.file /\ q.key = r.key /\ (k # "include" => q.to = r.to)
  BY <1>6, <1>9 DEF Same
<1>11. \A r \in T : \E i \in DOMAIN snapshots : \E x \in Source(i).rows[k] : Stands(r, k, Source(i), x)
  BY <1>3, <1>6, <1>9
<1>12. ASSUME NEW i \in DOMAIN snapshots, NEW x \in Source(i).rows[k], Source(i).file[x.file].path \in DOMAIN content
       PROVE  \E r \in T : r.file = NumberOf(Source(i), x.file) /\ r.key = x.key /\ (k # "include" => r.to = x.to)
  <2>1. PICK r \in S : r.file = NumberOf(Source(i), x.file) /\ r.key = x.key /\ (k # "include" => r.to = x.to)
    BY <1>4, <1>12
  <2>2. QED
    BY <1>10, <2>1
<1>13. \A q, r \in T : Same(q, r) => q = r
  BY <1>6, <1>9
<1>14. QED
  BY <1>11, <1>12, <1>13

\* A table of rows is what it was when it was written.
LEMMA RowsStep == IInv /\ ~raced' /\ [Next]_vars => RowsInv'
<1> SUFFICES ASSUME IInv, ~raced', [Next]_vars
             PROVE  RowsInv'
  OBVIOUS
<1>1. Frame /\ Progress /\ phase' # "aborted"
  BY OrderlyStep
<1>2. ASSUME NEW k \in Kind
      PROVE  /\ \A r \in outRows'[k] :
                  Written(k)' /\ \E i \in DOMAIN snapshots' : \E x \in (Source(i).rows[k])' : Stands(r, k, Source(i), x)'
             /\ Written(k)' => \A i \in DOMAIN snapshots' : \A x \in (Source(i).rows[k])' : Kept(k, Source(i), x)'
             /\ \A q, r \in outRows'[k] : Same(q, r) => q = r
  <2>1. Written(k)' <=> (Written(k) \/ (phase = k /\ phase' # k))
    BY <1>1, Order DEF Progress
  <2>2. CASE phase = k /\ WriteRows(k)
    <3>1. outRows'[k] = Inserted(k, Deduplicated(Collected(k))) /\ phase' # k
      BY <2>2, NextRank, Ranks DEF WriteRows, IInv, RowsInv
    <3>2. UNCHANGED <<disk, snapshots, table, content>>
      BY <2>2, RowsPhase, StandStill
    <3>3. Written(k)'
      BY <2>1, <2>2, <3>1
    <3>4. QED
      BY <2>2, <3>1, <3>2, <3>3, MergedRows DEF Stands, Kept, NumberOf, Source
  <2>3. CASE ~(phase = k /\ WriteRows(k))
    <3>1. outRows'[k] = outRows[k] /\ (Written(k)' <=> Written(k))
      <4>1. CASE phase = k
        BY <1>1, <2>1, <2>3, <4>1, PhaseActions DEF vars, out
      <4>2. CASE phase # k
        BY <1>1, <2>1, <4>2 DEF Frame
      <4>3. QED
        BY <4>1, <4>2
    <3>2. CASE Written(k)
      <4>1. Written("table")
        <5>1. k \in Phase /\ Rank["table"] \in Nat /\ Rank["paths"] \in Nat /\ Rank["remap"] \in Nat
          BY Ranks, NextRank, Order DEF Table
        <5>2. Rank[k] \in Nat /\ Rank[phase] \in Nat
          BY <5>1, Ranks DEF IInv, PhaseInv
        <5>3. QED
          BY <3>2, <5>1, <5>2, Order DEF Written
      <4>2. UNCHANGED <<disk, snapshots, table, content>>
        BY <4>1, StandStill
      <4>3. QED
        BY <3>1, <3>2, <4>2 DEF Stands, Kept, NumberOf, Source, IInv, RowsInv
    <3>3. CASE ~Written(k)
      BY <3>1, <3>3 DEF IInv, RowsInv
    <3>4. QED
      BY <3>2, <3>3
  <2>4. QED
    BY <2>2, <2>3
<1>3. QED
  BY <1>1, <1>2 DEF Frame, RowsInv

-----------------------------------------------------------------------------
(* The symbols and the relations.                                          *)

\* A table that is written comes after that of the files.
LEMMA WrittenAfterFiles ==
  ASSUME IInv, NEW t \in Table, t # "table", Written(t) \/ phase = t
  PROVE  Written("table")
<1>1. "table" \in Table /\ "table" \in Phase /\ t \in Phase /\ phase \in Phase
  BY Order DEF IInv, PhaseInv, Table
<1>2. Rank["table"] \in Nat /\ Rank[t] \in Nat /\ Rank[phase] \in Nat
  BY <1>1, Ranks
<1>3. QED
  BY <1>2, Order DEF Written

\* The table of symbols holds what the snapshots know of each.
LEMMA SymbolStep == IInv /\ ~raced' /\ [Next]_vars => SymbolInv'
<1> SUFFICES ASSUME IInv, ~raced', [Next]_vars, Written("symbol")'
             PROVE  SymbolInv'
  BY DEF SymbolInv
<1>1. Frame /\ Progress /\ phase' # "aborted"
  BY OrderlyStep
<1>2. Written("symbol") \/ (phase = "symbol" /\ phase' # "symbol")
  BY <1>1, Order DEF Progress
<1>3. UNCHANGED <<disk, snapshots>>
  BY <1>2, WrittenAfterFiles, StandStill, Order
<1>4. CASE phase = "symbol" /\ phase' # "symbol"
  <2>1. outSymbol' = [s \in UNION {DOMAIN Source(i).symbol : i \in DOMAIN snapshots} |-> MergedFlags(s)]
    BY <1>1, <1>4, PhaseActions DEF WriteSymbols, vars
  <2>2. \A i \in DOMAIN snapshots : DOMAIN Source(i).symbol \subseteq DOMAIN outSymbol'
    BY <2>1
  <2>3. \A s \in DOMAIN outSymbol' :
          outSymbol'[s] = UNION {Source(i).symbol[s] : i \in {j \in DOMAIN snapshots : s \in DOMAIN Source(j).symbol}}
    BY <2>1 DEF MergedFlags
  <2>4. \A s \in DOMAIN outSymbol' : \A f \in outSymbol'[s] :
          \E i \in DOMAIN snapshots : s \in DOMAIN Source(i).symbol /\ f \in Source(i).symbol[s]
    BY <2>3
  <2>5. \A i \in DOMAIN snapshots : \A s \in DOMAIN Source(i).symbol : Source(i).symbol[s] \subseteq outSymbol'[s]
    BY <2>2, <2>3
  <2>6. QED
    BY <1>3, <2>2, <2>4, <2>5 DEF SymbolInv, Source
<1>5. CASE Written("symbol")
  <2>1. phase # "symbol"
    BY <1>5, Ranks, Order DEF Written, Table
  <2>2. UNCHANGED outSymbol
    BY <1>1, <2>1 DEF Frame
  <2>3. QED
    BY <1>3, <1>5, <2>2 DEF SymbolInv, Source, IInv
<1>6. QED
  BY <1>2, <1>4, <1>5

\* The table baseOf is written once.
LEMMA BaseStep == IInv /\ ~raced' /\ [Next]_vars => BaseInv'
<1> SUFFICES ASSUME IInv, ~raced', [Next]_vars
             PROVE  BaseInv'
  OBVIOUS
<1>1. Frame /\ Progress /\ phase' # "aborted"
  BY OrderlyStep
<1>2. Written("baseOf")' <=> (Written("baseOf") \/ (phase = "baseOf" /\ phase' # "baseOf"))
  BY <1>1, Order DEF Progress
<1>3. BaseInv
  BY DEF IInv
<1>4. Written("baseOf") \/ phase = "baseOf" => UNCHANGED <<disk, snapshots>>
  BY WrittenAfterFiles, StandStill, Order
<1>5. CASE WriteBaseOf
  <2>1. phase = "baseOf" /\ phase' # "baseOf" /\ outBaseOf' = UNION {Source(i).baseOf : i \in DOMAIN snapshots}
    BY <1>5 DEF WriteBaseOf
  <2>2. QED
    BY <1>2, <1>4, <2>1 DEF BaseInv, Source
<1>6. CASE ~WriteBaseOf
  <2>1. UNCHANGED outBaseOf /\ (Written("baseOf")' <=> Written("baseOf"))
    <3>1. CASE phase = "baseOf"
      BY <1>1, <1>2, <1>6, <3>1, PhaseActions DEF vars, out, relations
    <3>2. CASE phase # "baseOf"
      BY <1>1, <1>2, <3>2 DEF Frame
    <3>3. QED
      BY <3>1, <3>2
  <2>2. CASE Written("baseOf")
    BY <1>3, <1>4, <2>1, <2>2 DEF BaseInv, Source
  <2>3. CASE ~Written("baseOf")
    BY <1>3, <2>1, <2>3 DEF BaseInv
  <2>4. QED
    BY <2>2, <2>3
<1>7. QED
  BY <1>5, <1>6

\* There are finitely many snapshots.
LEMMA SnapshotsFinite ==
  ASSUME ListInv
  PROVE  IsFiniteSet(DOMAIN snapshots)
<1>1. DOMAIN snapshots = 1 .. Len(snapshots) /\ Len(snapshots) \in Nat
  BY DEF ListInv
<1>2. QED
  BY <1>1, FS_Interval

\* The bases that a method has in the snapshots are finitely many: one in
\* each.
LEMMA OverrideKept ==
  ASSUME DiskInv, ListInv, NEW all, all = UNION {Source(i).override : i \in DOMAIN snapshots}, NEW p \in all
  PROVE  \E q \in {x \in all : \A y \in all : y[1] = x[1] => y[2] <= x[2]} : q[1] = p[1]
<1> DEFINE mine == {y \in all : y[1] = p[1]}
           T == {y[2] : y \in mine}
<1>1. \A i \in DOMAIN snapshots : \A y \in Source(i).override : y[2] \in Nat
  BY SnapshotsComplete DEF Complete, Consistent
<1>2. T \subseteq Nat /\ T # {}
  BY <1>1
<1>3. IsFiniteSet(T)
  <2> DEFINE I == {i \in DOMAIN snapshots : \E y \in Source(i).override : y[1] = p[1]}
             f == [i \in I |-> (CHOOSE y \in Source(i).override : y[1] = p[1])[2]]
  <2>1. IsFiniteSet(I)
    <3>1. IsFiniteSet(DOMAIN snapshots)
      BY SnapshotsFinite
    <3>2. QED
      BY <3>1, FS_Subset
  <2>2. \A i \in DOMAIN snapshots : \A y, z \in Source(i).override : y[1] = z[1] => y = z
    BY SnapshotsComplete DEF Complete, Consistent
  <2>3. \A i \in I : \A y \in Source(i).override : y[1] = p[1] => f[i] = y[2]
    BY <2>2
  <2>4. \A i \in I : f[i] \in T
    BY <2>3
  <2>5. \A n \in T : \E i \in I : f[i] = n
    BY <2>3
  <2>6. f \in Surjection(I, T)
    BY <2>4, <2>5 DEF Surjection
  <2>7. QED
    BY <2>1, <2>6, FS_Surjection
<1>4. PICK m \in T : \A n \in T : n <= m
  BY <1>2, <1>3, GreatestExists
<1>5. PICK q \in all : q[1] = p[1] /\ q[2] = m
  OBVIOUS
<1>6. \A y \in all : y[1] = q[1] => y[2] <= q[2]
  BY <1>4, <1>5
<1>7. QED
  BY <1>5, <1>6

\* The table override is written once.
LEMMA OverrideStep == IInv /\ ~raced' /\ [Next]_vars => OverrideInv'
<1> SUFFICES ASSUME IInv, ~raced', [Next]_vars
             PROVE  OverrideInv'
  OBVIOUS
<1>1. Frame /\ Progress /\ phase' # "aborted"
  BY OrderlyStep
<1>2. Written("override")' <=> (Written("override") \/ (phase = "override" /\ phase' # "override"))
  BY <1>1, Order DEF Progress
<1>3. OverrideInv
  BY DEF IInv
<1>4. Written("override") \/ phase = "override" => UNCHANGED <<disk, snapshots>>
  BY WrittenAfterFiles, StandStill, Order
<1>5. CASE WriteOverride
  <2> DEFINE all == UNION {Source(i).override : i \in DOMAIN snapshots}
  <2>1. phase = "override" /\ phase' # "override"
        /\ outOverride' = {p \in all : \A q \in all : q[1] = p[1] => q[2] <= p[2]}
    BY <1>5 DEF WriteOverride
  <2>2. Written("override")' /\ UNCHANGED <<disk, snapshots>>
    BY <1>2, <1>4, <2>1
  <2>3. \A p \in all : \E q \in outOverride' : q[1] = p[1]
    BY <2>1, OverrideKept DEF IInv
  <2>4. \A p \in outOverride' : \E i \in DOMAIN snapshots : p \in Source(i).override
    BY <2>1
  <2>5. \A i \in DOMAIN snapshots : \A p \in Source(i).override : \E q \in outOverride' : q[1] = p[1]
    BY <2>3
  <2>6. QED
    BY <2>2, <2>4, <2>5 DEF OverrideInv, Source
<1>6. CASE ~WriteOverride
  <2>1. UNCHANGED outOverride /\ (Written("override")' <=> Written("override"))
    <3>1. CASE phase = "override"
      BY <1>1, <1>2, <1>6, <3>1, PhaseActions DEF vars, out, relations
    <3>2. CASE phase # "override"
      BY <1>1, <1>2, <3>2 DEF Frame
    <3>3. QED
      BY <3>1, <3>2
  <2>2. CASE Written("override")
    BY <1>3, <1>4, <2>1, <2>2 DEF OverrideInv, Source
  <2>3. CASE ~Written("override")
    BY <1>3, <2>1, <2>3 DEF OverrideInv
  <2>4. QED
    BY <2>2, <2>3
<1>7. QED
  BY <1>5, <1>6

-----------------------------------------------------------------------------
(* The theorems.                                                           *)

\* Every step keeps the invariant, unless it is the write of a compiler to what
\* was read.
LEMMA Invariance == IInv /\ ~raced' /\ [Next]_vars => IInv'
<1> SUFFICES ASSUME IInv, ~raced', [Next]_vars
             PROVE  IInv'
  OBVIOUS
<1>1. PhaseInv' /\ DiskInv' /\ ListInv'
  BY InvariantHasTypes, PhaseStep, DiskStep, ListStep
<1>2. FileInv' /\ OutFileInv' /\ IdsInv'
  BY FileStep, OutFileStep, IdsStep
<1>3. RowsInv' /\ SymbolInv' /\ BaseInv' /\ OverrideInv'
  BY RowsStep, SymbolStep, BaseStep, OverrideStep
<1>4. QED
  BY <1>1, <1>2, <1>3 DEF IInv

\* Every variable has its type, and runMerge lists no input twice, whatever the
\* compilers write.
THEOREM TypeCorrect == Spec => []TypeOK
<1>1. Init => TypeInv
  BY InitIInv, InvariantHasTypes
<1>2. TypeInv => TypeOK
  <2> SUFFICES ASSUME TypeInv
               PROVE  TypeOK
    OBVIOUS
  <2>1. phase \in Kind \cup {"list", "thrown", "table", "paths", "contents", "remap", "symbol", "baseOf", "override", "done",
                             "aborted"}
    BY DEF TypeInv, PhaseInv, Phase, Rank, Kind, HasSymbol
  <2>2. QED
    BY <2>1 DEF TypeInv, TypeOK, PhaseInv, DiskInv, ListInv
<1>3. QED
  BY <1>1, <1>2, TypeStep, PTL DEF Spec

\* An input that was written to after it was read remains one.
LEMMA RacedForEver == TypeInv /\ [Next]_vars => (raced => raced')
<1> SUFFICES ASSUME TypeInv, [Next]_vars
             PROVE  raced => raced'
  OBVIOUS
<1>1. Frame
  BY StepFrame DEF TypeInv
<1>2. QED
  BY <1>1 DEF Frame

\* The invariant, as long as no compiler has written to an input whose files
\* had been read.
Undisturbed == ~raced => IInv

\* It holds in every state.
THEOREM InductiveInvariant == Spec => []Undisturbed
<1>1. Init => TypeInv /\ Undisturbed
  BY InitIInv, InvariantHasTypes DEF Undisturbed
<1>2. TypeInv /\ Undisturbed /\ [Next]_vars => TypeInv' /\ Undisturbed'
  <2> SUFFICES ASSUME TypeInv, Undisturbed, [Next]_vars
               PROVE  TypeInv' /\ Undisturbed'
    OBVIOUS
  <2>1. TypeInv' /\ (raced => raced')
    BY TypeStep, RacedForEver
  <2>2. ~raced' => IInv'
    BY <2>1, Invariance DEF Undisturbed
  <2>3. QED
    BY <2>1, <2>2 DEF Undisturbed
<1>3. QED
  BY <1>1, <1>2, PTL DEF Spec

\* The assertion of findIdentification fails, or an idtable is read past its
\* end, only if a compiler wrote to an input between the two readings of its
\* files: whatever the inputs are and however they overlap, and whatever is
\* written to an input before its files are read.
THEOREM LookUpsFailInRacesOnly == Spec => []LookUpsFailOnlyInARace
<1>1. Undisturbed => LookUpsFailOnlyInARace
  BY DEF Undisturbed, IInv, IdsInv, EveryFileIsFound, LookUpsFailOnlyInARace
<1>2. QED
  BY <1>1, InductiveInvariant, PTL

\* A table is written after those of lower rank.
LEMMA WrittenBefore ==
  ASSUME PhaseInv, NEW t \in Table, NEW u \in Table, Rank[u] <= Rank[t], Written(t)
  PROVE  Written(u)
<1>1. Rank[t] \in Nat /\ Rank[u] \in Nat /\ Rank[phase] \in Nat
  BY Ranks DEF PhaseInv, Table
<1>2. QED
  BY <1>1 DEF Written

\* Before the rows of a table come the files and, if these have a symbol, the
\* symbols.
LEMMA BeforeRows ==
  ASSUME PhaseInv, NEW k \in Kind, Written(k)
  PROVE  /\ Written("table") /\ Written("paths")
         /\ k \in HasSymbol => Written("symbol")
<1>1. {"table", "paths", "symbol", k} \subseteq Table
  BY Order
<1>2. \A t \in Table : Rank[t] \in Nat
  BY Ranks DEF Table
<1>3. Rank["table"] <= Rank[k] /\ Rank["paths"] <= Rank[k] /\ (k \in HasSymbol => Rank["symbol"] <= Rank[k])
  BY <1>1, <1>2, Order
<1>4. QED
  BY <1>1, <1>3, WrittenBefore

\* The number of a file of a snapshot is that of its path in the output.
LEMMA NumberIsPath ==
  ASSUME IInv, Written("table"), Written("paths"), NEW i \in DOMAIN snapshots, NEW n \in DOMAIN Source(i).file
  PROVE  /\ Source(i).file[n].path \in DOMAIN table
         /\ NumberOf(Source(i), n) \in DOMAIN outFile
         /\ outFile[NumberOf(Source(i), n)].path = Source(i).file[n].path
<1>1. Source(i).file[n].path \in DOMAIN table
  BY DEF Added, PathsOf, IInv, FileInv
<1>2. QED
  BY <1>1 DEF IInv, OutFileInv, NumberOf

\* At every commit of runMerge the files and the symbols that rows mention are
\* in their tables, though all files were renumbered, unless an input grew
\* while it was read.
THEOREM ReferencesAlwaysResolve == Spec => []ReferentialIntegrity
<1>1. Undisturbed => ReferentialIntegrity
  <2> SUFFICES ASSUME IInv
               PROVE  ReferentialIntegrity
    BY DEF Undisturbed, ReferentialIntegrity
  <2>1. ASSUME NEW k \in Kind, NEW r \in outRows[k]
        PROVE  /\ r.file \in DOMAIN outFile
               /\ k = "include" => r.to \in DOMAIN outFile
               /\ k \in HasSymbol => r.to \in DOMAIN outSymbol
    <3>1. Written(k)
      BY <2>1 DEF IInv, RowsInv
    <3>2. PICK i \in DOMAIN snapshots : \E x \in Source(i).rows[k] : Stands(r, k, Source(i), x)
      BY <2>1 DEF IInv, RowsInv
    <3>3. PICK x \in Source(i).rows[k] : Stands(r, k, Source(i), x)
      BY <3>2
    <3>4. /\ x.file \in DOMAIN Source(i).file
          /\ k = "include" => x.to \in DOMAIN Source(i).file
          /\ k \in HasSymbol => x.to \in DOMAIN Source(i).symbol
      BY SnapshotsComplete DEF IInv, Complete, Consistent
    <3>5. Written("table") /\ Written("paths") /\ (k \in HasSymbol => Written("symbol"))
      BY <3>1, BeforeRows DEF IInv
    <3>6. k \in HasSymbol => k # "include"
      BY DEF HasSymbol
    <3>7. k \in HasSymbol => DOMAIN Source(i).symbol \subseteq DOMAIN outSymbol
      BY <3>5 DEF IInv, SymbolInv
    <3>8. QED
      BY <3>3, <3>4, <3>5, <3>6, <3>7, NumberIsPath DEF Stands
  <2>2. ASSUME NEW p \in outBaseOf \cup outOverride
        PROVE  p[1] \in DOMAIN outSymbol /\ p[2] \in DOMAIN outSymbol
    <3>1. PICK i \in DOMAIN snapshots : p \in Source(i).baseOf \cup Source(i).override
      BY DEF IInv, BaseInv, OverrideInv
    <3>2. p[1] \in DOMAIN Source(i).symbol /\ p[2] \in DOMAIN Source(i).symbol
      BY <3>1, SnapshotsComplete DEF IInv, Complete, Consistent
    <3>3. Written("symbol")
      <4>1. {"symbol", "baseOf", "override"} \subseteq Table
        BY Order
      <4>2. Rank["symbol"] \in Nat /\ Rank["baseOf"] \in Nat /\ Rank["override"] \in Nat
        BY <4>1, Ranks DEF Table
      <4>3. Rank["symbol"] <= Rank["baseOf"] /\ Rank["symbol"] <= Rank["override"]
        BY <4>2, Order
      <4>4. Written("baseOf") \/ Written("override")
        BY DEF IInv, BaseInv, OverrideInv
      <4>5. QED
        BY <4>1, <4>3, <4>4, WrittenBefore DEF IInv
    <3>4. QED
      BY <3>2, <3>3 DEF IInv, SymbolInv
  <2>3. QED
    BY <2>1, <2>2 DEF ReferentialIntegrity
<1>2. QED
  BY <1>1, InductiveInvariant, PTL

-----------------------------------------------------------------------------
(* What the merge has done at the end.                                     *)

\* The paths of files that are in the project.
ProjectPaths == {p \in Path : InProject(p)}

\* At the end every table is written.
LEMMA AllWritten ==
  ASSUME phase = "done"
  PROVE  \A t \in {"table", "paths", "symbol", "baseOf", "override"} \cup Kind : Written(t)
<1>1. \A k \in Kind : k # "done"
  BY DEF Kind, HasSymbol
<1>2. QED
  BY <1>1, Order DEF Written

\* The paths that have contents are those of the project that a snapshot has.
LEMMA ContentIsProject ==
  ASSUME IInv, Written("table"), NEW p \in DOMAIN table
  PROVE  p \in DOMAIN content <=> p \in ProjectPaths
BY DEF IInv, FileInv, ProjectPaths

\* The output as a snapshot.
Output == [file |-> outFile, rows |-> outRows]

\* What the rows say by path is where they are.
LEMMA AllRowsByPath ==
  ASSUME IInv, phase = "done", NEW i \in DOMAIN snapshots, NEW k \in Kind
  PROVE  /\ k # "include" => RowsByPath(k, Source(i), ProjectPaths) \subseteq RowsByPath(k, Output, Path)
         /\ \A e \in RowsByPath(k, Source(i), ProjectPaths) :
              \E o \in RowsByPath(k, Output, Path) : o.path = e.path /\ o.key = e.key
<1>1. Written("table") /\ Written("paths") /\ Written(k)
  BY AllWritten
<1>2. ASSUME NEW e \in RowsByPath(k, Source(i), ProjectPaths)
      PROVE  \E o \in RowsByPath(k, Output, Path) : o.path = e.path /\ o.key = e.key /\ (k # "include" => o = e)
  <2>1. PICK x \in Source(i).rows[k] : Source(i).file[x.file].path \in ProjectPaths /\ e = ByPath(k, Source(i).file, x)
    BY DEF RowsByPath
  <2>2. x.file \in DOMAIN Source(i).file
    BY SnapshotsComplete DEF IInv, Complete, Consistent
  <2> DEFINE path == Source(i).file[x.file].path
  <2>3. path \in DOMAIN content /\ outFile[NumberOf(Source(i), x.file)].path = path
    BY <1>1, <2>1, <2>2, NumberIsPath, ContentIsProject
  <2>4. PICK r \in outRows[k] : r.file = NumberOf(Source(i), x.file) /\ r.key = x.key /\ (k # "include" => r.to = x.to)
    BY <1>1, <2>3 DEF IInv, RowsInv, Kept
  <2>5. outFile[r.file].path = path /\ path \in Path
    BY <2>1, <2>3, <2>4 DEF ProjectPaths
  <2>6. ByPath(k, outFile, r) \in RowsByPath(k, Output, Path)
    BY <2>5 DEF RowsByPath, Output
  <2>7. ByPath(k, outFile, r).path = e.path /\ ByPath(k, outFile, r).key = e.key
        /\ (k # "include" => ByPath(k, outFile, r) = e)
    BY <2>1, <2>4, <2>5 DEF ByPath
  <2>8. QED
    BY <2>6, <2>7
<1>3. QED
  BY <1>2

\* Every snapshot is in the output.
LEMMA OutputHolds ==
  ASSUME IInv, phase = "done", NEW i \in DOMAIN snapshots
  PROVE  Holds(Source(i), ProjectPaths)
<1>1. \A t \in {"table", "paths", "symbol", "baseOf", "override"} : Written(t)
  BY AllWritten
<1>2. \A k \in Kind \ {"include"} : RowsByPath(k, Source(i), ProjectPaths) \subseteq RowsByPath(k, Output, Path)
  BY AllRowsByPath
<1>3. {<<e.path, e.key>> : e \in RowsByPath("include", Source(i), ProjectPaths)}
        \subseteq {<<o.path, o.key>> : o \in RowsByPath("include", Output, Path)}
  <2>1. \A e \in RowsByPath("include", Source(i), ProjectPaths) :
          \E o \in RowsByPath("include", Output, Path) : o.path = e.path /\ o.key = e.key
    BY AllRowsByPath DEF Kind
  <2>2. QED
    BY <2>1
<1>4. PathsOf(Source(i)) \subseteq PathsOf(Output)
  BY <1>1, NumberIsPath DEF PathsOf, Output
<1>5. \A s \in DOMAIN Source(i).symbol : s \in DOMAIN outSymbol /\ Source(i).symbol[s] \subseteq outSymbol[s]
  BY <1>1 DEF IInv, SymbolInv
<1>6. Source(i).baseOf \subseteq outBaseOf /\ \A p \in Source(i).override : \E q \in outOverride : q[1] = p[1]
  BY <1>1 DEF IInv, BaseInv, OverrideInv
<1>7. QED
  BY <1>2, <1>3, <1>4, <1>5, <1>6 DEF Holds, Output

\* What runMerge writes is the union of its inputs, for the files of the
\* project, and each row once.
THEOREM MergeIsAlwaysUnion == Spec => []MergedIsUnion
<1>1. Undisturbed => MergedIsUnion
  <2> SUFFICES ASSUME IInv, phase = "done"
               PROVE  MergedIsUnion
    BY DEF Undisturbed, MergedIsUnion
  <2>1. \A i \in DOMAIN snapshots : Holds(Source(i), ProjectPaths)
    BY OutputHolds
  <2>2. ASSUME NEW k \in Kind, NEW e \in RowsByPath(k, Output, Path)
        PROVE  \E i \in DOMAIN snapshots : e \in RowsByPath(k, Source(i), ProjectPaths)
    <3>1. PICK r \in outRows[k] : e = ByPath(k, outFile, r)
      BY DEF RowsByPath, Output
    <3>2. PICK i \in DOMAIN snapshots : \E x \in Source(i).rows[k] : Stands(r, k, Source(i), x)
      BY DEF IInv, RowsInv
    <3>3. PICK x \in Source(i).rows[k] : Stands(r, k, Source(i), x)
      BY <3>2
    <3>4. x.file \in DOMAIN Source(i).file /\ (k = "include" => x.to \in DOMAIN Source(i).file)
      BY SnapshotsComplete DEF IInv, Complete, Consistent
    <3>5. Written("table") /\ Written("paths")
      BY AllWritten
    <3>6. /\ Source(i).file[x.file].path \in ProjectPaths
          /\ outFile[r.file].path = Source(i).file[x.file].path
          /\ k = "include" => outFile[r.to].path = Source(i).file[x.to].path
      BY <3>3, <3>4, <3>5, NumberIsPath, ContentIsProject DEF Stands
    <3>7. e = ByPath(k, Source(i).file, x)
      BY <3>1, <3>3, <3>6 DEF ByPath, Stands
    <3>8. QED
      BY <3>6, <3>7 DEF RowsByPath
  <2>3. \A k \in Kind : \A q, r \in outRows[k] : Same(q, r) => q = r
    BY DEF IInv, RowsInv
  <2>4. ASSUME NEW s \in DOMAIN outSymbol
        PROVE  outSymbol[s] = UNION {Source(i).symbol[s] : i \in {j \in DOMAIN snapshots : s \in DOMAIN Source(j).symbol}}
    <3>1. Written("symbol")
      BY AllWritten
    <3>2. \A f \in outSymbol[s] : \E i \in DOMAIN snapshots : s \in DOMAIN Source(i).symbol /\ f \in Source(i).symbol[s]
      BY <3>1 DEF IInv, SymbolInv
    <3>3. \A i \in DOMAIN snapshots : s \in DOMAIN Source(i).symbol => Source(i).symbol[s] \subseteq outSymbol[s]
      BY <3>1 DEF IInv, SymbolInv
    <3>4. QED
      BY <3>2, <3>3
  <2>5. \A k \in Kind : RowsByPath(k, Output, Path) \subseteq
          UNION {RowsByPath(k, Source(i), ProjectPaths) : i \in DOMAIN snapshots}
    BY <2>2
  <2>6. QED
    BY <2>1, <2>3, <2>4, <2>5 DEF MergedIsUnion, ProjectPaths, Output
<1>2. QED
  BY <1>1, InductiveInvariant, PTL

\* The callers of runMerge remove inputs only when the output holds what they
\* held.
THEOREM NothingIsRemovedUnmerged == Spec => []NothingRemovedUnmerged
<1>1. Undisturbed => NothingRemovedUnmerged
  <2> SUFFICES ASSUME IInv, removed, NEW n \in DOMAIN inputs, disk[inputs[n]] # NoSnapshot
               PROVE  Holds(disk[inputs[n]], ProjectPaths)
    BY DEF Undisturbed, NothingRemovedUnmerged, ProjectPaths
  <2>1. phase = "done"
    BY DEF IInv, PhaseInv
  <2>2. n \in 1 .. Seen
    BY <2>1 DEF Seen, IInv, DiskInv
  <2>3. PICK i \in DOMAIN snapshots : snapshots[i] = inputs[n]
    BY <2>2 DEF IInv, ListInv
  <2>4. QED
    BY <2>1, <2>3, OutputHolds DEF Source
<1>2. QED
  BY <1>1, InductiveInvariant, PTL

-----------------------------------------------------------------------------
(* What a merge leaves may be merged again.                                *)

\* the output as a snapshot
OutputAsInput ==
  [home |-> home, file |-> outFile, symbol |-> outSymbol, rows |-> outRows, baseOf |-> outBaseOf, override |-> outOverride]

\* Whatever was written yet, ids are those a snapshot may have, and a method
\* has one base.
OutputInv ==
  /\ DOMAIN outFile \subseteq Nat \ {0} /\ IsFiniteSet(DOMAIN outFile)
  /\ DOMAIN outSymbol \subseteq Nat /\ IsFiniteSet(DOMAIN outSymbol)
  /\ \A p, q \in outOverride : p[1] = q[1] => p = q

\* The numbers of files are finitely many, whichever of the files are taken.
LEMMA NumbersAreIds ==
  ASSUME FileInv, NEW S \in SUBSET (DOMAIN table)
  PROVE  {table[p] : p \in S} \subseteq Nat \ {0} /\ IsFiniteSet({table[p] : p \in S})
<1>1. IsFiniteSet(DOMAIN table) /\ \A p \in DOMAIN table : table[p] \in 1 .. Cardinality(DOMAIN table)
  BY DEF FileInv, Numbering
<1>2. Cardinality(DOMAIN table) \in Nat
  BY <1>1, FS_CardinalityType
<1>3. {table[p] : p \in S} \subseteq 1 .. Cardinality(DOMAIN table)
  BY <1>1
<1>4. IsFiniteSet(1 .. Cardinality(DOMAIN table))
  BY <1>2, FS_Interval
<1>5. IsFiniteSet({table[p] : p \in S})
  BY <1>3, <1>4, FS_Subset
<1>6. {table[p] : p \in S} \subseteq Nat \ {0}
  BY <1>2, <1>3
<1>7. QED
  BY <1>5, <1>6

\* Nor have finitely many snapshots more than finitely many symbols.
LEMMA SymbolsAreIds ==
  ASSUME DiskInv, ListInv
  PROVE  LET all == UNION {DOMAIN Source(i).symbol : i \in DOMAIN snapshots}
         IN all \subseteq Nat /\ IsFiniteSet(all)
<1> DEFINE T == {DOMAIN Source(i).symbol : i \in DOMAIN snapshots}
           f == [i \in DOMAIN snapshots |-> DOMAIN Source(i).symbol]
<1>1. \A i \in DOMAIN snapshots : DOMAIN Source(i).symbol \subseteq Nat /\ IsFiniteSet(DOMAIN Source(i).symbol)
  BY SnapshotsComplete DEF Complete, Consistent
<1>2. f \in Surjection(DOMAIN snapshots, T)
  BY DEF Surjection
<1>3. IsFiniteSet(T)
  BY <1>2, SnapshotsFinite, FS_Surjection
<1>4. IsFiniteSet(UNION T)
  BY <1>1, <1>3, FS_UNION
<1>5. QED
  BY <1>1, <1>4

\* Of two pairs of one method neither has a greater base.
LEMMA OneBase ==
  ASSUME DiskInv, ListInv, NEW all, all = UNION {Source(i).override : i \in DOMAIN snapshots},
         NEW p \in all, NEW q \in all, p[1] = q[1], p[2] <= q[2], q[2] <= p[2]
  PROVE  p = q
<1>1. \A i \in DOMAIN snapshots : \A x \in Source(i).override : x = <<x[1], x[2]>> /\ x[2] \in Nat
  BY SnapshotsComplete DEF Complete, Consistent
<1>2. p = <<p[1], p[2]>> /\ q = <<q[1], q[2]>> /\ p[2] \in Nat /\ q[2] \in Nat
  BY <1>1
<1>3. p[2] = q[2]
  BY <1>2
<1>4. QED
  BY <1>2, <1>3

\* The tables of files, symbols and overrides are written as a snapshot has
\* them.
LEMMA OutputStep == IInv /\ OutputInv /\ [Next]_vars => OutputInv'
<1> SUFFICES ASSUME IInv, OutputInv, [Next]_vars
             PROVE  OutputInv'
  OBVIOUS
<1>1. FileInv /\ DiskInv /\ ListInv
  BY DEF IInv
<1>2. CASE WritePaths
  <2>1. DOMAIN outFile' = {table[p] : p \in DOMAIN table} /\ UNCHANGED <<outSymbol, outOverride>>
    BY <1>2 DEF WritePaths, relations
  <2>2. QED
    BY <1>1, <2>1, NumbersAreIds DEF OutputInv
<1>3. CASE WriteContents
  <2>1. DOMAIN outFile' = DOMAIN outFile \cup {table[p] : p \in DOMAIN content} /\ UNCHANGED <<outSymbol, outOverride>>
    BY <1>3 DEF WriteContents, Over, relations
  <2>2. DOMAIN content \in SUBSET (DOMAIN table)
    BY <1>1 DEF FileInv
  <2>3. {table[p] : p \in DOMAIN content} \subseteq Nat \ {0} /\ IsFiniteSet({table[p] : p \in DOMAIN content})
    BY <1>1, <2>2, NumbersAreIds
  <2>4. IsFiniteSet(DOMAIN outFile)
    BY DEF OutputInv
  <2>5. IsFiniteSet(DOMAIN outFile \cup {table[p] : p \in DOMAIN content})
    BY <2>3, <2>4, FS_Union
  <2>6. QED
    BY <2>1, <2>3, <2>5 DEF OutputInv
<1>4. CASE WriteSymbols
  <2>1. DOMAIN outSymbol' = UNION {DOMAIN Source(i).symbol : i \in DOMAIN snapshots} /\ UNCHANGED <<outFile, outOverride>>
    BY <1>4 DEF WriteSymbols, relations
  <2>2. QED
    BY <1>1, <2>1, SymbolsAreIds DEF OutputInv
<1>5. CASE WriteOverride
  <2> DEFINE all == UNION {Source(i).override : i \in DOMAIN snapshots}
  <2>1. /\ outOverride' = {p \in all : \A q \in all : q[1] = p[1] => q[2] <= p[2]}
        /\ UNCHANGED <<outFile, outSymbol>>
    BY <1>5 DEF WriteOverride
  <2>2. ASSUME NEW p \in outOverride', NEW q \in outOverride', p[1] = q[1]
        PROVE  p = q
    <3>1. p \in all /\ q \in all /\ p[2] <= q[2] /\ q[2] <= p[2]
      BY <2>1, <2>2
    <3>2. QED
      BY <1>1, <2>2, <3>1, OneBase
  <2>3. QED
    BY <2>1, <2>2 DEF OutputInv
<1>6. CASE ~(WritePaths \/ WriteContents \/ WriteSymbols \/ WriteOverride)
  <2>1. UNCHANGED <<outFile, outSymbol, outOverride>>
    BY <1>6 DEF Next, vars, out, relations, ListSnapshot, ComputeHome, AddFilesOf, AddExternalFiles, ComputeIds,
       LookUpInVain, WriteRows, WriteBaseOf, RemoveSources, Finished, Grow
  <2>2. QED
    BY <2>1 DEF OutputInv
<1>7. QED
  BY <1>2, <1>3, <1>4, <1>5, <1>6

\* They are as long as no input grows while it is read.
OutputUndisturbed == ~raced => OutputInv

\* Wherever runMerge is stopped, its output can be the input of another merge,
\* as the snapshot that a scan renumbered or that a link left, unless an input
\* grew while it was read: it is such as SnapshotMerge assumes its inputs to be.
THEOREM MergedSnapshotIsConsistent == Spec => [](~raced => Consistent(OutputAsInput))
<1>1. Init => OutputInv
  <2>1. Init => DOMAIN outFile = {} /\ DOMAIN outSymbol = {} /\ outOverride = {}
    BY DEF Init, EmptyFunction
  <2>2. QED
    BY <2>1, FS_EmptySet DEF OutputInv
<1>2. IInv /\ OutputInv /\ [Next]_vars => OutputInv'
  BY OutputStep
<1>3. IInv /\ OutputInv /\ ~raced /\ ReferentialIntegrity => Consistent(OutputAsInput)
  <2> SUFFICES ASSUME IInv, OutputInv, ~raced, ReferentialIntegrity
               PROVE  Consistent(OutputAsInput)
    OBVIOUS
  <2> DEFINE s == OutputAsInput
  <2>1. s.file = outFile /\ s.symbol = outSymbol /\ s.rows = outRows /\ s.baseOf = outBaseOf /\ s.override = outOverride
    BY DEF OutputAsInput
  <2> HIDE DEF s
  <2>2. \A k \in Kind : \A r \in s.rows[k] :
          /\ r.file \in DOMAIN s.file
          /\ k = "include" => r.to \in DOMAIN s.file
          /\ k \in HasSymbol => r.to \in DOMAIN s.symbol
    BY <2>1 DEF ReferentialIntegrity
  <2>3. s.baseOf \cup s.override \subseteq (DOMAIN s.symbol) \X (DOMAIN s.symbol)
    <3>1. \A i \in DOMAIN snapshots : \A p \in Source(i).baseOf \cup Source(i).override : p = <<p[1], p[2]>>
      BY SnapshotsComplete DEF IInv, Complete, Consistent
    <3>2. \A p \in outBaseOf \cup outOverride : p = <<p[1], p[2]>>
      BY <3>1 DEF IInv, BaseInv, OverrideInv
    <3>3. QED
      BY <2>1, <3>2 DEF ReferentialIntegrity
  <2>4. /\ DOMAIN s.file \subseteq Nat \ {0} /\ IsFiniteSet(DOMAIN s.file)
        /\ DOMAIN s.symbol \subseteq Nat /\ IsFiniteSet(DOMAIN s.symbol)
        /\ \A p, q \in s.override : p[1] = q[1] => p = q
    BY <2>1 DEF OutputInv
  <2>5. Consistent(s)
    BY <2>2, <2>3, <2>4, Zenon DEF Consistent
  <2>6. QED
    BY <2>5 DEF s
<1>4. Init => OutputUndisturbed
  BY <1>1 DEF OutputUndisturbed
<1>5. TypeInv /\ Undisturbed /\ OutputUndisturbed /\ [Next]_vars => OutputUndisturbed'
  BY <1>2, RacedForEver DEF Undisturbed, OutputUndisturbed
<1>6. Undisturbed /\ OutputUndisturbed /\ ReferentialIntegrity => (~raced => Consistent(OutputAsInput))
  BY <1>3 DEF Undisturbed, OutputUndisturbed
<1>7. Spec => []TypeInv
  BY InitIInv, InvariantHasTypes, TypeStep, PTL DEF Spec
<1>8. QED
  BY <1>4, <1>5, <1>6, <1>7, InductiveInvariant, ReferencesAlwaysResolve, PTL DEF Spec
=============================================================================
