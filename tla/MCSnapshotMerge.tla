-------------------------- MODULE MCSnapshotMerge --------------------------
(***************************************************************************)
(* Small instances of SnapshotMerge: the files a and b are below the home  *)
(* H, only b is below G, and x is below neither; a snapshot has two of     *)
(* them, with the ids 2 and 3 or 3 and 1, so that the ids of one snapshot  *)
(* mean other files in another and leave gaps.  A snapshot may be at any   *)
(* stage of its compilation, which goes on while the merge runs.           *)
(***************************************************************************)
EXTENDS SnapshotMerge, TLC

CONSTANTS p, q   \* input paths

MCBelow == "H" :> {"a", "b"} @@ "G" :> {"b"}

NoRows == [k \in Kind |-> {}]
Row(k, file, key, to) == [k |-> k, file |-> file, key |-> key, to |-> to]
RowsOf(S) == [k \in Kind |-> {[file |-> x.file, key |-> x.key, to |-> x.to] : x \in {y \in S : y.k = k}}]

\* a scan of two files, the first includes the second, that found v at one
\* place of each
Scan(h, m, n, f, g, v, t) ==
  LET mine(path) == path \in MCBelow["H"]
      of(id, path) == IF mine(path)
                      THEN {Row("symbolReference", id, 1, v), Row("symbolDeclaration", id, 1, v),
                            Row("diagnostic", id, 1, NoSymbol), Row("refarg", id, 1, NoSymbol)}
                      ELSE {}
      inc == IF mine(f) THEN {Row("include", m, 1, n)} ELSE {}
  IN [home |-> h,
      file |-> m :> [path |-> f, content |-> t] @@ n :> [path |-> g, content |-> ~t],
      rows |-> RowsOf(of(m, f) \cup of(n, g) \cup inc),
      symbol |-> 1 :> {v} @@ v :> {v} @@ 4 :> {v},
      baseOf |-> {<<1, v>>}, override |-> {<<4, v>>}]

\* what is left of a compilation that was killed, before and after the home
\* property was written
Empty(h) == [home |-> h, file |-> EmptyFunction, rows |-> NoRows, symbol |-> EmptyFunction, baseOf |-> {}, override |-> {}]

\* and after the first transaction of its feed
Begun(h, m, f) == [Empty(h) EXCEPT !.file = m :> [path |-> f, content |-> TRUE]]

Scans(homes, values) ==
  {Scan(h, z[1][1], z[1][2], z[2][1], z[2][2], v, v = 2) : h \in homes, v \in values,
     z \in {<<2, 3>>, <<3, 1>>} \X {<<"a", "b">>, <<"a", "x">>, <<"b", "x">>, <<"x", "b">>}}

MCDisks ==
  {p :> s @@ q :> t : s \in Scans({"H", "G"}, {2}),
                      t \in Scans({"H"}, {2, 3}) \cup {NoSnapshot, Empty(NoHome), Empty("H"), Begun("H", 3, "a")}}
MCInputs == {<<p>>, <<p, q>>, <<q, p, q>>}
MCHomes == {NoHome, "G"}

\* one compilation that is still running
RunningDisks == {p :> s : s \in {Empty("H"), Scan("H", 2, 3, "a", "x", 2, TRUE)}}
OneInput == {<<p>>}
HomeIsH == {"H"}
=============================================================================
