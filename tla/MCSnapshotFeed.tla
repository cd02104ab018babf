-------------------------- MODULE MCSnapshotFeed ----------------------------
(***************************************************************************)
(* SnapshotFeed on three translation unit indexes that overlap.  Files: 1  *)
(* and 2 are main files, 3 is a header of the project, 4 one outside of    *)
(* it.  Symbols: 9 and 10, which do not fit in an int of 3 bits.           *)
(***************************************************************************)
EXTENDS SnapshotFeed

Inc(f, line, to) == [file |-> f, key |-> line, symbol |-> NoSymbol, to |-> to]
Ref(f, pos, s, parent) == [file |-> f, key |-> pos, symbol |-> s, to |-> parent]
Diag(f, text) == [file |-> f, key |-> text, symbol |-> NoSymbol, to |-> NoSymbol]
Decl(f, pos, s) == [file |-> f, key |-> pos, symbol |-> s, to |-> NoSymbol]

Rows(includes, references, diagnostics, declarations) ==
  [k \in Kind |-> CASE k = "include" -> includes
                    [] k = "reference" -> references
                    [] k = "diagnostic" -> diagnostics
                    [] k = "declaration" -> declarations]

\* owns the header
First == [
  files |-> {1, 3},
  rows |-> Rows({Inc(1, 1, 3), Inc(3, 1, 4)},
                {Ref(1, 7, 9, 10), Ref(3, 5, 9, NoSymbol)},
                {Diag(3, "unused")},
                {Decl(3, 5, 9)}),
  symbols |-> [s \in {9, 10} |-> {"inline"}],
  baseOfs |-> {<<9, 10>>},
  overrides |-> {<<10, 9>>},
  refargs |-> {[file |-> 1, key |-> 7]}]

\* only includes the header, on a line where another file is included too
Second == [
  files |-> {2},
  rows |-> Rows({Inc(2, 1, 3), Inc(2, 1, 4)},
                {Ref(2, 6, 9, NoSymbol)},
                {},
                {Decl(2, 6, 9)}),
  symbols |-> [s \in {9} |-> {"from project"}],
  baseOfs |-> {},
  overrides |-> {},
  refargs |-> {[file |-> 2, key |-> 6]}]

\* was taken for the owner of the header
Third == [
  files |-> {2, 3},
  rows |-> Rows({Inc(3, 1, 1), Inc(3, 2, 4)},
                {Ref(3, 5, 9, 10), Ref(3, 8, 9, 10)},
                {Diag(3, "unused"), Diag(2, "shadow")},
                {Decl(3, 5, 9), Decl(3, 8, 10)}),
  symbols |-> [s \in {9, 10} |-> {}],
  baseOfs |-> {<<9, 10>>, <<10, 9>>},
  overrides |-> {<<10, 10>>},
  refargs |-> {[file |-> 3, key |-> 5]}]

MCIndexes == {First, Second, Third}
=============================================================================
