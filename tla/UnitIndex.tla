----------------------------- MODULE UnitIndex ------------------------------
(***************************************************************************)
(* TranslationUnitIndex (translationunitindex.h): what the Indexer hands   *)
(* over to SnapshotCreator::feed, with the promise that both rely on.      *)
(*                                                                         *)
(* An index is a record with at least the fields                           *)
(*   files      indexedFiles                                               *)
(*   rows       the includes, references, diagnostics and declarations, as *)
(*              sets of records with fields file, key (the line or         *)
(*              position and what else is compared), symbol (NoSymbol in   *)
(*              the tables that have none) and to (the included file, the  *)
(*              referencing symbol)                                        *)
(*   symbols    a function on the ids of the symbols                       *)
(*   baseOfs, overrides  pairs of ids                                      *)
(*   refargs    records with fields file and key                           *)
(***************************************************************************)

NoSymbol == 0
Kind == {"include", "reference", "diagnostic", "declaration"}

EmptyFunction == [x \in {} |-> {}]

\* f overridden by g where g is defined
Over(g, f) == [x \in DOMAIN f \cup DOMAIN g |-> IF x \in DOMAIN g THEN g[x] ELSE f[x]]

\* What the Indexer guarantees of an index and feed takes for granted: rows
\* are in indexed files and mention symbols of the index.
WellFormed(x) ==
  /\ \A k \in Kind : \A r \in x.rows[k] : r.file \in x.files
  /\ \A k \in {"reference", "declaration"} : \A r \in x.rows[k] : r.symbol \in DOMAIN x.symbols
  /\ \A r \in x.rows["reference"] : r.to \in DOMAIN x.symbols \cup {NoSymbol}
  /\ x.baseOfs \cup x.overrides \subseteq (DOMAIN x.symbols) \X (DOMAIN x.symbols)
  /\ \A r \in x.refargs : r.file \in x.files
=============================================================================
