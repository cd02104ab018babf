------------------------------ MODULE Snapshot ------------------------------
(***************************************************************************)
(* A snapshot as a merge reads it (snapshotreader.cpp), with the promise   *)
(* that SnapshotMerge relies on and SnapshotFeed keeps.                    *)
(*                                                                         *)
(* A snapshot is a record with the fields                                  *)
(*   home       the property project.home                                  *)
(*   file       for each id the path and whether there is a content        *)
(*   symbol     the flags of each id                                       *)
(*   rows       the tables of Kind, as sets of records with fields file,   *)
(*              key (the position and what else is compared) and to (the   *)
(*              included file of an include, the symbol of those that have *)
(*              one)                                                       *)
(*   baseOf, override  pairs of ids                                        *)
(***************************************************************************)
EXTENDS Naturals, FiniteSets

HasSymbol == {"symbolReference", "symbolDeclaration"}
Kind == HasSymbol \cup {"include", "refarg", "diagnostic"}

\* What SnapshotCreator leaves of a snapshot, wherever it was stopped
\* (EverySnapshotIsConsistent of SnapshotFeedProofs).
Consistent(s) ==
  /\ DOMAIN s.file \subseteq Nat \ {0} /\ IsFiniteSet(DOMAIN s.file)
  /\ DOMAIN s.symbol \subseteq Nat /\ IsFiniteSet(DOMAIN s.symbol)
  /\ \A k \in Kind : \A r \in s.rows[k] :
       /\ r.file \in DOMAIN s.file
       /\ k = "include" => r.to \in DOMAIN s.file
       /\ k \in HasSymbol => r.to \in DOMAIN s.symbol
  /\ s.baseOf \cup s.override \subseteq (DOMAIN s.symbol) \X (DOMAIN s.symbol)
  /\ \A p, q \in s.override : p[1] = q[1] => p = q
=============================================================================
