---------------------------- MODULE Aggregation -----------------------------
(***************************************************************************)
(* What a scan does with its translation units, whatever the number of     *)
(* threads: each one ends with an index or with an error (or with both,    *)
(* when the tool invocation fails after its index was produced), indexes   *)
(* are aggregated one at a time into the snapshot, and the scan closes     *)
(* once every translation unit has its outcome.                            *)
(*                                                                         *)
(* The specification does not say that everything indexed is aggregated    *)
(* when the scan closes.  ParsingThreads implements it and does not        *)
(* implement that.                                                         *)
(***************************************************************************)
CONSTANT Task

VARIABLES
  indexed,     \* tasks for which an index was produced
  failed,      \* tasks for which an error was produced
  aggregated,  \* tasks whose index is in the snapshot
  closed       \* nothing will be aggregated any more

vars == <<indexed, failed, aggregated, closed>>

Init ==
  /\ indexed = {}
  /\ failed = {}
  /\ aggregated = {}
  /\ closed = FALSE

Index(t) ==
  /\ ~closed
  /\ t \notin indexed \cup failed
  /\ indexed' = indexed \cup {t}
  /\ UNCHANGED <<failed, aggregated, closed>>

Fail(t) ==
  /\ ~closed
  /\ t \notin failed
  /\ failed' = failed \cup {t}
  /\ UNCHANGED <<indexed, aggregated, closed>>

Aggregate(t) ==
  /\ ~closed
  /\ t \in indexed \ aggregated
  /\ aggregated' = aggregated \cup {t}
  /\ UNCHANGED <<indexed, failed, closed>>

Close ==
  /\ ~closed
  /\ indexed \cup failed = Task
  /\ closed' = TRUE
  /\ UNCHANGED <<indexed, failed, aggregated>>

Next == (\E t \in Task : Index(t) \/ Fail(t) \/ Aggregate(t)) \/ Close

Spec == Init /\ [][Next]_vars

\* a first outcome for t
Decide(t) == t \notin indexed /\ (Index(t) \/ Fail(t))

FairSpec ==
  /\ Spec
  /\ WF_vars(Close)
  /\ \A t \in Task : WF_vars(Decide(t))
=============================================================================
