---------------------------- MODULE MCIndexOnce -----------------------------
(***************************************************************************)
(* IndexOnce on a project file that a translation unit may include twice   *)
(* and a file outside of the project.                                      *)
(***************************************************************************)
EXTENDS IndexOnce

MCFileOf == [i \in Inclusion |-> IF i = "system header" THEN 2 ELSE 1]
=============================================================================
