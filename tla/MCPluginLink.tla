---------------------------- MODULE MCPluginLink ----------------------------
(***************************************************************************)
(* A small instance of PluginLink: two compilations of files with the same *)
(* name, in the same directory, in one below the other, or with the second *)
(* one's snapshot in the directory of the environment variable, where no   *)
(* link finds it.                                                          *)
(***************************************************************************)
EXTENDS PluginLink

CONSTANTS j1, j2

Build == <<"build">>
Sub == <<"build", "sub">>
Out == <<"out">>
Default(cwd) == [file |-> "a.cpp", outputDir |-> Unset, env |-> Unset, cwd |-> cwd]

MCSettings ==
  {[j \in Job |-> IF j = j1 THEN Default(Build) ELSE s] :
     s \in {Default(Build), Default(Sub), [Default(Build) EXCEPT !.env = Out]}}

\* below the current directory; in the directory of the environment variable
\* and then below the current one; in two given directories
MCLink ==
  {[inputs |-> <<>>, env |-> Unset, cwd |-> Build, keep |-> TRUE],
   [inputs |-> <<>>, env |-> Out, cwd |-> Build, keep |-> FALSE],
   [inputs |-> <<Sub, Append(Build, Folder)>>, env |-> Out, cwd |-> Out, keep |-> FALSE]}
MCStanding == {Build, Sub, Out}
=============================================================================
