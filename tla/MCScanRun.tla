----------------------------- MODULE MCScanRun -----------------------------
(***************************************************************************)
(* A small instance of ScanRun.  The database has a precompiled header and *)
(* a module, which the filters exclude, each after a unit that needs it, a *)
(* unit that appears twice, a file that does not exist and a command the   *)
(* driver cannot translate; the inputs are a directory with a directory in *)
(* it, a path where there is nothing and a file.                           *)
(***************************************************************************)
EXTENDS ScanRun

Cc(f, e, h, t) == [file |-> f, emits |-> e, header |-> h, translates |-> t]

MCDatabase == <<Cc("a.cpp", "none", "p.pch", TRUE), Cc("p.h", "pch", "p.pch", TRUE),
                Cc("b.cpp", "none", "m.pcm", TRUE), Cc("m.cpp", "pcm", "m.pcm", TRUE),
                Cc("s.asm", "none", NoHeader, FALSE), Cc("gone.cpp", "none", NoHeader, TRUE),
                Cc("b.cpp", "none", NoHeader, TRUE), Cc("c.cpp", "none", NoHeader, TRUE)>>
MCChildren == "dir" :> {"a.cpp", "notes.txt", "sub"} @@ "sub" :> {"b.cpp"}
MCPresent == {"a.cpp", "b.cpp", "c.cpp", "p.h", "m.cpp", "s.asm", "notes.txt", "main.cxx"}
MCSources == {"a.cpp", "b.cpp", "c.cpp", "m.cpp", "gone.cpp"}
MCAccepted == {"a.cpp", "b.cpp", "p.h", "gone.cpp", "main.cxx"}

\* every combination of what decides the course of a run, and lines in which
\* a word is not what it looks like
MCLines ==
  {<<"run">> \o output \o input \o overwrite \o remap \o threads :
     output \in {<<"-o", "out.db">>},
     input \in {<<"--compile-commands", "cc.json">>, <<"--compile-commands", "broken.json">>,
                <<"-i", "dir", "-i", "nothing", "-i", "main.cxx">>},
     overwrite \in {<<>>, <<"-y">>},
     remap \in {<<>>, <<"--remap-file-ids">>},
     threads \in {<<>>, <<"-j2">>}}
  \cup {<<"run", "-o", "-y", "-o", "out.db", "--compile-commands", "cc.json">>,
        <<"run", "--project-name", "out", "--compile-commands", "cc.json", "--threads", "0", "--", "-y">>,
        <<"run", "-o", "out.db", "-y", "-h">>,
        <<"run", "-o", "out.db", "-y", "--threads", "many">>}

Nothing == [variable \in Variables |-> {}]
MCBroken == {"broken.json"}
MCNumber == "2" :> 2 @@ "0" :> 0
MCJobs == "-j2" :> "2" @@ "-j99999999999" :> "99999999999"
MCPlain == {"2", "a"}

UpTo(n, S) == UNION {[1 .. k -> S] : k \in 0 .. n}
RunWords == {"-o", "-y", "--", "-h", "a", "-i", "--threads", "2", "-j2", "-j99999999999", "--project-name",
             "--index-local-symbols"}
MergeWords == {"-o", "--link", "--", "-h", "a", "--home", "-y", "--keep-source-files"}
MCTried == {<<"run">> \o words : words \in UpTo(4, RunWords)} \cup {<<"merge">> \o words : words \in UpTo(4, MergeWords)}
MCEnvironments == {Nothing, [Nothing EXCEPT !.name = {"n"}, !.home = {"h"}],
                   [Nothing EXCEPT !.local = {"1"}, !.version = {"v"}], [Nothing EXCEPT !.local = {"0"}]}
=============================================================================
