----------------------------- MODULE CommandLine -----------------------------
(***************************************************************************)
(* What the program makes of its arguments and of the environment: main,   *)
(* ScannerInvocation::parseCommandLine and parseEnv (scannerinvocation.    *)
(* cpp, env.cpp).  An argument is a string that is only compared; an       *)
(* option that was not given is {}, one that was is {its value}.           *)
(***************************************************************************)
EXTENDS Integers, Sequences, FiniteSets, SequencesExt

CONSTANTS
  Number,  \* what std::stoi returns, for the arguments it accepts
  Jobs,    \* what follows -j, for the arguments of the form -j<number>
  Plain,   \* the arguments that do not begin with a dash
  Tried,   \* the command lines, and
  Environments \* the environments that the reading of words is tried with

Commands == {"run", "merge"}

HelpFlags == {"-h", "--help"}
VersionFlags == {"-v", "--version"}

\* the flags followed by an argument, and the option it is for
Valued ==
  LET common == {"-o", "--output", "--home", "--project-name", "--project-version"}
  IN [run |-> common \cup {"--compile-commands", "--input", "-i", "--root", "--filter", "-f", "--filter_tu", "-f:tu",
                           "--threads", "-j"},
      merge |-> common]
ValueOf(flag) ==
  CASE flag \in {"-o", "--output"} -> "output"
    [] flag = "--home" -> "home"
    [] flag = "--project-name" -> "name"
    [] flag = "--project-version" -> "version"
    [] flag = "--compile-commands" -> "database"
    [] flag \in {"--input", "-i"} -> "inputs"
    [] flag = "--root" -> "root"
    [] flag \in {"--filter", "-f"} -> "filters"
    [] flag \in {"--filter_tu", "-f:tu"} -> "tuFilters"
    [] flag \in {"--threads", "-j"} -> "threads"

\* the flags that stand alone
Alone ==
  [run |-> {"--index-external-files", "--index-local-symbols", "--ignore-file-content", "--remap-file-ids",
            "--overwrite", "-y"},
   merge |-> {"--capture-missing-file-content", "--link", "--keep-source-files"}]
SwitchOf(flag) ==
  CASE flag = "--index-external-files" -> "external"
    [] flag = "--index-local-symbols" -> "local"
    [] flag = "--ignore-file-content" -> "contentless"
    [] flag = "--remap-file-ids" -> "remap"
    [] flag \in {"--overwrite", "-y"} -> "overwrite"
    [] flag = "--capture-missing-file-content" -> "capture"
    [] flag = "--link" -> "link"
    [] flag = "--keep-source-files" -> "keep"

Takes(c, word) == word \in Valued[c]
Switches(c, word) == word \in Alone[c]

Lists == [run |-> {"inputs", "filters", "tuFilters", "arguments"}, merge |-> {"inputs"}]
Singles == [run |-> {"output", "home", "name", "version", "database", "root", "threads"},
            merge |-> {"output", "home", "name", "version"}]
Switched(c) == {SwitchOf(a) : a \in Alone[c]}

\* RunOptions and MergeOptions as they are declared
Named(c) == Singles[c] \cup Switched(c) \cup Lists[c]
Defaults(c) == [o \in Named(c) |->
                  CASE o \in Singles[c] -> {} [] o \in Lists[c] -> <<>> [] OTHER -> FALSE]

\* what stands for itself or for a number is no other flag
ASSUME WordsAssumption ==
  /\ Plain \cap DOMAIN Jobs = {}
  /\ \A c \in Commands : (Plain \cup DOMAIN Jobs) \cap (Valued[c] \cup Alone[c] \cup HelpFlags \cup {"--"}) = {}

-----------------------------------------------------------------------------
(* The loop over the arguments, one at a time.  parsed.flag is the flag    *)
(* that waits for its argument; after "--" everything is for the compiler. *)

NothingRead(c) == [flag |-> {}, verbatim |-> FALSE, help |-> FALSE, failed |-> FALSE, options |-> Defaults(c)]

Fail(parsed) == [parsed EXCEPT !.failed = TRUE]
Put(parsed, option, value) == [parsed EXCEPT !.options[option] = value]
Add(parsed, list, a) == Put(parsed, list, Append(parsed.options[list], a))

Store(parsed, option, a) ==
  CASE option = "threads" /\ a \notin DOMAIN Number -> Fail(parsed)
    [] option = "threads" /\ a \in DOMAIN Number -> Put(parsed, "threads", {Number[a]})
    [] option \in Lists.run -> Add(parsed, option, a)
    [] OTHER -> Put(parsed, option, {a})

ReadFlag(c, parsed, a) ==
  CASE Takes(c, a) -> [parsed EXCEPT !.flag = {a}]
    [] a \in HelpFlags -> [parsed EXCEPT !.help = TRUE]
    [] Switches(c, a) -> Put(parsed, SwitchOf(a), TRUE)
    [] c = "run" /\ a \in DOMAIN Jobs -> Store(parsed, "threads", Jobs[a])
    [] c = "run" /\ a = "--" -> [parsed EXCEPT !.verbatim = TRUE]
    [] c = "merge" /\ a \in Plain -> Add(parsed, "inputs", a)
    [] OTHER -> Fail(parsed)

Read(c, parsed, a) ==
  IF parsed.failed THEN parsed
  ELSE IF parsed.verbatim THEN Add(parsed, "arguments", a)
  ELSE IF parsed.flag = {} THEN ReadFlag(c, parsed, a)
  ELSE LET flag == CHOOSE f \in parsed.flag : TRUE
       IN Store([parsed EXCEPT !.flag = {}], ValueOf(flag), a)

\* after how many words what was read
Reading(c, words) ==
  LET read[n \in 0 .. Len(words)] == IF n = 0 THEN NothingRead(c) ELSE Read(c, read[n - 1], words[n])
  IN read
ParseArguments(c, words) == Reading(c, words)[Len(words)]

\* a flag whose argument is missing throws
ParseCommandLine(args) ==
  LET parsed == ParseArguments(args[1], Tail(args))
  IN CASE args[1] \in Commands /\ ~parsed.failed /\ parsed.flag = {} ->
            [does |-> IF parsed.help \/ Len(args) = 1 THEN "help" ELSE args[1], options |-> parsed.options]
       [] OTHER -> [does |-> "fail"]

-----------------------------------------------------------------------------
(* The environment: a function on the names of the variables, {} for those *)
(* that do not exist                                                       *)

Variables == {"home", "name", "version", "local"}

\* isEnvTrue
Differs(val) == \E no \in {"0", "OFF", "false", "False"} : val # no
IsEnvTrue(variable) == \E val \in variable : Differs(val)

\* mutant of ParseEnv: the environment counts before the arguments
ParseEnvFirst(options, env) ==
  [o \in DOMAIN options |->
     CASE o \in {"home", "name", "version"} /\ env[o] # {} -> env[o]
       [] o = "local" -> options.local \/ IsEnvTrue(env.local)
       [] OTHER -> options[o]]

ParseEnv(options, env) ==
  [o \in DOMAIN options |->
     CASE o \in {"home", "name", "version"} /\ options[o] = {} -> env[o]
       [] o = "local" -> options.local \/ IsEnvTrue(env.local)
       [] OTHER -> options[o]]

ASSUME TriedAssumption ==
  /\ \A args \in Tried : args \in Seq(STRING) /\ args # <<>> /\ args[1] \in Commands
  /\ \A env \in Environments : env \in [Variables -> SUBSET STRING]

\* main: what the program does, and with which options
Main(args, env) ==
  CASE args = <<>> -> [does |-> "help"]
    [] args # <<>> /\ args[1] \in HelpFlags -> [does |-> "help"]
    [] args # <<>> /\ args[1] \in VersionFlags -> [does |-> "version"]
    [] OTHER -> LET parsed == ParseCommandLine(args)
                IN IF parsed.does \in Commands THEN [parsed EXCEPT !.options = ParseEnv(@, env)] ELSE parsed

\* computeOutputPath
OutputPath(options) ==
  CASE options.output # {} -> options.output
    [] options.output = {} /\ options.name # {} -> {name \o ".db" : name \in options.name}
    [] OTHER -> {"snapshot.db"}

-----------------------------------------------------------------------------
(* Properties, stated by the positions of the words after the command *)

\* the word at p is the argument of the one before: the flags that stand right
\* before it and could take one are odd in number
IsArgument(c, words, p) ==
  \E n \in 1 .. p - 1 : /\ n % 2 = 1
                        /\ \A q \in p - n .. p - 1 : Takes(c, words[q])
                        /\ n + 1 = p \/ ~Takes(c, words[p - n - 1])

Separators(c, words) == {p \in DOMAIN words : c = "run" /\ words[p] = "--" /\ ~IsArgument(c, words, p)}
Flags(c, words) == {p \in DOMAIN words : ~IsArgument(c, words, p) /\ \A q \in Separators(c, words) : p < q}

HasMeaning(c, words, p) ==
  LET word == words[p]
  IN \/ /\ Takes(c, word) /\ p < Len(words)
        /\ ValueOf(word) = "threads" => words[p + 1] \in DOMAIN Number
     \/ word \in HelpFlags \cup Alone[c]
     \/ c = "run" /\ word \in DOMAIN Jobs /\ Jobs[word] \in DOMAIN Number
     \/ c = "merge" /\ word \in Plain
IsUnderstood(c, words) == \A p \in Flags(c, words) : HasMeaning(c, words, p)

\* the arguments that are given for an option, in their order
InOrder(S) ==
  LET at(i) == {p \in S : Cardinality({q \in S : q <= p}) = i}
  IN [i \in 1 .. Cardinality(S) |-> CHOOSE p \in at(i) : TRUE]
Gives(c, words, option, p) ==
  \/ Takes(c, words[p]) /\ ValueOf(words[p]) = option
  \/ c = "run" /\ option = "threads" /\ words[p] \in DOMAIN Jobs
  \/ c = "merge" /\ option = "inputs" /\ words[p] \in Plain
Argument(c, words, p) ==
  CASE Takes(c, words[p]) -> words[p + 1]
    [] words[p] \in DOMAIN Jobs -> Jobs[words[p]]
    [] OTHER -> words[p]
Arguments(c, words, S) == [i \in DOMAIN InOrder(S) |-> Argument(c, words, InOrder(S)[i])]
Given(c, words, option) == Arguments(c, words, {p \in Flags(c, words) : Gives(c, words, option, p)})

IsSwitchedOn(c, words, option) ==
  \E p \in Flags(c, words) : Switches(c, words[p]) /\ SwitchOf(words[p]) = option

\* the value the words give an option: of several the last
WordsAfter(c, words) ==
  LET after == Separators(c, words)
  IN IF after = {} THEN <<>> ELSE SubSeq(words, Min(after) + 1, Len(words))
Chosen(o, given) == IF given = <<>> THEN {} ELSE {IF o = "threads" THEN Number[Last(given)] ELSE Last(given)}
GivenValue(c, words, o) ==
  CASE o \in Singles[c] -> Chosen(o, Given(c, words, o))
    [] o \in Lists[c] \ {"arguments"} -> Given(c, words, o)
    [] o = "arguments" -> WordsAfter(c, words)
    [] OTHER -> IsSwitchedOn(c, words, o)

\* The options of a command are those its flags give, and those no flag gives
\* the variable of the environment if there is one; what stands where a flag
\* has its argument, or after "--", is no flag, whatever it looks like.
\* A word that means nothing, a missing argument or a number that is none is
\* refused, and a variable is never that of another option.  That of the local
\* symbols puts them on whatever its value is, for no value equals all four
\* that isEnvTrue compares it with.
OptionsAreThoseGiven(args, env) ==
  LET c == args[1]
      words == Tail(args)
      result == Main(args, env)
      given(o) == GivenValue(c, words, o)
  IN IF IsUnderstood(c, words)
     THEN /\ result.does = IF words = <<>> \/ \E p \in Flags(c, words) : words[p] \in HelpFlags THEN "help" ELSE c
          /\ result.does = c =>
               \A o \in Named(c) :
                 result.options[o] = CASE o \in {"home", "name", "version"} /\ given(o) = {} -> env[o]
                                       [] o = "local" -> given(o) \/ env.local # {}
                                       [] OTHER -> given(o)
     ELSE result.does = "fail"
=============================================================================
