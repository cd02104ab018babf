--------------------------- MODULE ScanRunProofs ---------------------------
(***************************************************************************)
(* The inductive invariant of ScanRun and the theorems that follow from    *)
(* it, for every database, every tree of inputs, every set of options and  *)
(* any number of runs.                                                     *)
(***************************************************************************)
EXTENDS ScanRun, SequenceTheorems, FiniteSetTheorems, WellFoundedInduction, TLAPS

-----------------------------------------------------------------------------
(* The words of a command line.  The parser's state after each word is     *)
(* told by the positions of the words alone, as OptionsAreThoseGiven tells *)
(* the result: which words are flags, which are the arguments of a flag,   *)
(* which give an option its value.  A word that was understood leaves the  *)
(* state its position tells, one that was not leaves failed set.           *)

\* Every set of naturals that is not empty has a least element.
LEMMA LeastExists ==
  ASSUME NEW T, T \subseteq Nat, T # {}
  PROVE  \E x \in T : \A y \in T : x <= y
<1> DEFINE R == StrictSubsetOrdering(Nat)
           W == {0 .. n : n \in T}
<1>1. IsWellFoundedOn(R, FiniteSubsetsOf(Nat))
  BY FS_StrictSubsetOrderingWellFounded
<1>2. W \subseteq FiniteSubsetsOf(Nat) /\ W # {}
  <2>1. \A n \in T : IsFiniteSet(0 .. n) /\ 0 .. n \subseteq Nat
    BY FS_Interval
  <2>2. QED
    BY <2>1 DEF FiniteSubsetsOf
<1> HIDE DEF W, R
<1>3. PICK w \in W : \A v \in W : ~ (<<v, w>> \in R)
  BY <1>1, <1>2, WFMin
<1>4. PICK x \in T : w = 0 .. x
  BY DEF W
<1>5. ASSUME NEW y \in T
      PROVE  x <= y
  <2> SUFFICES ASSUME y < x
               PROVE  FALSE
    OBVIOUS
  <2>1. 0 .. y \in W
    BY DEF W
  <2>2. 0 .. y \subseteq 0 .. x /\ x \in 0 .. x /\ x \notin 0 .. y /\ 0 .. x \subseteq Nat
    OBVIOUS
  <2>3. <<0 .. y, w>> \in R
    BY <1>4, <2>2 DEF R, StrictSubsetOrdering
  <2>4. QED
    BY <1>3, <2>1, <2>3
<1>6. QED
  BY <1>5

\* The flags of a command that take an argument are for its options, the
\* number of threads is one of run, and no word is a flag of two kinds.
LEMMA FlagTables ==
  ASSUME NEW c \in Commands
  PROVE  /\ \A f \in Valued[c] : ValueOf(f) \in Singles[c] \cup (Lists[c] \ {"arguments"})
         /\ \A f \in Valued[c] : ValueOf(f) = "threads" => c = "run"
         /\ Valued[c] \cap (HelpFlags \cup Alone[c] \cup {"--"}) = {}
         /\ Alone[c] \cap (HelpFlags \cup {"--"}) = {}
         /\ "--" \notin HelpFlags
<1>1. CASE c = "run"
  BY <1>1 DEF Valued, ValueOf, Singles, Lists, HelpFlags, Alone
<1>2. CASE c = "merge"
  BY <1>2 DEF Valued, ValueOf, Singles, Lists, HelpFlags, Alone
<1>3. QED
  BY <1>1, <1>2 DEF Commands

\* An option holds one value, or a list, or is on or off.
LEMMA OptionKinds ==
  ASSUME NEW c \in Commands
  PROVE  /\ Singles[c] \cap Lists[c] = {}
         /\ Singles[c] \cap Switched(c) = {}
         /\ Lists[c] \cap Switched(c) = {}
         /\ "inputs" \in Lists[c] /\ (c = "run" => "arguments" \in Lists[c] /\ "threads" \in Singles[c])
         /\ Lists[c] \subseteq Lists.run
         /\ Singles[c] \cap Lists.run = {}
         /\ c = "merge" => Lists[c] = {"inputs"} /\ "threads" \notin Named(c)
         /\ "arguments" \in Lists[c] => c = "run"
         /\ "threads" \notin Lists.run /\ "arguments" \in Lists.run
         /\ "threads" \notin Switched(c) /\ "arguments" \notin Switched(c) \cup Singles[c]
         /\ {"home", "name", "version"} \subseteq Singles[c]
         /\ "local" \in Named(c) => "local" \in Switched(c)
         /\ \A f \in Alone[c] : SwitchOf(f) \in Switched(c)
<1>0. ASSUME NEW f \in Alone[c]
      PROVE  SwitchOf(f) \in {"external", "local", "contentless", "remap", "overwrite", "capture", "link", "keep"}
  <2>1. CASE c = "run"
    BY <1>0, <2>1 DEF Alone, SwitchOf
  <2>2. CASE c = "merge"
    BY <1>0, <2>2 DEF Alone, SwitchOf
  <2>3. QED
    BY <2>1, <2>2 DEF Commands
<1>1. Switched(c) \subseteq {"external", "local", "contentless", "remap", "overwrite", "capture", "link", "keep"}
  BY <1>0 DEF Switched
<1>2. CASE c = "run"
  <2>1. "local" \in Switched(c)
    <3>1. "--index-local-symbols" \in Alone[c] /\ SwitchOf("--index-local-symbols") = "local"
      BY <1>2 DEF Alone, SwitchOf
    <3>2. QED
      BY <3>1, Zenon DEF Switched
  <2>2. QED
    BY <1>1, <1>2, <2>1 DEF Singles, Lists, Named, Switched
<1>3. CASE c = "merge"
  BY <1>1, <1>3 DEF Singles, Lists, Named, Switched
<1>4. QED
  BY <1>2, <1>3 DEF Commands

-----------------------------------------------------------------------------
\* The equation that Reading is defined by.
IsReading(c, words, n, f) ==
  f = [i \in 0 .. n |-> IF i = 0 THEN NothingRead(c) ELSE Read(c, f[i - 1], words[i])]

\* It has a solution, however many words there are.
LEMMA ReadingExists ==
  ASSUME NEW c, NEW words, NEW n \in Nat
  PROVE  \E f : IsReading(c, words, n, f)
<1> DEFINE T == {m \in Nat : ~\E f : IsReading(c, words, m, f)}
<1> SUFFICES ASSUME T # {}
             PROVE  FALSE
  OBVIOUS
<1>1. PICK m \in T : \A k \in T : m <= k
  BY LeastExists
<1>2. CASE m = 0
  <2> DEFINE f == [i \in 0 .. 0 |-> NothingRead(c)]
  <2>1. IsReading(c, words, 0, f)
    BY DEF IsReading
  <2>2. QED
    BY <1>1, <1>2, <2>1
<1>3. CASE m # 0
  <2>1. m - 1 \in Nat /\ m - 1 \notin T
    BY <1>1, <1>3
  <2>2. PICK g : IsReading(c, words, m - 1, g)
    BY <2>1
  <2> DEFINE f == [i \in 0 .. m |-> IF i = m THEN Read(c, g[m - 1], words[m]) ELSE g[i]]
  <2>3. \A i \in 0 .. m : f[i] = IF i = 0 THEN NothingRead(c) ELSE Read(c, f[i - 1], words[i])
    <3> SUFFICES ASSUME NEW i \in 0 .. m
                 PROVE  f[i] = IF i = 0 THEN NothingRead(c) ELSE Read(c, f[i - 1], words[i])
      OBVIOUS
    <3>1. CASE i = m
      BY <1>1, <1>3, <3>1
    <3>2. CASE i # m
      <4>1. i \in 0 .. m - 1 /\ (i # 0 => i - 1 \in 0 .. m - 1 /\ i - 1 # m)
        BY <1>1, <3>2
      <4>2. g[i] = IF i = 0 THEN NothingRead(c) ELSE Read(c, g[i - 1], words[i])
        BY <2>2, <4>1 DEF IsReading
      <4>3. f[i] = g[i] /\ (i # 0 => f[i - 1] = g[i - 1])
        BY <1>1, <3>2, <4>1
      <4>4. QED
        BY <4>2, <4>3
    <3>3. QED
      BY <3>1, <3>2
  <2>4. f = [i \in 0 .. m |-> f[i]]
    OBVIOUS
  <2> HIDE DEF f
  <2>5. IsReading(c, words, m, f)
    BY <2>3, <2>4 DEF IsReading
  <2>6. QED
    BY <1>1, <2>5
<1>4. QED
  BY <1>2, <1>3

\* What was read after each word.
LEMMA ReadingEquation ==
  ASSUME NEW c, NEW words, Len(words) \in Nat
  PROVE  /\ Reading(c, words)[0] = NothingRead(c)
         /\ \A i \in 1 .. Len(words) : Reading(c, words)[i] = Read(c, Reading(c, words)[i - 1], words[i])
<1> DEFINE g == CHOOSE f : IsReading(c, words, Len(words), f)
<1>1. Reading(c, words) = g
  BY DEF Reading, IsReading
<1>2. IsReading(c, words, Len(words), g)
  BY ReadingExists
<1> HIDE DEF g
<1>3. QED
  BY <1>1, <1>2 DEF IsReading

-----------------------------------------------------------------------------
\* The first word is nobody's argument ...
LEMMA FirstIsNoArgument ==
  ASSUME NEW c, NEW words
  PROVE  ~IsArgument(c, words, 1)
  BY DEF IsArgument

\* ... and a word is one only if the word before could take it and is not an
\* argument itself;
LEMMA ArgumentHasFlag ==
  ASSUME NEW c, NEW words, NEW p \in Nat \ {0}, IsArgument(c, words, p + 1)
  PROVE  Takes(c, words[p]) /\ ~IsArgument(c, words, p)
<1>1. PICK n \in 1 .. p : /\ n % 2 = 1
                          /\ \A q \in p + 1 - n .. p : Takes(c, words[q])
                          /\ n + 1 = p + 1 \/ ~Takes(c, words[p - n])
  <2>1. p + 1 - 1 = p /\ \A n \in 1 .. p : p + 1 - n - 1 = p - n
    OBVIOUS
  <2>2. QED
    BY <2>1 DEF IsArgument
<1>2. Takes(c, words[p])
  BY <1>1
<1>3. ASSUME IsArgument(c, words, p)
      PROVE  FALSE
  <2>1. PICK m \in 1 .. p - 1 : /\ m % 2 = 1
                                /\ \A q \in p - m .. p - 1 : Takes(c, words[q])
                                /\ m + 1 = p \/ ~Takes(c, words[p - m - 1])
    BY <1>3 DEF IsArgument
  <2>2. CASE n - 1 < m
    <3>1. p - n \in p - m .. p - 1
      BY <1>1, <2>1, <2>2
    <3>2. Takes(c, words[p - n]) /\ n # p
      BY <2>1, <3>1
    <3>3. QED
      BY <1>1, <3>2
  <2>3. CASE n - 1 > m
    <3>1. p - m - 1 \in p + 1 - n .. p /\ m + 1 # p
      BY <1>1, <2>1, <2>3
    <3>2. QED
      BY <1>1, <2>1, <3>1
  <2>4. CASE n - 1 = m
    <3>1. (n - 1) % 2 = 1 /\ n % 2 = 1
      BY <1>1, <2>1, <2>4
    <3>2. QED
      BY <3>1
  <2>5. QED
    BY <1>1, <2>1, <2>2, <2>3, <2>4
<1>4. QED
  BY <1>2, <1>3

\* ... and if so, it is.
LEMMA FlagHasArgument ==
  ASSUME NEW c, NEW words, NEW p \in Nat \ {0}, Takes(c, words[p]), ~IsArgument(c, words, p)
  PROVE  IsArgument(c, words, p + 1)
<1> DEFINE T == {k \in Nat \ {0} : Takes(c, words[k]) /\ ~IsArgument(c, words, k) /\ ~IsArgument(c, words, k + 1)}
<1> SUFFICES ASSUME T # {}
             PROVE  FALSE
  OBVIOUS
<1>1. PICK k \in T : \A j \in T : k <= j
  BY LeastExists
<1>2. /\ k \in Nat \ {0} /\ Takes(c, words[k])
      /\ ~IsArgument(c, words, k) /\ ~IsArgument(c, words, k + 1)
  BY <1>1
<1> HIDE DEF T
<1>3. CASE k = 1 \/ ~Takes(c, words[k - 1])
  <2>1. /\ 1 \in 1 .. (k + 1) - 1 /\ 1 % 2 = 1
        /\ \A q \in (k + 1) - 1 .. (k + 1) - 1 : Takes(c, words[q])
        /\ 1 + 1 = k + 1 \/ ~Takes(c, words[(k + 1) - 1 - 1])
    <3>1. (k + 1) - 1 = k /\ (k + 1) - 1 - 1 = k - 1
      BY <1>2
    <3>2. QED
      BY <1>2, <1>3, <3>1
  <2>2. QED
    BY <1>2, <2>1 DEF IsArgument
<1>4. CASE k # 1 /\ Takes(c, words[k - 1])
  <2>1. k - 1 \in Nat \ {0} /\ k - 1 \notin T /\ k - 1 + 1 = k
    BY <1>1, <1>2, <1>4
  <2>2. IsArgument(c, words, k - 1)
    BY <1>2, <1>4, <2>1 DEF T
  <2>3. PICK n \in 1 .. k - 2 : /\ n % 2 = 1
                                /\ \A q \in k - 1 - n .. k - 2 : Takes(c, words[q])
                                /\ n + 1 = k - 1 \/ ~Takes(c, words[k - 2 - n])
    <3>1. k - 1 - 1 = k - 2 /\ \A n \in 1 .. k - 2 : k - 1 - n - 1 = k - 2 - n
      BY <1>2
    <3>2. QED
      BY <2>2, <3>1 DEF IsArgument
  <2> DEFINE w == n + 2
  <2>4. w % 2 = 1 /\ w \in 1 .. (k + 1) - 1
    BY <2>3, <1>2
  <2>5. ASSUME NEW q \in (k + 1) - w .. (k + 1) - 1
        PROVE  Takes(c, words[q])
    <3>1. q \in k - 1 - n .. k - 2 \/ q = k - 1 \/ q = k
      BY <1>2, <2>3
    <3>2. QED
      BY <1>2, <1>4, <2>3, <3>1
  <2>6. w + 1 = k + 1 \/ ~Takes(c, words[(k + 1) - w - 1])
    <3>1. (k + 1) - w - 1 = k - 2 - n
      BY <1>2, <2>3
    <3>2. QED
      BY <1>2, <2>3, <3>1
  <2> HIDE DEF w
  <2>7. \E x \in 1 .. (k + 1) - 1 :
          /\ x % 2 = 1
          /\ \A q \in (k + 1) - x .. (k + 1) - 1 : Takes(c, words[q])
          /\ x + 1 = k + 1 \/ ~Takes(c, words[(k + 1) - x - 1])
    BY <2>4, <2>5, <2>6, Zenon
  <2>8. IsArgument(c, words, k + 1)
    BY <2>7 DEF IsArgument
  <2>9. QED
    BY <1>2, <2>8
<1>5. QED
  BY <1>3, <1>4

-----------------------------------------------------------------------------
\* A function on an interval is a sequence, and what is appended follows it.
LEMMA AppendTo ==
  ASSUME NEW n \in Nat, NEW f, f = [i \in 1 .. n |-> f[i]],
         NEW g, g = [i \in 1 .. n + 1 |-> g[i]], \A i \in 1 .. n : g[i] = f[i]
  PROVE  g = Append(f, g[n + 1]) /\ Len(f) = n /\ Len(g) = n + 1
<1> DEFINE X == {g[i] : i \in 1 .. n + 1}
           a == g[n + 1]
           h == Append(f, a)
<1>1. f \in [1 .. n -> X] /\ g \in [1 .. n + 1 -> X] /\ a \in X
  <2>1. \A i \in 1 .. n + 1 : g[i] \in X
    OBVIOUS
  <2>2. \A i \in 1 .. n : f[i] \in X
    <3>1. \A i \in 1 .. n : i \in 1 .. n + 1 /\ f[i] = g[i]
      OBVIOUS
    <3>2. QED
      BY <2>1, <3>1, Zenon
  <2> HIDE DEF X
  <2>3. QED
    BY <2>1, <2>2
<1> HIDE DEF X
<1>2. f \in Seq(X) /\ Len(f) = n /\ g \in Seq(X) /\ Len(g) = n + 1
  BY <1>1, SeqDef, LenProperties
<1>3. h \in Seq(X) /\ Len(h) = n + 1 /\ h[n + 1] = a /\ \A i \in 1 .. n : h[i] = f[i]
  BY <1>1, <1>2, AppendProperties
<1>4. \A i \in 1 .. n + 1 : g[i] = h[i]
  BY <1>3
<1> HIDE DEF h
<1>5. g = h
  BY <1>2, <1>3, <1>4, SeqEqual
<1>6. QED
  BY <1>2, <1>5 DEF h

\* What is in order stays so when something greater is added.
LEMMA InOrderAppend ==
  ASSUME NEW S, S \subseteq Nat, IsFiniteSet(S), NEW m \in Nat, \A x \in S : x < m
  PROVE  LET n == Cardinality(S)
             M == S \cup {m}
         IN /\ n \in Nat
            /\ DOMAIN InOrder(S) = 1 .. n
            /\ DOMAIN InOrder(M) = 1 .. n + 1
            /\ \A i \in 1 .. n : InOrder(M)[i] = InOrder(S)[i]
            /\ InOrder(M)[n + 1] = m
<1> DEFINE n == Cardinality(S)
           upTo(X, p) == {q \in X : q <= p}
           at(X, i) == {p \in X : Cardinality(upTo(X, p)) = i}
           M == S \cup {m}
<1>1. n \in Nat /\ IsFiniteSet(M) /\ Cardinality(M) = n + 1
  <2>1. m \notin S
    OBVIOUS
  <2>2. QED
    BY <2>1, FS_CardinalityType, FS_AddElement
<1>2. ASSUME NEW p \in S
      PROVE  upTo(M, p) = upTo(S, p) /\ Cardinality(upTo(S, p)) \in 0 .. n
  <2>1. upTo(M, p) = upTo(S, p)
    OBVIOUS
  <2>2. Cardinality(upTo(S, p)) \in 0 .. n
    <3>1. upTo(S, p) \in SUBSET S
      OBVIOUS
    <3>2. IsFiniteSet(upTo(S, p)) /\ Cardinality(upTo(S, p)) <= n
      BY <3>1, FS_Subset
    <3>3. QED
      BY <1>1, <3>2, FS_CardinalityType
  <2>3. QED
    BY <2>1, <2>2
<1>3. upTo(M, m) = M
  <2>1. \A x \in M : x <= m
    OBVIOUS
  <2> HIDE DEF M
  <2>2. QED
    BY <2>1
<1> HIDE DEF upTo, n
<1>4. ASSUME NEW i \in 1 .. n
      PROVE  at(M, i) = at(S, i)
  <2>1. \A p \in M : p \in at(M, i) <=> p \in at(S, i)
    <3>1. m \notin at(M, i) /\ m \notin S
      BY <1>1, <1>3
    <3>2. \A p \in S : Cardinality(upTo(M, p)) = Cardinality(upTo(S, p))
      BY <1>2
    <3>3. QED
      BY <3>1, <3>2
  <2>2. at(M, i) \subseteq M /\ at(S, i) \subseteq M
    OBVIOUS
  <2> HIDE DEF at
  <2>3. QED
    BY <2>1, <2>2
<1>5. at(M, n + 1) = {m}
  <2>1. \A p \in S : Cardinality(upTo(M, p)) # n + 1
    BY <1>1, <1>2
  <2>2. Cardinality(upTo(M, m)) = n + 1
    BY <1>1, <1>3
  <2>3. QED
    BY <2>1, <2>2
<1>6. InOrder(S) = [i \in 1 .. n |-> CHOOSE p \in at(S, i) : TRUE]
  BY DEF InOrder, n, upTo
<1>7. InOrder(M) = [i \in 1 .. n + 1 |-> CHOOSE p \in at(M, i) : TRUE]
  BY <1>1 DEF InOrder, upTo
<1> HIDE DEF at, M
<1>8. n \in Nat
  BY <1>1
<1>9. InOrder(M)[n + 1] = m
  BY <1>5, <1>7, <1>8
<1>10. \A i \in 1 .. n : InOrder(M)[i] = InOrder(S)[i]
  BY <1>4, <1>6, <1>7, <1>8
<1>11. QED
  BY <1>6, <1>7, <1>8, <1>9, <1>10 DEF n, M

-----------------------------------------------------------------------------
(* What was read after the first p words, told by their positions.         *)

\* Whether the words are for the compiler by now.
IsAfterSeparator(c, words, p) == \E q \in Separators(c, words) : q <= p

\* The flags so far; the last word may be one whose argument comes next.
FlagsTo(c, words, p) == {q \in Flags(c, words) : q <= p}
Waits(c, words, p) == p \in Flags(c, words) /\ Takes(c, words[p])

\* Every flag so far means something, or waits; those that have their argument.
UnderstoodTo(c, words, p) == \A q \in FlagsTo(c, words, p) : HasMeaning(c, words, q) \/ (q = p /\ Takes(c, words[q]))
GivesTo(c, words, o, p) == {q \in FlagsTo(c, words, p) : Gives(c, words, o, q) /\ (Takes(c, words[q]) => q < p)}

\* The value of an option so far: as GivenValue, of the words so far.
WordsTo(c, words, p) ==
  IF IsAfterSeparator(c, words, p) THEN SubSeq(words, Min(Separators(c, words)) + 1, p) ELSE <<>>
IsOnTo(c, words, o, p) == \E q \in FlagsTo(c, words, p) : Switches(c, words[q]) /\ SwitchOf(words[q]) = o
ValueTo(c, words, o, p) ==
  CASE o \in Singles[c] -> Chosen(o, Arguments(c, words, GivesTo(c, words, o, p)))
    [] o \in Lists[c] \ {"arguments"} -> Arguments(c, words, GivesTo(c, words, o, p))
    [] o = "arguments" -> WordsTo(c, words, p)
    [] OTHER -> IsOnTo(c, words, o, p)
OptionsTo(c, words, p) == [o \in Named(c) |-> ValueTo(c, words, o, p)]

\* The parser's state as these tell it.
Record(flag, verbatim, help, failed, values) ==
  [flag |-> flag, verbatim |-> verbatim, help |-> help, failed |-> failed, options |-> values]
Yes == TRUE
No == FALSE
Parsed(flag, verbatim, help, values) == Record(flag, verbatim, help, No, values)
FlagTo(c, words, p) == IF Waits(c, words, p) THEN {words[p]} ELSE {}
IsHelpTo(c, words, p) == \E q \in FlagsTo(c, words, p) : words[q] \in HelpFlags
\* (the values of the two formulas)
VerbatimTo(c, words, p) == IsAfterSeparator(c, words, p)
HelpTo(c, words, p) == IsHelpTo(c, words, p)
ParsedTo(c, words, p) ==
  Parsed(FlagTo(c, words, p), VerbatimTo(c, words, p), HelpTo(c, words, p), OptionsTo(c, words, p))

\* A record, changed in one place.
WithFlag(parsed, flag) == [parsed EXCEPT !.flag = flag]
WithVerbatim(parsed, verbatim) == [parsed EXCEPT !.verbatim = verbatim]
WithHelp(parsed, help) == [parsed EXCEPT !.help = help]
WithFailed(parsed, failed) == [parsed EXCEPT !.failed = failed]

LEMMA RecordChanged ==
  \A f, v, h, a, o, k, x :
         /\ WithFlag(Record(f, v, h, a, o), x) = Record(x, v, h, a, o)
         /\ WithVerbatim(Record(f, v, h, a, o), x) = Record(f, x, h, a, o)
         /\ WithHelp(Record(f, v, h, a, o), x) = Record(f, v, x, a, o)
         /\ WithFailed(Record(f, v, h, a, o), x).failed = x
         /\ Put(Record(f, v, h, a, o), k, x) = Record(f, v, h, a, [o EXCEPT ![k] = x])
  BY DEF Record, Put, WithFlag, WithVerbatim, WithHelp, WithFailed

\* The steps of the parser, by what they change.
LEMMA ParsedChanged ==
  \A f, v, h, o, k, x :
         /\ [Parsed(f, v, h, o) EXCEPT !.flag = x] = Parsed(x, v, h, o)
         /\ [Parsed(f, v, h, o) EXCEPT !.verbatim = Yes] = Parsed(f, Yes, h, o)
         /\ [Parsed(f, v, h, o) EXCEPT !.help = Yes] = Parsed(f, v, Yes, o)
         /\ Fail(Parsed(f, v, h, o)).failed = Yes
         /\ Put(Parsed(f, v, h, o), k, x) = Parsed(f, v, h, [o EXCEPT ![k] = x])
<1> SUFFICES ASSUME NEW f, NEW v, NEW h, NEW o, NEW k, NEW x
             PROVE  /\ [Parsed(f, v, h, o) EXCEPT !.flag = x] = Parsed(x, v, h, o)
                    /\ [Parsed(f, v, h, o) EXCEPT !.verbatim = Yes] = Parsed(f, Yes, h, o)
                    /\ [Parsed(f, v, h, o) EXCEPT !.help = Yes] = Parsed(f, v, Yes, o)
                    /\ Fail(Parsed(f, v, h, o)).failed = Yes
                    /\ Put(Parsed(f, v, h, o), k, x) = Parsed(f, v, h, [o EXCEPT ![k] = x])
  BY Zenon
<1>1. WithFlag(Parsed(f, v, h, o), x) = Parsed(x, v, h, o)
  BY RecordChanged, SMT DEF Parsed
<1>2. WithVerbatim(Parsed(f, v, h, o), Yes) = Parsed(f, Yes, h, o)
  BY RecordChanged, SMT DEF Parsed
<1>3. WithHelp(Parsed(f, v, h, o), Yes) = Parsed(f, v, Yes, o)
  BY RecordChanged, SMT DEF Parsed
<1>4. WithFailed(Parsed(f, v, h, o), Yes).failed = Yes
  BY RecordChanged, SMT DEF Parsed
<1>5. Put(Parsed(f, v, h, o), k, x) = Parsed(f, v, h, [o EXCEPT ![k] = x])
  BY RecordChanged, SMT DEF Parsed
<1>6. QED
  BY <1>1, <1>2, <1>3, <1>4, <1>5, Zenon DEF WithFlag, WithVerbatim, WithHelp, WithFailed, Fail, Yes

\* Its fields.
LEMMA ParsedFields ==
  \A f, v, h, o :
         /\ Parsed(f, v, h, o).flag = f /\ Parsed(f, v, h, o).verbatim = v
         /\ Parsed(f, v, h, o).help = h /\ Parsed(f, v, h, o).failed = No
         /\ Parsed(f, v, h, o).options = o
<1>1. \A f, v, h, a, o : LET r == Record(f, v, h, a, o)
                       IN r.flag = f /\ r.verbatim = v /\ r.help = h /\ r.failed = a /\ r.options = o
  BY DEF Record
<1>2. QED
  BY <1>1, SMT DEF Parsed

\* Nothing but those options changed.
SameValues(c, words, p, r, changed) ==
  \A o \in Named(c) \ changed : ValueTo(c, words, o, r) = ValueTo(c, words, o, p)

\* The options, when only one of them changes ...
LEMMA OneOptionChanged ==
  ASSUME NEW c, NEW words, NEW p, NEW r, NEW k \in Named(c), NEW x,
         ValueTo(c, words, k, r) = x, SameValues(c, words, p, r, {k})
  PROVE  OptionsTo(c, words, r) = [OptionsTo(c, words, p) EXCEPT ![k] = x]
  BY DEF OptionsTo, SameValues

\* ... or none.
LEMMA NoOptionChanged ==
  ASSUME NEW c, NEW words, NEW p, NEW r,
         SameValues(c, words, p, r, {})
  PROVE  OptionsTo(c, words, r) = OptionsTo(c, words, p)
  BY DEF OptionsTo, SameValues

\* What is given for an option, when the word at m gives another argument.
LEMMA ArgumentsAppend ==
  ASSUME NEW c, NEW words, NEW S, S \subseteq Nat, IsFiniteSet(S), NEW m \in Nat, \A x \in S : x < m
  PROVE  /\ Arguments(c, words, S \cup {m}) = Append(Arguments(c, words, S), Argument(c, words, m))
         /\ Arguments(c, words, S \cup {m}) # <<>>
         /\ Last(Arguments(c, words, S \cup {m})) = Argument(c, words, m)
<1> DEFINE n == Cardinality(S)
           f == Arguments(c, words, S)
           g == Arguments(c, words, S \cup {m})
<1>1. /\ n \in Nat
      /\ DOMAIN InOrder(S) = 1 .. n
      /\ DOMAIN InOrder(S \cup {m}) = 1 .. n + 1
      /\ \A i \in 1 .. n : InOrder(S \cup {m})[i] = InOrder(S)[i]
      /\ InOrder(S \cup {m})[n + 1] = m
  BY InOrderAppend
<1> HIDE DEF n
<1>2. f = [i \in 1 .. n |-> f[i]] /\ g = [i \in 1 .. n + 1 |-> g[i]]
  <2>1. f = [i \in 1 .. n |-> Argument(c, words, InOrder(S)[i])]
    BY <1>1, Zenon DEF Arguments
  <2>2. g = [i \in 1 .. n + 1 |-> Argument(c, words, InOrder(S \cup {m})[i])]
    BY <1>1, Zenon DEF Arguments
  <2>3. QED
    BY <2>1, <2>2
<1>3. \A i \in 1 .. n : g[i] = f[i]
  <2>1. \A i \in 1 .. n : i \in 1 .. n + 1
    BY <1>1
  <2>2. QED
    BY <1>1, <2>1, Zenon DEF Arguments
<1>4. g[n + 1] = Argument(c, words, m)
  <2>1. n + 1 \in 1 .. n + 1
    BY <1>1
  <2>2. QED
    BY <1>1, <2>1, Zenon DEF Arguments
<1> HIDE DEF f, g
<1>5. g = Append(f, g[n + 1]) /\ Len(g) = n + 1
  BY <1>1, <1>2, <1>3, AppendTo
<1>6. g # <<>> /\ Last(g) = g[n + 1]
  BY <1>1, <1>5 DEF Last
<1>7. QED
  BY <1>4, <1>5, <1>6 DEF f, g

\* A flag is a word before every separator that is nobody's argument.
LEMMA FlagPosition ==
  ASSUME NEW c, NEW words, NEW p \in DOMAIN words, DOMAIN words \subseteq Nat
  PROVE  p \in Flags(c, words) <=> ~IsArgument(c, words, p) /\ ~IsAfterSeparator(c, words, p)
  BY DEF Flags, Separators, IsAfterSeparator

-----------------------------------------------------------------------------
\* The words of a command line, and a place between two of them.
IsWords(words) == Len(words) \in Nat /\ DOMAIN words = 1 .. Len(words)

\* The flags up to the next word.
LEMMA NextFlags ==
  ASSUME NEW c, NEW words, IsWords(words), NEW p \in 0 .. Len(words) - 1
  PROVE  /\ p + 1 \in DOMAIN words
         /\ FlagsTo(c, words, p) \subseteq 1 .. p /\ IsFiniteSet(FlagsTo(c, words, p))
         /\ p + 1 \in Flags(c, words) => FlagsTo(c, words, p + 1) = FlagsTo(c, words, p) \cup {p + 1}
         /\ p + 1 \notin Flags(c, words) => FlagsTo(c, words, p + 1) = FlagsTo(c, words, p)
<1>1. p + 1 \in DOMAIN words /\ DOMAIN words \subseteq Nat \ {0} /\ p \in Nat
  BY DEF IsWords
<1>2. \A q \in Flags(c, words) : q \in DOMAIN words
  BY DEF Flags
<1>3. FlagsTo(c, words, p) \subseteq 1 .. p
  BY <1>1, <1>2 DEF FlagsTo
<1>4. IsFiniteSet(FlagsTo(c, words, p))
  <2>1. IsFiniteSet(1 .. p)
    BY <1>1, FS_Interval
  <2>2. FlagsTo(c, words, p) \in SUBSET (1 .. p)
    BY <1>3
  <2>3. QED
    BY <2>1, <2>2, FS_Subset
<1>5. \A q \in Flags(c, words) : q <= p + 1 <=> q <= p \/ q = p + 1
  BY <1>1, <1>2
<1>6. \A q : q \in FlagsTo(c, words, p + 1) <=> q \in FlagsTo(c, words, p) \/ (q = p + 1 /\ q \in Flags(c, words))
  BY <1>1, <1>5 DEF FlagsTo
<1>7. QED
  BY <1>1, <1>3, <1>4, <1>6

\* A separator at or before the next word.
LEMMA NextSeparator ==
  ASSUME NEW c, NEW words, IsWords(words), NEW p \in 0 .. Len(words) - 1
  PROVE  IsAfterSeparator(c, words, p + 1) <=>
           IsAfterSeparator(c, words, p) \/ (c = "run" /\ words[p + 1] = "--" /\ ~IsArgument(c, words, p + 1))
<1>1. p + 1 \in DOMAIN words /\ DOMAIN words \subseteq Nat
  BY DEF IsWords
<1>2. \A q \in Separators(c, words) : q \in Nat /\ (q <= p + 1 <=> q <= p \/ q = p + 1)
  BY <1>1 DEF Separators
<1>3. p + 1 \in Separators(c, words) <=> c = "run" /\ words[p + 1] = "--" /\ ~IsArgument(c, words, p + 1)
  BY <1>1 DEF Separators
<1>4. p + 1 \in Separators(c, words) => p + 1 <= p + 1
  OBVIOUS
<1>5. QED
  BY <1>2, <1>3, <1>4 DEF IsAfterSeparator

\* The first of the separators.
LEMMA FirstSeparator ==
  ASSUME NEW c, NEW words, IsWords(words), NEW p \in Nat, IsAfterSeparator(c, words, p)
  PROVE  /\ Min(Separators(c, words)) \in Separators(c, words) /\ Min(Separators(c, words)) \in 1 .. p
         /\ \A q \in Separators(c, words) : Min(Separators(c, words)) <= q
<1> DEFINE S == Separators(c, words)
<1>1. S \subseteq Nat \ {0} /\ S # {}
  BY DEF Separators, IsWords, IsAfterSeparator
<1>2. \E x \in S : \A y \in S : x <= y
  BY <1>1, LeastExists
<1>3. Min(S) \in S /\ \A y \in S : Min(S) <= y
  BY <1>2 DEF Min
<1>4. PICK q \in S : q <= p
  BY DEF IsAfterSeparator
<1>5. QED
  BY <1>1, <1>3, <1>4

\* What has no meaning keeps having none.
LEMMA UnderstoodBefore ==
  ASSUME NEW c, NEW words, IsWords(words), NEW p \in 0 .. Len(words) - 1, UnderstoodTo(c, words, p + 1)
  PROVE  UnderstoodTo(c, words, p)
<1>1. \A q \in FlagsTo(c, words, p) : q \in FlagsTo(c, words, p + 1) /\ q # p + 1
  <2>1. FlagsTo(c, words, p) \subseteq 1 .. p
    BY NextFlags
  <2>2. \A q \in FlagsTo(c, words, p) : q <= p + 1 /\ q # p + 1
    BY <2>1
  <2>3. QED
    BY <2>2 DEF FlagsTo
<1>2. QED
  BY <1>1 DEF UnderstoodTo

\* What was read, from its four parts.
LEMMA ParsedIs ==
  ASSUME NEW c, NEW words, NEW r, NEW f, NEW v, NEW h, NEW o,
         FlagTo(c, words, r) = f, VerbatimTo(c, words, r) = v,
         HelpTo(c, words, r) = h, OptionsTo(c, words, r) = o
  PROVE  ParsedTo(c, words, r) = Parsed(f, v, h, o)
  BY DEF ParsedTo

\* A part of the words, with one word more.
LEMMA PartAppend ==
  ASSUME NEW words, IsWords(words), NEW p \in 0 .. Len(words) - 1, NEW s \in 0 .. p
  PROVE  SubSeq(words, s + 1, p + 1) = Append(SubSeq(words, s + 1, p), words[p + 1])
<1> DEFINE X == {words[q] : q \in 1 .. Len(words)}
           old == SubSeq(words, s + 1, p)
           new == SubSeq(words, s + 1, p + 1)
<1>0. PICK n \in Nat : n = p - s
  BY DEF IsWords
<1>1. p \in Nat /\ s \in Nat /\ p + 1 \in 1 .. Len(words) /\ s + 1 \in Int /\ p \in Int /\ p + 1 \in Int
  BY DEF IsWords
<1>2. \A q \in 1 .. Len(words) : words[q] \in X
  OBVIOUS
<1>3. (\A q \in s + 1 .. p : words[q] \in X) /\ (\A q \in s + 1 .. p + 1 : words[q] \in X)
  <2>1. \A q \in s + 1 .. p + 1 : q \in 1 .. Len(words)
    BY <1>1 DEF IsWords
  <2>2. \A q \in s + 1 .. p : q \in 1 .. Len(words)
    BY <1>1 DEF IsWords
  <2> HIDE DEF X
  <2>3. QED
    BY <1>2, <2>1, <2>2, Zenon
<1> HIDE DEF X
<1>4. /\ old \in Seq(X) /\ Len(old) = IF s + 1 <= p THEN p - (s + 1) + 1 ELSE 0
      /\ \A i \in 1 .. p - (s + 1) + 1 : old[i] = words[(s + 1) + i - 1]
  BY <1>1, <1>3, SubSeqProperties
<1>5. /\ new \in Seq(X) /\ Len(new) = IF s + 1 <= p + 1 THEN (p + 1) - (s + 1) + 1 ELSE 0
      /\ \A i \in 1 .. (p + 1) - (s + 1) + 1 : new[i] = words[(s + 1) + i - 1]
  BY <1>1, <1>3, SubSeqProperties
<1> HIDE DEF old, new
<1>6. Len(old) = n /\ Len(new) = n + 1
  BY <1>0, <1>1, <1>4, <1>5
<1>7. new[n + 1] = words[p + 1]
  <2>1. n + 1 \in 1 .. (p + 1) - (s + 1) + 1 /\ (s + 1) + (n + 1) - 1 = p + 1
    BY <1>0, <1>1
  <2>2. QED
    BY <1>5, <2>1
<1>8. \A i \in 1 .. n : new[i] = old[i]
  BY <1>0, <1>1, <1>4, <1>5
<1> DEFINE h == Append(old, words[p + 1])
<1>9. h \in Seq(X) /\ Len(h) = n + 1 /\ h[n + 1] = words[p + 1] /\ \A i \in 1 .. n : h[i] = old[i]
  <2>1. words[p + 1] \in X
    BY <1>1, <1>2
  <2>2. QED
    BY <1>4, <1>6, <2>1, AppendProperties
<1> HIDE DEF h
<1>10. \A i \in 1 .. Len(new) : new[i] = h[i]
  BY <1>6, <1>7, <1>8, <1>9
<1>11. new = h
  BY <1>5, <1>6, <1>9, <1>10, SeqEqual
<1>12. QED
  BY <1>11 DEF old, new, h

\* What was read, by its fields.
LEMMA ParsedToFields ==
  ASSUME NEW c, NEW words, NEW p
  PROVE  /\ ParsedTo(c, words, p).flag = FlagTo(c, words, p)
         /\ ParsedTo(c, words, p).verbatim = VerbatimTo(c, words, p)
         /\ ParsedTo(c, words, p).failed = No
         /\ ParsedTo(c, words, p).options = OptionsTo(c, words, p)
  BY ParsedFields, SMT DEF ParsedTo

\* The steps of the parser that change no option: a separator was read, ...
LEMMA VerbatimRead ==
  ASSUME NEW c, NEW words, NEW p
  PROVE  WithVerbatim(ParsedTo(c, words, p), Yes) =
           Parsed(FlagTo(c, words, p), Yes, HelpTo(c, words, p), OptionsTo(c, words, p))
  BY ParsedChanged, SMT DEF ParsedTo, WithVerbatim

\* ... it was asked for help,
LEMMA HelpRead ==
  ASSUME NEW c, NEW words, NEW p
  PROVE  WithHelp(ParsedTo(c, words, p), Yes) =
           Parsed(FlagTo(c, words, p), VerbatimTo(c, words, p), Yes, OptionsTo(c, words, p))
  BY ParsedChanged, SMT DEF ParsedTo, WithHelp

\* ... and a flag waits, or what was read is refused.
LEMMA FlagRead ==
  ASSUME NEW c, NEW words, NEW p, NEW x
  PROVE  /\ WithFlag(ParsedTo(c, words, p), x) =
              Parsed(x, VerbatimTo(c, words, p), HelpTo(c, words, p), OptionsTo(c, words, p))
         /\ Fail(ParsedTo(c, words, p)).failed = Yes
  BY ParsedChanged, SMT DEF ParsedTo, WithFlag

\* What was read, with one option changed.
LEMMA OptionPut ==
  ASSUME NEW c, NEW words, NEW p, NEW k, NEW x
  PROVE  LET v == VerbatimTo(c, words, p)
             h == HelpTo(c, words, p)
             o == [OptionsTo(c, words, p) EXCEPT ![k] = x]
         IN /\ Put([ParsedTo(c, words, p) EXCEPT !.flag = {}], k, x) = Parsed({}, v, h, o)
            /\ FlagTo(c, words, p) = {} => Put(ParsedTo(c, words, p), k, x) = Parsed({}, v, h, o)
<1>1. [ParsedTo(c, words, p) EXCEPT !.flag = {}] =
         Parsed({}, VerbatimTo(c, words, p), HelpTo(c, words, p), OptionsTo(c, words, p))
  BY ParsedChanged, SMT DEF ParsedTo
<1>2. Put([ParsedTo(c, words, p) EXCEPT !.flag = {}], k, x) =
         Parsed({}, VerbatimTo(c, words, p), HelpTo(c, words, p), [OptionsTo(c, words, p) EXCEPT ![k] = x])
  <2> DEFINE r == [ParsedTo(c, words, p) EXCEPT !.flag = {}]
  <2>1. r = Parsed({}, VerbatimTo(c, words, p), HelpTo(c, words, p), OptionsTo(c, words, p))
    BY <1>1
  <2> HIDE DEF r
  <2>2. Put(r, k, x) =
          Parsed({}, VerbatimTo(c, words, p), HelpTo(c, words, p), [OptionsTo(c, words, p) EXCEPT ![k] = x])
    BY <2>1, ParsedChanged, SMT
  <2>3. QED
    BY <2>2 DEF r
<1>3. Put(ParsedTo(c, words, p), k, x) =
         Parsed(FlagTo(c, words, p), VerbatimTo(c, words, p), HelpTo(c, words, p),
                [OptionsTo(c, words, p) EXCEPT ![k] = x])
  BY ParsedChanged, SMT DEF ParsedTo
<1>4. QED
  BY <1>2, <1>3, SMT

\* After r words nothing but the option k has changed, to x, and no flag waits.
OnlyOption(c, words, p, r, k, x) ==
  /\ k \in Named(c) /\ ValueTo(c, words, k, r) = x /\ SameValues(c, words, p, r, {k})
  /\ ~Waits(c, words, r)
  /\ IsAfterSeparator(c, words, r) <=> IsAfterSeparator(c, words, p)
  /\ IsHelpTo(c, words, r) <=> IsHelpTo(c, words, p)

\* A word that is stored for an option changes that option, and the flag that
\* waited for it waits no more.
LEMMA OptionRead ==
  \A c, words, p, r, k, x :
    OnlyOption(c, words, p, r, k, x) =>
      /\ Put(WithFlag(ParsedTo(c, words, p), {}), k, x) = ParsedTo(c, words, r)
      /\ ~Waits(c, words, p) => Put(ParsedTo(c, words, p), k, x) = ParsedTo(c, words, r)
<1> SUFFICES ASSUME NEW c, NEW words, NEW p, NEW r, NEW k, NEW x, OnlyOption(c, words, p, r, k, x)
             PROVE  /\ Put(WithFlag(ParsedTo(c, words, p), {}), k, x) = ParsedTo(c, words, r)
                    /\ ~Waits(c, words, p) => Put(ParsedTo(c, words, p), k, x) = ParsedTo(c, words, r)
  BY Zenon
<1>1. OptionsTo(c, words, r) = [OptionsTo(c, words, p) EXCEPT ![k] = x]
  BY OneOptionChanged DEF OnlyOption
<1>2. VerbatimTo(c, words, r) = VerbatimTo(c, words, p) /\ HelpTo(c, words, r) = HelpTo(c, words, p)
  BY Zenon DEF OnlyOption, VerbatimTo, HelpTo, IsAfterSeparator, IsHelpTo
<1>3. ParsedTo(c, words, r) =
         Parsed({}, VerbatimTo(c, words, p), HelpTo(c, words, p), [OptionsTo(c, words, p) EXCEPT ![k] = x])
  <2>1. FlagTo(c, words, r) = {}
    BY DEF OnlyOption, FlagTo
  <2>2. QED
    BY <1>1, <1>2, <2>1, SMT DEF ParsedTo
<1>4. ~Waits(c, words, p) => FlagTo(c, words, p) = {}
  BY Zenon DEF FlagTo
<1>5. QED
  BY <1>3, <1>4, OptionPut, SMT DEF WithFlag

-----------------------------------------------------------------------------
(* One word more, by where it stands.                                      *)

\* After a separator it is the next argument of the compiler.
LEMMA WordAfterSeparator ==
  ASSUME NEW c \in Commands, NEW words, IsWords(words), NEW p \in 0 .. Len(words) - 1,
         IsAfterSeparator(c, words, p)
  PROVE  /\ UnderstoodTo(c, words, p + 1) <=> UnderstoodTo(c, words, p)
         /\ Read(c, ParsedTo(c, words, p), words[p + 1]) = ParsedTo(c, words, p + 1)
<1> DEFINE s == Min(Separators(c, words))
           old == WordsTo(c, words, p)
           new == WordsTo(c, words, p + 1)
<1>1. s \in Separators(c, words) /\ s \in 1 .. p /\ p \in Nat /\ c = "run"
  <2>1. p \in Nat
    BY DEF IsWords
  <2>2. s \in Separators(c, words) /\ s \in 1 .. p
    BY <2>1, FirstSeparator
  <2>3. QED
    BY <2>1, <2>2 DEF Separators
<1>2. /\ p + 1 \notin Flags(c, words) /\ FlagsTo(c, words, p + 1) = FlagsTo(c, words, p)
      /\ \A q \in FlagsTo(c, words, p) : q \in Nat /\ q < p
  <2>1. \A q \in Flags(c, words) : q < s /\ q \in Nat
    BY <1>1 DEF Flags, IsWords
  <2>2. p + 1 \notin Flags(c, words)
    BY <1>1, <2>1
  <2>3. \A q \in FlagsTo(c, words, p) : q \in Nat /\ q < p
    BY <1>1, <2>1 DEF FlagsTo
  <2>4. QED
    BY <2>2, <2>3, NextFlags
<1> HIDE DEF s
<1>3. UnderstoodTo(c, words, p + 1) <=> UnderstoodTo(c, words, p)
  <2>1. \A q \in FlagsTo(c, words, p) : q # p /\ q # p + 1
    BY <1>1, <1>2
  <2>2. QED
    BY <1>2, <2>1, Zenon DEF UnderstoodTo
<1>4. new = Append(old, words[p + 1])
  <2>1. IsAfterSeparator(c, words, p + 1)
    BY NextSeparator
  <2>2. old = SubSeq(words, s + 1, p) /\ new = SubSeq(words, s + 1, p + 1)
    BY <2>1, Zenon DEF WordsTo, s
  <2>3. s \in 0 .. p
    BY <1>1
  <2>4. QED
    BY <2>2, <2>3, PartAppend
<1> HIDE DEF old, new
<1>5. /\ "arguments" \in Named(c) /\ ValueTo(c, words, "arguments", p + 1) = new
      /\ SameValues(c, words, p, p + 1, {"arguments"})
  <2>1. "arguments" \in Named(c)
    BY <1>1, OptionKinds DEF Named
  <2>2. ValueTo(c, words, "arguments", p + 1) = new
    BY <1>1, OptionKinds, Zenon DEF ValueTo, new
  <2>3. ASSUME NEW o \in Named(c) \ {"arguments"}
        PROVE  ValueTo(c, words, o, p + 1) = ValueTo(c, words, o, p)
    <3>1. \A q \in FlagsTo(c, words, p) : q < p + 1
      BY <1>1, <1>2
    <3>2. GivesTo(c, words, o, p + 1) = GivesTo(c, words, o, p)
      BY <1>2, <3>1, Zenon DEF GivesTo
    <3>3. IsOnTo(c, words, o, p + 1) <=> IsOnTo(c, words, o, p)
      BY <1>2, Zenon DEF IsOnTo
    <3>4. IsOnTo(c, words, o, p + 1) = IsOnTo(c, words, o, p)
      BY <3>3, Zenon DEF IsOnTo
    <3>5. o # "arguments"
      OBVIOUS
    <3>6. QED
      BY <3>2, <3>4, <3>5 DEF ValueTo
  <2>4. QED
    BY <2>1, <2>2, <2>3, Zenon DEF SameValues
<1>6. OptionsTo(c, words, p)["arguments"] = old
  <2>1. "arguments" \in Named(c)
    BY <1>1, OptionKinds DEF Named
  <2>2. ValueTo(c, words, "arguments", p) = old
    BY <1>1, OptionKinds, Zenon DEF ValueTo, old
  <2>3. QED
    BY <2>1, <2>2 DEF OptionsTo
<1>7. /\ ~Waits(c, words, p) /\ ~Waits(c, words, p + 1)
      /\ IsAfterSeparator(c, words, p + 1) <=> IsAfterSeparator(c, words, p)
      /\ IsHelpTo(c, words, p + 1) <=> IsHelpTo(c, words, p)
  <2>1. ~Waits(c, words, p) /\ ~Waits(c, words, p + 1)
    <3>1. p \notin Flags(c, words)
      BY <1>1, <1>2 DEF FlagsTo
    <3>2. QED
      BY <1>2, <3>1 DEF Waits
  <2>2. IsAfterSeparator(c, words, p + 1) <=> IsAfterSeparator(c, words, p)
    BY NextSeparator
  <2>3. QED
    BY <1>2, <2>1, <2>2, Zenon DEF IsHelpTo
<1> DEFINE r == ParsedTo(c, words, p)
<1>8. Read(c, r, words[p + 1]) = Add(r, "arguments", words[p + 1])
  <2>1. r.failed = No /\ r.verbatim = IsAfterSeparator(c, words, p)
    BY ParsedToFields, Zenon DEF VerbatimTo
  <2> HIDE DEF r
  <2>2. QED
    BY <2>1, Zenon DEF Read, No
<1>9. Add(r, "arguments", words[p + 1]) = Put(r, "arguments", new)
  <2>1. r.options = OptionsTo(c, words, p)
    BY ParsedToFields, Zenon DEF VerbatimTo
  <2> HIDE DEF r
  <2>2. QED
    BY <1>4, <1>6, <2>1, Zenon DEF Add
<1>10. Put(ParsedTo(c, words, p), "arguments", new) = ParsedTo(c, words, p + 1)
  <2>1. OnlyOption(c, words, p, p + 1, "arguments", new)
    BY <1>5, <1>7, Zenon DEF OnlyOption
  <2>2. QED
    BY <1>7, <2>1, OptionRead, SMT
<1> HIDE DEF r
<1>11. QED
  BY <1>3, <1>8, <1>9, <1>10, Zenon DEF r

\* The value of each kind of option.
LEMMA ValueToKinds ==
  ASSUME NEW c \in Commands, NEW words, NEW p, NEW o
  PROVE  /\ o \in Singles[c] => ValueTo(c, words, o, p) = Chosen(o, Arguments(c, words, GivesTo(c, words, o, p)))
         /\ o \in Lists[c] \ {"arguments"} => ValueTo(c, words, o, p) = Arguments(c, words, GivesTo(c, words, o, p))
         /\ o = "arguments" => ValueTo(c, words, o, p) = WordsTo(c, words, p)
         /\ o \in Switched(c) => ValueTo(c, words, o, p) = IsOnTo(c, words, o, p)
<1>1. /\ Singles[c] \cap Lists[c] = {} /\ Singles[c] \cap Switched(c) = {} /\ Lists[c] \cap Switched(c) = {}
      /\ "arguments" \notin Switched(c) \cup Singles[c]
  BY OptionKinds
<1>2. o \in Singles[c] => ValueTo(c, words, o, p) = Chosen(o, Arguments(c, words, GivesTo(c, words, o, p)))
  BY <1>1 DEF ValueTo
<1>3. o \in Lists[c] \ {"arguments"} => ValueTo(c, words, o, p) = Arguments(c, words, GivesTo(c, words, o, p))
  BY <1>1 DEF ValueTo
<1>4. o = "arguments" => ValueTo(c, words, o, p) = WordsTo(c, words, p)
  BY <1>1 DEF ValueTo
<1>5. o \in Switched(c) => ValueTo(c, words, o, p) = IsOnTo(c, words, o, p)
  BY <1>1 DEF ValueTo
<1>6. QED
  BY <1>2, <1>3, <1>4, <1>5

\* The value of an option is the same as long as its arguments, its switches
\* and the words of the compiler are.
LEMMA ValueToSame ==
  ASSUME NEW c, NEW words, NEW p, NEW r, NEW o,
         GivesTo(c, words, o, r) = GivesTo(c, words, o, p),
         IsOnTo(c, words, o, r) <=> IsOnTo(c, words, o, p),
         WordsTo(c, words, r) = WordsTo(c, words, p)
  PROVE  ValueTo(c, words, o, r) = ValueTo(c, words, o, p)
<1>1. IsOnTo(c, words, o, r) = IsOnTo(c, words, o, p)
  BY Zenon DEF IsOnTo
<1>2. QED
  BY <1>1 DEF ValueTo

\* The words that give an option an argument are finitely many.
LEMMA GivesFinite ==
  ASSUME NEW c, NEW words, IsWords(words), NEW o, NEW p \in 0 .. Len(words) - 1
  PROVE  GivesTo(c, words, o, p) \subseteq 1 .. p /\ IsFiniteSet(GivesTo(c, words, o, p))
<1>1. FlagsTo(c, words, p) \subseteq 1 .. p /\ IsFiniteSet(FlagsTo(c, words, p))
  BY NextFlags
<1>2. GivesTo(c, words, o, p) \in SUBSET FlagsTo(c, words, p)
  BY DEF GivesTo
<1>3. QED
  BY <1>1, <1>2, FS_Subset

\* A flag that takes an argument is no other word.
LEMMA FlagIsNoOther ==
  ASSUME NEW c \in Commands, NEW word, Takes(c, word)
  PROVE  /\ word \notin DOMAIN Jobs /\ word \notin Plain
         /\ word \notin HelpFlags /\ word \notin Alone[c] /\ word # "--"
         /\ ValueOf(word) \in Singles[c] \cup (Lists[c] \ {"arguments"}) /\ ValueOf(word) \in Named(c)
<1>1. word \in Valued[c]
  BY DEF Takes
<1>2. (Plain \cup DOMAIN Jobs) \cap (Valued[c] \cup Alone[c] \cup HelpFlags \cup {"--"}) = {}
  BY WordsAssumption
<1>3. /\ \A f \in Valued[c] : ValueOf(f) \in Singles[c] \cup (Lists[c] \ {"arguments"})
      /\ Valued[c] \cap (HelpFlags \cup Alone[c] \cup {"--"}) = {}
  BY FlagTables
<1>4. QED
  BY <1>1, <1>2, <1>3 DEF Named

\* The argument of a flag is stored for the option of that flag.
LEMMA WordOfFlag ==
  ASSUME NEW c \in Commands, NEW words, IsWords(words), NEW p \in 0 .. Len(words) - 1,
         Waits(c, words, p), UnderstoodTo(c, words, p)
  PROVE  LET read == Read(c, ParsedTo(c, words, p), words[p + 1])
         IN /\ UnderstoodTo(c, words, p + 1) => read = ParsedTo(c, words, p + 1)
            /\ ~UnderstoodTo(c, words, p + 1) => read.failed = Yes
<1> DEFINE a == words[p + 1]
           k == ValueOf(words[p])
<1>1. /\ p \in Flags(c, words) /\ Takes(c, words[p]) /\ p \in Nat \ {0}
      /\ ~IsArgument(c, words, p) /\ ~IsAfterSeparator(c, words, p) /\ IsArgument(c, words, p + 1)
  <2>1. p \in Flags(c, words) /\ Takes(c, words[p]) /\ p \in DOMAIN words
    BY DEF Waits, Flags
  <2>2. p \in Nat \ {0} /\ DOMAIN words \subseteq Nat
    BY <2>1 DEF IsWords
  <2>3. ~IsArgument(c, words, p) /\ ~IsAfterSeparator(c, words, p)
    BY <2>1, <2>2, FlagPosition
  <2>4. QED
    BY <2>1, <2>2, <2>3, FlagHasArgument
<1>2. /\ p + 1 \notin Flags(c, words) /\ FlagsTo(c, words, p + 1) = FlagsTo(c, words, p)
      /\ ~IsAfterSeparator(c, words, p + 1) /\ ~Waits(c, words, p + 1)
      /\ IsHelpTo(c, words, p + 1) <=> IsHelpTo(c, words, p)
  <2>1. p + 1 \notin Flags(c, words)
    BY <1>1 DEF Flags
  <2>2. FlagsTo(c, words, p + 1) = FlagsTo(c, words, p)
    BY <2>1, NextFlags
  <2>3. ~IsAfterSeparator(c, words, p + 1)
    BY <1>1, NextSeparator
  <2>4. QED
    BY <2>1, <2>2, <2>3, Zenon DEF Waits, IsHelpTo
<1>3. /\ words[p] \notin DOMAIN Jobs /\ words[p] \notin Plain /\ words[p] \notin HelpFlags \cup Alone[c]
      /\ k \in Singles[c] \cup (Lists[c] \ {"arguments"}) /\ k \in Named(c)
  BY <1>1, FlagIsNoOther
<1>4. /\ GivesTo(c, words, k, p + 1) = GivesTo(c, words, k, p) \cup {p}
      /\ \A o : o # k => GivesTo(c, words, o, p + 1) = GivesTo(c, words, o, p)
  <2>1. p \in FlagsTo(c, words, p) /\ \A q \in FlagsTo(c, words, p) : q \in Nat /\ q <= p
    <3>1. p \in FlagsTo(c, words, p)
      BY <1>1 DEF FlagsTo
    <3>2. FlagsTo(c, words, p) \subseteq 1 .. p
      BY NextFlags
    <3>3. QED
      BY <1>1, <3>1, <3>2
  <2>2. \A q \in FlagsTo(c, words, p) : q < p + 1 /\ (q < p <=> q # p)
    BY <1>1, <2>1
  <2>3. \A o : Gives(c, words, o, p) <=> o = k
    BY <1>1, <1>3, Zenon DEF Gives
  <2>4. ASSUME NEW o, NEW q
        PROVE  q \in GivesTo(c, words, o, p + 1) <=> q \in GivesTo(c, words, o, p) \/ (q = p /\ o = k)
    BY <1>1, <1>2, <2>1, <2>2, <2>3, Zenon DEF GivesTo
  <2> HIDE DEF k
  <2>5. GivesTo(c, words, k, p + 1) = GivesTo(c, words, k, p) \cup {p}
    BY <2>4
  <2>6. ASSUME NEW o, o # k
        PROVE  GivesTo(c, words, o, p + 1) = GivesTo(c, words, o, p)
    <3>1. \A q : q \in GivesTo(c, words, o, p + 1) <=> q \in GivesTo(c, words, o, p)
      BY <2>4, <2>6, Zenon
    <3>2. QED
      BY <3>1
  <2>7. QED
    BY <2>5, <2>6
<1>5. LET old == Arguments(c, words, GivesTo(c, words, k, p))
          new == Arguments(c, words, GivesTo(c, words, k, p + 1))
      IN new = Append(old, a) /\ new # <<>> /\ Last(new) = a
  <2> DEFINE S == GivesTo(c, words, k, p)
  <2>1. S \subseteq Nat /\ IsFiniteSet(S) /\ \A q \in S : q < p
    <3>1. S \subseteq 1 .. p /\ IsFiniteSet(S)
      BY GivesFinite
    <3>2. \A q \in S : Takes(c, words[q]) => q < p
      BY DEF GivesTo
    <3>3. p \notin S
      BY <1>1, <3>2
    <3> HIDE DEF S
    <3>4. QED
      BY <1>1, <3>1, <3>3
  <2>2. Argument(c, words, p) = a
    BY <1>1, <1>3 DEF Argument
  <2>3. GivesTo(c, words, k, p + 1) = S \cup {p}
    BY <1>4
  <2> HIDE DEF S
  <2>4. /\ Arguments(c, words, S \cup {p}) = Append(Arguments(c, words, S), Argument(c, words, p))
        /\ Arguments(c, words, S \cup {p}) # <<>>
        /\ Last(Arguments(c, words, S \cup {p})) = Argument(c, words, p)
    BY <1>1, <2>1, ArgumentsAppend
  <2>5. QED
    BY <2>2, <2>3, <2>4, Zenon DEF S
<1>6. UnderstoodTo(c, words, p + 1) <=> (k = "threads" => a \in DOMAIN Number)
  <2>1. p \in FlagsTo(c, words, p) /\ p + 1 \notin FlagsTo(c, words, p) /\ p # p + 1
    BY <1>1, NextFlags DEF FlagsTo
  <2>2. p < Len(words)
    BY DEF IsWords
  <2>3. HasMeaning(c, words, p) <=> (k = "threads" => a \in DOMAIN Number)
    BY <1>1, <1>3, <2>2, Zenon DEF HasMeaning
  <2>4. \A q \in FlagsTo(c, words, p) : q # p => HasMeaning(c, words, q)
    BY Zenon DEF UnderstoodTo
  <2> HIDE DEF k, a
  <2>5. UnderstoodTo(c, words, p + 1) <=> \A q \in FlagsTo(c, words, p) : HasMeaning(c, words, q)
    BY <1>2, <2>1, Zenon DEF UnderstoodTo
  <2>6. QED
    BY <2>1, <2>3, <2>4, <2>5, Zenon
<1>7. SameValues(c, words, p, p + 1, {k})
  <2>1. WordsTo(c, words, p + 1) = WordsTo(c, words, p)
    BY <1>1, <1>2, Zenon DEF WordsTo
  <2>2. \A o : IsOnTo(c, words, o, p + 1) <=> IsOnTo(c, words, o, p)
    BY <1>2, Zenon DEF IsOnTo
  <2> HIDE DEF k
  <2>3. \A o \in Named(c) \ {k} : ValueTo(c, words, o, p + 1) = ValueTo(c, words, o, p)
    BY <1>4, <2>1, <2>2, ValueToSame
  <2>4. QED
    BY <2>3 DEF SameValues
<1> DEFINE r == ParsedTo(c, words, p)
           cleared == WithFlag(r, {})
<1>8. Read(c, r, a) = Store(cleared, k, a)
  <2>1. r.failed = No /\ r.verbatim = IsAfterSeparator(c, words, p) /\ r.flag = FlagTo(c, words, p)
    BY ParsedToFields, Zenon DEF VerbatimTo
  <2>2. r.flag = {words[p]}
    BY <2>1, Zenon DEF FlagTo
  <2>3. (CHOOSE f \in r.flag : TRUE) = words[p] /\ r.flag # {}
    BY <2>2
  <2> HIDE DEF r
  <2>4. QED
    BY <1>1, <2>1, <2>3, Zenon DEF Read, No, WithFlag
<1> HIDE DEF a, k, r, cleared
<1>9. CASE k = "threads" /\ a \notin DOMAIN Number
  <2>1. Store(cleared, k, a) = Fail(cleared)
    BY <1>9, OptionKinds, Zenon DEF Store
  <2>2. cleared = Parsed({}, VerbatimTo(c, words, p), HelpTo(c, words, p), OptionsTo(c, words, p))
    BY ParsedChanged, SMT DEF ParsedTo, WithFlag, cleared, r
  <2>3. Fail(cleared).failed = Yes
    BY <2>2, ParsedChanged, SMT
  <2>4. QED
    BY <1>6, <1>8, <1>9, <2>1, <2>3, Zenon DEF a, r
<1>10. CASE ~(k = "threads" /\ a \notin DOMAIN Number)
  <2> DEFINE v == ValueTo(c, words, k, p + 1)
  <2>1. Store(cleared, k, a) = Put(cleared, k, v) => Read(c, r, a) = ParsedTo(c, words, p + 1)
    <3>1. OnlyOption(c, words, p, p + 1, k, v)
      BY <1>1, <1>2, <1>3, <1>7, Zenon DEF OnlyOption
    <3> HIDE DEF v
    <3>2. Put(cleared, k, v) = ParsedTo(c, words, p + 1)
      BY <3>1, OptionRead, SMT DEF cleared, r
    <3>3. QED
      BY <1>8, <3>2, Zenon
  <2>2. Read(c, r, a) = ParsedTo(c, words, p + 1)
    <3>1. CASE k = "threads"
      <4>1. Store(cleared, k, a) = Put(cleared, k, {Number[a]})
        BY <1>10, <3>1, OptionKinds, Zenon DEF Store
      <4>2. k \in Singles[c]
        BY <1>3, <3>1, OptionKinds
      <4>3. ValueTo(c, words, k, p + 1) = {Number[a]}
        BY <1>5, <3>1, <4>2, ValueToKinds, Zenon DEF Chosen
      <4>4. QED
        BY <2>1, <4>1, <4>3, Zenon
    <3>2. CASE k # "threads" /\ k \in Singles[c]
      <4>1. Store(cleared, k, a) = Put(cleared, k, {a})
        BY <3>2, OptionKinds DEF Store
      <4>2. ValueTo(c, words, k, p + 1) = {a}
        <5> DEFINE new == Arguments(c, words, GivesTo(c, words, k, p + 1))
        <5>1. ValueTo(c, words, k, p + 1) = Chosen(k, new)
          BY <3>2, ValueToKinds
        <5>2. new # <<>> /\ Last(new) = a
          BY <1>5
        <5> HIDE DEF new
        <5>3. QED
          BY <3>2, <5>1, <5>2 DEF Chosen
      <4>3. QED
        BY <2>1, <4>1, <4>2, Zenon
    <3>3. CASE k \in Lists[c] \ {"arguments"}
      <4>1. Store(cleared, k, a) = Put(cleared, k, Append(cleared.options[k], a))
        BY <3>3, OptionKinds DEF Store, Add
      <4>2. cleared.options = OptionsTo(c, words, p)
        <5>1. cleared = Parsed({}, VerbatimTo(c, words, p), HelpTo(c, words, p), OptionsTo(c, words, p))
          BY ParsedChanged, SMT DEF ParsedTo, WithFlag, cleared, r
        <5>2. QED
          BY <5>1, ParsedFields, SMT
      <4>3. OptionsTo(c, words, p)[k] = Arguments(c, words, GivesTo(c, words, k, p))
        BY <1>3, <3>3, ValueToKinds, Zenon DEF OptionsTo
      <4>4. ValueTo(c, words, k, p + 1) = Append(cleared.options[k], a)
        BY <1>5, <3>3, <4>2, <4>3, ValueToKinds, Zenon
      <4>5. QED
        BY <2>1, <4>1, <4>4, Zenon
    <3>4. QED
      BY <1>3, <3>1, <3>2, <3>3, Zenon
  <2>3. QED
    BY <1>6, <1>10, <2>2, Zenon DEF a, r
<1>11. QED
  BY <1>9, <1>10

\* A word that is not for the compiler and that no flag waits for is read as
\* a flag.
LEMMA FreeWord ==
  ASSUME NEW c \in Commands, NEW words, IsWords(words), NEW p \in 0 .. Len(words) - 1,
         ~IsAfterSeparator(c, words, p), ~Waits(c, words, p)
  PROVE  /\ ~IsArgument(c, words, p + 1)
         /\ \A q \in FlagsTo(c, words, p) : Takes(c, words[q]) => q < p
         /\ Read(c, ParsedTo(c, words, p), words[p + 1]) = ReadFlag(c, ParsedTo(c, words, p), words[p + 1])
<1>1. ~IsArgument(c, words, p + 1)
  <2>1. CASE p = 0
    BY <2>1, FirstIsNoArgument
  <2>2. CASE p # 0
    <3>1. p \in Nat \ {0} /\ p \in DOMAIN words /\ DOMAIN words \subseteq Nat
      BY <2>2 DEF IsWords
    <3>2. IsArgument(c, words, p + 1) => Takes(c, words[p]) /\ ~IsArgument(c, words, p)
      BY <3>1, ArgumentHasFlag
    <3>3. p \in Flags(c, words) <=> ~IsArgument(c, words, p)
      BY <3>1, FlagPosition
    <3>4. QED
      BY <3>2, <3>3 DEF Waits
  <2>3. QED
    BY <2>1, <2>2
<1>2. ASSUME NEW q \in FlagsTo(c, words, p), Takes(c, words[q])
      PROVE  q < p
  <2>1. q \in 1 .. p /\ p \in Nat
    <3>1. FlagsTo(c, words, p) \subseteq 1 .. p
      BY NextFlags
    <3>2. QED
      BY <1>2, <3>1 DEF IsWords
  <2>2. q # p
    BY <1>2 DEF Waits, FlagsTo
  <2>3. QED
    BY <2>1, <2>2
<1> DEFINE r == ParsedTo(c, words, p)
<1>3. Read(c, r, words[p + 1]) = ReadFlag(c, r, words[p + 1])
  <2>1. r.failed = No /\ r.verbatim = IsAfterSeparator(c, words, p) /\ r.flag = FlagTo(c, words, p)
    BY ParsedToFields, Zenon DEF VerbatimTo
  <2>2. r.flag = {}
    BY <2>1, Zenon DEF FlagTo
  <2> HIDE DEF r
  <2>3. QED
    BY <2>1, <2>2, Zenon DEF Read, No
<1> HIDE DEF r
<1>4. QED
  BY <1>1, <1>2, <1>3, Zenon DEF r

\* What separates makes what follows for the compiler.
LEMMA WordSeparates ==
  ASSUME NEW c \in Commands, NEW words, IsWords(words), NEW p \in 0 .. Len(words) - 1,
         ~IsAfterSeparator(c, words, p), ~Waits(c, words, p), UnderstoodTo(c, words, p),
         c = "run", words[p + 1] = "--"
  PROVE  /\ UnderstoodTo(c, words, p + 1)
         /\ Read(c, ParsedTo(c, words, p), words[p + 1]) = ParsedTo(c, words, p + 1)
<1>1. /\ ~IsArgument(c, words, p + 1)
      /\ \A q \in FlagsTo(c, words, p) : Takes(c, words[q]) => q < p
      /\ Read(c, ParsedTo(c, words, p), words[p + 1]) = ReadFlag(c, ParsedTo(c, words, p), words[p + 1])
  BY FreeWord
<1>2. p \in Nat /\ p + 1 \in DOMAIN words /\ \A q \in FlagsTo(c, words, p) : q \in Nat /\ q <= p
  <2>1. FlagsTo(c, words, p) \subseteq 1 .. p
    BY NextFlags
  <2>2. p \in Nat /\ p + 1 \in DOMAIN words
    BY DEF IsWords
  <2>3. QED
    BY <2>1, <2>2
<1>3. p + 1 \in Separators(c, words) /\ IsAfterSeparator(c, words, p + 1)
  BY <1>1, <1>2, NextSeparator DEF Separators
<1>4. p + 1 \notin Flags(c, words) /\ FlagsTo(c, words, p + 1) = FlagsTo(c, words, p)
  <2>1. p + 1 \notin Flags(c, words)
    BY <1>2, <1>3 DEF Flags
  <2>2. QED
    BY <2>1, NextFlags
<1>5. UnderstoodTo(c, words, p + 1)
  <2>1. \A q \in FlagsTo(c, words, p) : HasMeaning(c, words, q)
    BY <1>1, <1>2 DEF UnderstoodTo
  <2>2. QED
    BY <1>4, <2>1, Zenon DEF UnderstoodTo
<1>6. WordsTo(c, words, p + 1) = WordsTo(c, words, p)
  <2>1. Min(Separators(c, words)) = p + 1
    <3>1. Min(Separators(c, words)) \in Separators(c, words) /\ Min(Separators(c, words)) \in 1 .. p + 1
      BY <1>2, <1>3, FirstSeparator
    <3>2. ~(Min(Separators(c, words)) <= p)
      BY <3>1 DEF IsAfterSeparator
    <3>3. QED
      BY <1>2, <3>1, <3>2
  <2>2. WordsTo(c, words, p + 1) = SubSeq(words, p + 1 + 1, p + 1)
    BY <1>3, <2>1, Zenon DEF WordsTo
  <2>3. SubSeq(words, p + 1 + 1, p + 1) = <<>>
    <3>1. p + 1 + 1 \in Int /\ p + 1 \in Int /\ p + 1 < p + 1 + 1
      BY <1>2
    <3>2. QED
      BY <3>1, SubSeqEmpty
  <2>4. WordsTo(c, words, p) = <<>>
    BY Zenon DEF WordsTo
  <2>5. QED
    BY <2>2, <2>3, <2>4
<1>7. OptionsTo(c, words, p + 1) = OptionsTo(c, words, p)
  <2>1. \A o : IsOnTo(c, words, o, p + 1) <=> IsOnTo(c, words, o, p)
    BY <1>4, Zenon DEF IsOnTo
  <2>2. \A q \in FlagsTo(c, words, p) : q < p + 1
    BY <1>2
  <2>3. ASSUME NEW o
        PROVE  GivesTo(c, words, o, p + 1) = GivesTo(c, words, o, p)
    BY <1>1, <1>4, <2>2, Zenon DEF GivesTo
  <2>4. \A o \in Named(c) : ValueTo(c, words, o, p + 1) = ValueTo(c, words, o, p)
    BY <1>6, <2>1, <2>3, ValueToSame
  <2>5. SameValues(c, words, p, p + 1, {})
    BY <2>4 DEF SameValues
  <2>6. QED
    BY <2>5, NoOptionChanged
<1>8. FlagTo(c, words, p) = {} /\ FlagTo(c, words, p + 1) = {}
  BY <1>4, Zenon DEF FlagTo, Waits
<1>9. HelpTo(c, words, p + 1) = HelpTo(c, words, p)
  BY <1>4, Zenon DEF HelpTo, IsHelpTo
<1>10. VerbatimTo(c, words, p + 1) = Yes
  BY <1>3, Zenon DEF VerbatimTo, IsAfterSeparator, Yes
<1>11. ParsedTo(c, words, p + 1) =
         Parsed(FlagTo(c, words, p), Yes, HelpTo(c, words, p), OptionsTo(c, words, p))
  <2>1. FlagTo(c, words, p + 1) = FlagTo(c, words, p)
    BY <1>8
  <2>2. ParsedTo(c, words, p + 1) = Parsed(FlagTo(c, words, p + 1), VerbatimTo(c, words, p + 1),
                                           HelpTo(c, words, p + 1), OptionsTo(c, words, p + 1))
    BY DEF ParsedTo
  <2>3. QED
    BY <1>7, <1>9, <1>10, <2>1, <2>2
<1>12. WithVerbatim(ParsedTo(c, words, p), Yes) = ParsedTo(c, words, p + 1)
  BY <1>11, VerbatimRead, Zenon
<1>13. ReadFlag(c, ParsedTo(c, words, p), words[p + 1]) = WithVerbatim(ParsedTo(c, words, p), Yes)
  <2>1. ~Takes(c, "--") /\ "--" \notin HelpFlags /\ ~Switches(c, "--") /\ "--" \notin DOMAIN Jobs
    <3>1. ~Takes(c, "--")
      BY FlagIsNoOther
    <3>2. "--" \notin HelpFlags /\ "--" \notin Alone[c]
      BY FlagTables
    <3>3. "--" \notin DOMAIN Jobs
      BY WordsAssumption
    <3>4. QED
      BY <3>1, <3>2, <3>3 DEF Switches
  <2>2. QED
    BY <2>1, Zenon DEF ReadFlag, WithVerbatim, Yes
<1>14. QED
  BY <1>1, <1>5, <1>12, <1>13, Zenon

\* What a flag adds to what was read.
LEMMA NextFlag ==
  ASSUME NEW c \in Commands, NEW words, IsWords(words), NEW p \in 0 .. Len(words) - 1,
         ~IsAfterSeparator(c, words, p), ~Waits(c, words, p), p + 1 \in Flags(c, words)
  PROVE  LET a == words[p + 1]
         IN /\ ~IsAfterSeparator(c, words, p + 1)
            /\ Waits(c, words, p + 1) <=> Takes(c, a)
            /\ WordsTo(c, words, p + 1) = WordsTo(c, words, p)
            /\ IsHelpTo(c, words, p + 1) <=> IsHelpTo(c, words, p) \/ a \in HelpFlags
            /\ \A o : IsOnTo(c, words, o, p + 1) <=> IsOnTo(c, words, o, p) \/ (Switches(c, a) /\ SwitchOf(a) = o)
            /\ \A o : Gives(c, words, o, p + 1) /\ ~Takes(c, a) =>
                        GivesTo(c, words, o, p + 1) = GivesTo(c, words, o, p) \cup {p + 1}
            /\ \A o : ~Gives(c, words, o, p + 1) \/ Takes(c, a) =>
                        GivesTo(c, words, o, p + 1) = GivesTo(c, words, o, p)
            /\ UnderstoodTo(c, words, p) =>
                 (UnderstoodTo(c, words, p + 1) <=> HasMeaning(c, words, p + 1) \/ Takes(c, a))
<1> DEFINE a == words[p + 1]
<1>1. p \in Nat /\ p + 1 \in DOMAIN words /\ DOMAIN words \subseteq Nat
  BY DEF IsWords
<1>2. ~IsAfterSeparator(c, words, p + 1)
  BY <1>1, FlagPosition
<1>3. FlagsTo(c, words, p + 1) = FlagsTo(c, words, p) \cup {p + 1}
  BY NextFlags
<1>4. \A q \in FlagsTo(c, words, p) : q \in Nat /\ q <= p /\ q < p + 1 /\ q # p + 1
  <2>1. FlagsTo(c, words, p) \subseteq 1 .. p
    BY NextFlags
  <2>2. QED
    BY <1>1, <2>1
<1>5. \A q \in FlagsTo(c, words, p) : Takes(c, words[q]) => q < p
  BY FreeWord
<1>6. WordsTo(c, words, p + 1) = WordsTo(c, words, p)
  BY <1>2, Zenon DEF WordsTo
<1>7. IsHelpTo(c, words, p + 1) <=> IsHelpTo(c, words, p) \/ a \in HelpFlags
  <2>1. \A q : q \in FlagsTo(c, words, p + 1) <=> q \in FlagsTo(c, words, p) \/ q = p + 1
    BY <1>3
  <2>2. QED
    BY <2>1, Zenon DEF IsHelpTo
<1>8. ASSUME NEW o
      PROVE  IsOnTo(c, words, o, p + 1) <=> IsOnTo(c, words, o, p) \/ (Switches(c, a) /\ SwitchOf(a) = o)
  <2>1. \A q : q \in FlagsTo(c, words, p + 1) <=> q \in FlagsTo(c, words, p) \/ q = p + 1
    BY <1>3
  <2>2. QED
    BY <2>1, Zenon DEF IsOnTo
<1>9. ASSUME NEW o, NEW q
      PROVE  q \in GivesTo(c, words, o, p + 1) <=>
               q \in GivesTo(c, words, o, p) \/ (q = p + 1 /\ Gives(c, words, o, p + 1) /\ ~Takes(c, a))
  <2>1. q \in FlagsTo(c, words, p + 1) <=> q \in FlagsTo(c, words, p) \/ q = p + 1
    BY <1>3
  <2>2. ~(p + 1 < p + 1)
    BY <1>1
  <2>3. QED
    BY <1>4, <1>5, <2>1, <2>2, Zenon DEF GivesTo
<1>10. ASSUME NEW o, Gives(c, words, o, p + 1), ~Takes(c, a)
       PROVE  GivesTo(c, words, o, p + 1) = GivesTo(c, words, o, p) \cup {p + 1}
  <2>1. \A q : q \in GivesTo(c, words, o, p + 1) <=> q \in GivesTo(c, words, o, p) \/ q = p + 1
    BY <1>9, <1>10
  <2>2. QED
    BY <2>1
<1>11. ASSUME NEW o, ~Gives(c, words, o, p + 1) \/ Takes(c, a)
       PROVE  GivesTo(c, words, o, p + 1) = GivesTo(c, words, o, p)
  <2>1. \A q : q \in GivesTo(c, words, o, p + 1) <=> q \in GivesTo(c, words, o, p)
    BY <1>9, <1>11, Zenon
  <2>2. QED
    BY <2>1
<1>12. ASSUME UnderstoodTo(c, words, p)
       PROVE  UnderstoodTo(c, words, p + 1) <=> HasMeaning(c, words, p + 1) \/ Takes(c, a)
  <2>1. \A q \in FlagsTo(c, words, p) : HasMeaning(c, words, q)
    <3>1. \A q \in FlagsTo(c, words, p) : ~(q = p /\ Takes(c, words[q]))
      BY <1>1, <1>5
    <3>2. QED
      BY <1>12, <3>1, Zenon DEF UnderstoodTo
  <2>2. \A q : q \in FlagsTo(c, words, p + 1) <=> q \in FlagsTo(c, words, p) \/ q = p + 1
    BY <1>3
  <2>3. QED
    BY <2>1, <2>2, Zenon DEF UnderstoodTo
<1>13. Waits(c, words, p + 1) <=> Takes(c, a)
  BY Zenon DEF Waits
<1> HIDE DEF a
<1>14. QED
  BY <1>2, <1>6, <1>7, <1>8, <1>10, <1>11, <1>12, <1>13, Zenon DEF a

\* The options stay as they were when a word gives them nothing.
LEMMA OptionsKept ==
  ASSUME NEW c \in Commands, NEW words, IsWords(words), NEW p \in 0 .. Len(words) - 1,
         ~IsAfterSeparator(c, words, p), ~Waits(c, words, p), p + 1 \in Flags(c, words),
         NEW S, \A o \in Named(c) \ S : ~Gives(c, words, o, p + 1) \/ Takes(c, words[p + 1]),
         \A o \in Named(c) \ S : ~(Switches(c, words[p + 1]) /\ SwitchOf(words[p + 1]) = o)
  PROVE  SameValues(c, words, p, p + 1, S)
<1>1. ASSUME NEW o \in Named(c) \ S
      PROVE  ValueTo(c, words, o, p + 1) = ValueTo(c, words, o, p)
  <2>1. GivesTo(c, words, o, p + 1) = GivesTo(c, words, o, p)
    BY NextFlag
  <2>2. IsOnTo(c, words, o, p + 1) <=> IsOnTo(c, words, o, p)
    BY NextFlag
  <2>3. WordsTo(c, words, p + 1) = WordsTo(c, words, p)
    BY NextFlag
  <2>4. QED
    BY <2>1, <2>2, <2>3, ValueToSame
<1>2. QED
  BY <1>1, Zenon DEF SameValues

\* An argument joins those an option was given before.
LEMMA NextArgument ==
  ASSUME NEW c \in Commands, NEW words, IsWords(words), NEW p \in 0 .. Len(words) - 1,
         ~IsAfterSeparator(c, words, p), ~Waits(c, words, p), p + 1 \in Flags(c, words),
         NEW k, Gives(c, words, k, p + 1), ~Takes(c, words[p + 1])
  PROVE  LET old == Arguments(c, words, GivesTo(c, words, k, p))
             new == Arguments(c, words, GivesTo(c, words, k, p + 1))
         IN new = Append(old, Argument(c, words, p + 1)) /\ new # <<>> /\ Last(new) = Argument(c, words, p + 1)
<1> DEFINE S == GivesTo(c, words, k, p)
<1>1. S \subseteq Nat /\ IsFiniteSet(S) /\ \A q \in S : q < p + 1
  <2>1. S \subseteq 1 .. p /\ IsFiniteSet(S)
    BY GivesFinite
  <2>2. p \in Nat
    BY DEF IsWords
  <2> HIDE DEF S
  <2>3. QED
    BY <2>1, <2>2
<1>2. GivesTo(c, words, k, p + 1) = S \cup {p + 1}
  BY NextFlag
<1>3. p + 1 \in Nat
  BY DEF IsWords
<1> HIDE DEF S
<1>4. /\ Arguments(c, words, S \cup {p + 1}) = Append(Arguments(c, words, S), Argument(c, words, p + 1))
      /\ Arguments(c, words, S \cup {p + 1}) # <<>>
      /\ Last(Arguments(c, words, S \cup {p + 1})) = Argument(c, words, p + 1)
  BY <1>1, <1>3, ArgumentsAppend
<1>5. QED
  BY <1>2, <1>4, Zenon DEF S

\* A word that is a flag is read as what it means, and refused if it means
\* nothing.
LEMMA WordIsFlag ==
  ASSUME NEW c \in Commands, NEW words, IsWords(words), NEW p \in 0 .. Len(words) - 1,
         ~IsAfterSeparator(c, words, p), ~Waits(c, words, p), p + 1 \in Flags(c, words), UnderstoodTo(c, words, p)
  PROVE  LET read == Read(c, ParsedTo(c, words, p), words[p + 1])
         IN /\ UnderstoodTo(c, words, p + 1) => read = ParsedTo(c, words, p + 1)
            /\ ~UnderstoodTo(c, words, p + 1) => read.failed = Yes
<1> DEFINE a == words[p + 1]
           r == ParsedTo(c, words, p)
           next == ParsedTo(c, words, p + 1)
<1>1. Read(c, r, a) = ReadFlag(c, r, a)
  BY FreeWord
<1>2. UnderstoodTo(c, words, p + 1) <=> HasMeaning(c, words, p + 1) \/ Takes(c, a)
  BY NextFlag
<1>3. /\ ~IsAfterSeparator(c, words, p + 1) /\ (Waits(c, words, p + 1) <=> Takes(c, a))
      /\ IsHelpTo(c, words, p + 1) <=> IsHelpTo(c, words, p) \/ a \in HelpFlags
  BY NextFlag
<1>4. /\ Takes(c, a) => a \notin HelpFlags /\ ~Switches(c, a) /\ a \notin DOMAIN Jobs /\ a \notin Plain
      /\ a \in HelpFlags => ~Switches(c, a) /\ a \notin DOMAIN Jobs /\ a \notin Plain
      /\ Switches(c, a) => a \notin DOMAIN Jobs /\ a \notin Plain
      /\ a \in DOMAIN Jobs => a \notin Plain
  <2>1. Takes(c, a) => a \notin HelpFlags /\ a \notin Alone[c] /\ a \notin DOMAIN Jobs /\ a \notin Plain
    BY FlagIsNoOther
  <2>2. Alone[c] \cap HelpFlags = {}
    BY FlagTables
  <2>3. Plain \cap DOMAIN Jobs = {} /\ (Plain \cup DOMAIN Jobs) \cap (Alone[c] \cup HelpFlags) = {}
    BY WordsAssumption
  <2> HIDE DEF a
  <2>4. QED
    BY <2>1, <2>2, <2>3 DEF Switches
<1>5. ~(c = "run" /\ a = "--")
  BY <1>3, NextSeparator, FreeWord
<1>6. VerbatimTo(c, words, p + 1) = VerbatimTo(c, words, p) /\ FlagTo(c, words, p) = {}
  BY <1>3, Zenon DEF VerbatimTo, IsAfterSeparator, FlagTo
<1> HIDE DEF a, r, next
<1>7. CASE Takes(c, a)
  <2>1. ReadFlag(c, r, a) = WithFlag(r, {a})
    BY <1>4, <1>5, <1>7, Zenon DEF ReadFlag, WithFlag
  <2>2. FlagTo(c, words, p + 1) = {a}
    BY <1>3, <1>7, Zenon DEF FlagTo, a
  <2>3. HelpTo(c, words, p + 1) = HelpTo(c, words, p)
    BY <1>3, <1>4, <1>7, Zenon DEF HelpTo, IsHelpTo
  <2>4. OptionsTo(c, words, p + 1) = OptionsTo(c, words, p)
    <3>1. SameValues(c, words, p, p + 1, {})
      BY <1>4, <1>7, OptionsKept DEF a
    <3>2. QED
      BY <3>1, NoOptionChanged
  <2>5. WithFlag(r, {a}) = Parsed({a}, VerbatimTo(c, words, p), HelpTo(c, words, p), OptionsTo(c, words, p))
    BY FlagRead DEF r
  <2>6. next = Parsed(FlagTo(c, words, p + 1), VerbatimTo(c, words, p + 1),
                      HelpTo(c, words, p + 1), OptionsTo(c, words, p + 1))
    BY DEF ParsedTo, next
  <2>7. WithFlag(r, {a}) = next
    BY <1>6, <2>2, <2>3, <2>4, <2>5, <2>6
  <2>8. QED
    BY <1>1, <1>2, <1>7, <2>1, <2>7, Zenon DEF a, r, next
<1>8. CASE a \in HelpFlags
  <2>1. ~Takes(c, a) /\ ReadFlag(c, r, a) = WithHelp(r, Yes)
    BY <1>4, <1>5, <1>8, Zenon DEF ReadFlag, WithHelp, Yes
  <2>2. FlagTo(c, words, p + 1) = {}
    BY <1>3, <2>1, Zenon DEF FlagTo
  <2>3. HelpTo(c, words, p + 1) = Yes
    BY <1>3, <1>8, Zenon DEF HelpTo, IsHelpTo, Yes
  <2>4. OptionsTo(c, words, p + 1) = OptionsTo(c, words, p)
    <3>1. \A o : ~Gives(c, words, o, p + 1)
      BY <1>4, <1>8, <2>1, Zenon DEF Gives, a
    <3>2. SameValues(c, words, p, p + 1, {})
      BY <1>4, <1>8, <3>1, OptionsKept DEF a
    <3>3. QED
      BY <3>2, NoOptionChanged
  <2>5. WithHelp(r, Yes) = Parsed(FlagTo(c, words, p), VerbatimTo(c, words, p), Yes, OptionsTo(c, words, p))
    BY HelpRead DEF r
  <2>6. next = Parsed(FlagTo(c, words, p + 1), VerbatimTo(c, words, p + 1),
                      HelpTo(c, words, p + 1), OptionsTo(c, words, p + 1))
    BY DEF ParsedTo, next
  <2>7. WithHelp(r, Yes) = next
    BY <1>6, <2>2, <2>3, <2>4, <2>5, <2>6
  <2>8. HasMeaning(c, words, p + 1)
    BY <1>8, Zenon DEF HasMeaning, a
  <2>9. QED
    BY <1>1, <1>2, <2>1, <2>7, <2>8, Zenon DEF a, r, next
\* when it gives the option k the value it has after the word
<1>9. ASSUME NEW k \in Named(c), ~Takes(c, a), a \notin HelpFlags,
             \A o \in Named(c) : o # k => ~Gives(c, words, o, p + 1) /\ ~(Switches(c, a) /\ SwitchOf(a) = o)
      PROVE  Put(r, k, ValueTo(c, words, k, p + 1)) = next
  <2>1. SameValues(c, words, p, p + 1, {k})
    BY <1>9, OptionsKept DEF a
  <2>2. /\ ~Waits(c, words, p + 1) /\ (IsHelpTo(c, words, p + 1) <=> IsHelpTo(c, words, p))
        /\ IsAfterSeparator(c, words, p + 1) <=> IsAfterSeparator(c, words, p)
    BY <1>3, <1>9
  <2> DEFINE v == ValueTo(c, words, k, p + 1)
  <2>3. OnlyOption(c, words, p, p + 1, k, v)
    BY <1>9, <2>1, <2>2, Zenon DEF OnlyOption
  <2> HIDE DEF v
  <2>4. Put(r, k, v) = next
    BY <2>3, OptionRead, SMT DEF r, next
  <2>5. QED
    BY <2>4 DEF v
<1>10. CASE Switches(c, a)
  <2> DEFINE k == SwitchOf(a)
  <2>1. ~Takes(c, a) /\ a \notin HelpFlags /\ a \notin DOMAIN Jobs /\ a \notin Plain
    BY <1>4, <1>10
  <2>2. k \in Switched(c) /\ k \in Named(c)
    BY <1>10, OptionKinds DEF Switches, Named
  <2> HIDE DEF k
  <2>3. ReadFlag(c, r, a) = Put(r, k, Yes)
    BY <1>5, <1>10, <2>1, Zenon DEF ReadFlag, Yes, k
  <2>4. \A o : ~Gives(c, words, o, p + 1)
    BY <2>1, Zenon DEF Gives, a
  <2>5. ValueTo(c, words, k, p + 1) = Yes
    <3>1. ValueTo(c, words, k, p + 1) = IsOnTo(c, words, k, p + 1)
      BY <2>2, ValueToKinds
    <3>2. IsOnTo(c, words, k, p + 1)
      BY <1>10, NextFlag, Zenon DEF a, k
    <3>3. IsOnTo(c, words, k, p + 1) = Yes
      BY <3>2, Zenon DEF IsOnTo, Yes
    <3>4. QED
      BY <3>1, <3>3
  <2>6. \A o \in Named(c) : o # k => ~Gives(c, words, o, p + 1) /\ ~(Switches(c, a) /\ SwitchOf(a) = o)
    BY <2>4, Zenon DEF k
  <2>7. Put(r, k, ValueTo(c, words, k, p + 1)) = next
    BY <1>9, <2>1, <2>2, <2>6, Zenon
  <2>8. HasMeaning(c, words, p + 1)
    BY <1>10, Zenon DEF HasMeaning, Switches, a
  <2>9. ReadFlag(c, r, a) = next
    BY <2>3, <2>5, <2>7
  <2>10. QED
    BY <1>1, <1>2, <2>8, <2>9, Zenon DEF a, r, next
<1>11. CASE c = "run" /\ a \in DOMAIN Jobs
  <2> DEFINE j == Jobs[a]
  <2>1. ~Takes(c, a) /\ a \notin HelpFlags /\ ~Switches(c, a) /\ a \notin Plain
    BY <1>4, <1>11
  <2>2. "threads" \in Singles[c] /\ "threads" \in Named(c) /\ "threads" \notin Lists.run
    BY <1>11, OptionKinds DEF Named
  <2> HIDE DEF j
  <2>3. ReadFlag(c, r, a) = Store(r, "threads", j)
    BY <1>5, <1>11, <2>1, Zenon DEF ReadFlag, j
  <2>4. \A o : Gives(c, words, o, p + 1) <=> o = "threads"
    BY <1>11, <2>1, Zenon DEF Gives, a
  <2>5. HasMeaning(c, words, p + 1) <=> j \in DOMAIN Number
    BY <1>11, <2>1, Zenon DEF HasMeaning, Switches, a, j
  <2>6. CASE j \notin DOMAIN Number
    <3>1. Store(r, "threads", j) = Fail(r)
      BY <2>2, <2>6, Zenon DEF Store
    <3>2. Fail(r).failed = Yes
      BY FlagRead DEF r
    <3>3. QED
      BY <1>1, <1>2, <2>1, <2>3, <2>5, <2>6, <3>1, <3>2, Zenon DEF a, r
  <2>7. CASE j \in DOMAIN Number
    <3>1. Store(r, "threads", j) = Put(r, "threads", {Number[j]})
      BY <2>2, <2>7, Zenon DEF Store
    <3>2. ValueTo(c, words, "threads", p + 1) = {Number[j]}
      <4> DEFINE new == Arguments(c, words, GivesTo(c, words, "threads", p + 1))
      <4>1. ValueTo(c, words, "threads", p + 1) = Chosen("threads", new)
        BY <2>2, ValueToKinds
      <4>2. Argument(c, words, p + 1) = j
        BY <1>11, <2>1, Zenon DEF Argument, a, j
      <4>3. new # <<>> /\ Last(new) = j
        <5>1. Gives(c, words, "threads", p + 1) /\ ~Takes(c, words[p + 1])
          BY <2>1, <2>4 DEF a
        <5>2. QED
          BY <4>2, <5>1, NextArgument
      <4> HIDE DEF new
      <4>4. QED
        BY <4>1, <4>3, Zenon DEF Chosen
    <3>3. \A o \in Named(c) : o # "threads" => ~Gives(c, words, o, p + 1) /\ ~(Switches(c, a) /\ SwitchOf(a) = o)
      BY <2>1, <2>4, Zenon
    <3>4. Put(r, "threads", ValueTo(c, words, "threads", p + 1)) = next
      BY <1>9, <2>1, <2>2, <3>3, Zenon
    <3>5. ReadFlag(c, r, a) = next
      BY <2>3, <3>1, <3>2, <3>4
    <3>6. QED
      BY <1>1, <1>2, <2>5, <2>7, <3>5, Zenon DEF a, r, next
  <2>8. QED
    BY <2>6, <2>7
<1>12. CASE c = "merge" /\ a \in Plain
  <2>1. ~Takes(c, a) /\ a \notin HelpFlags /\ ~Switches(c, a) /\ a \notin DOMAIN Jobs /\ c # "run"
    BY <1>4, <1>12
  <2>2. "inputs" \in Lists[c] \ {"arguments"} /\ "inputs" \in Named(c)
    BY OptionKinds DEF Named
  <2>3. ReadFlag(c, r, a) = Put(r, "inputs", Append(r.options["inputs"], a))
    BY <1>12, <2>1, Zenon DEF ReadFlag, Add
  <2>4. \A o : Gives(c, words, o, p + 1) <=> o = "inputs"
    BY <1>12, <2>1, Zenon DEF Gives, a
  <2>5. HasMeaning(c, words, p + 1)
    BY <1>12, Zenon DEF HasMeaning, a
  <2>6. ValueTo(c, words, "inputs", p + 1) = Append(r.options["inputs"], a)
    <3>1. Argument(c, words, p + 1) = a
      BY <2>1, Zenon DEF Argument, a
    <3>2. Gives(c, words, "inputs", p + 1) /\ ~Takes(c, words[p + 1])
      BY <2>1, <2>4 DEF a
    <3>3. Arguments(c, words, GivesTo(c, words, "inputs", p + 1)) =
            Append(Arguments(c, words, GivesTo(c, words, "inputs", p)), a)
      BY <3>1, <3>2, NextArgument
    <3>4. r.options = OptionsTo(c, words, p)
      BY ParsedToFields DEF r
    <3>5. OptionsTo(c, words, p)["inputs"] = Arguments(c, words, GivesTo(c, words, "inputs", p))
      <4>1. ValueTo(c, words, "inputs", p) = Arguments(c, words, GivesTo(c, words, "inputs", p))
        BY <2>2, ValueToKinds
      <4>2. QED
        BY <2>2, <4>1, Zenon DEF OptionsTo
    <3>6. ValueTo(c, words, "inputs", p + 1) = Arguments(c, words, GivesTo(c, words, "inputs", p + 1))
      BY <2>2, ValueToKinds
    <3>7. QED
      BY <3>3, <3>4, <3>5, <3>6, Zenon
  <2>7. \A o \in Named(c) : o # "inputs" => ~Gives(c, words, o, p + 1) /\ ~(Switches(c, a) /\ SwitchOf(a) = o)
    BY <2>1, <2>4, Zenon
  <2>8. Put(r, "inputs", ValueTo(c, words, "inputs", p + 1)) = next
    BY <1>9, <2>1, <2>2, <2>7, Zenon
  <2>9. ReadFlag(c, r, a) = next
    BY <2>3, <2>6, <2>8
  <2>10. QED
    BY <1>1, <1>2, <2>5, <2>9, Zenon DEF a, r, next
<1>13. CASE /\ ~Takes(c, a) /\ a \notin HelpFlags /\ ~Switches(c, a)
            /\ ~(c = "run" /\ a \in DOMAIN Jobs) /\ ~(c = "merge" /\ a \in Plain)
  <2>1. ReadFlag(c, r, a) = Fail(r)
    BY <1>5, <1>13, Zenon DEF ReadFlag
  <2>2. ~HasMeaning(c, words, p + 1)
    BY <1>13 DEF HasMeaning, Switches, a
  <2>3. Fail(r).failed = Yes
    BY FlagRead DEF r
  <2>4. QED
    BY <1>1, <1>2, <1>13, <2>1, <2>2, <2>3, Zenon DEF a, r
<1>14. QED
  BY <1>7, <1>8, <1>10, <1>11, <1>12, <1>13, Zenon

\* The next word, wherever it stands.
LEMMA NextWord ==
  ASSUME NEW c \in Commands, NEW words, IsWords(words), NEW p \in 0 .. Len(words) - 1, UnderstoodTo(c, words, p)
  PROVE  LET read == Read(c, ParsedTo(c, words, p), words[p + 1])
         IN /\ UnderstoodTo(c, words, p + 1) => read = ParsedTo(c, words, p + 1)
            /\ ~UnderstoodTo(c, words, p + 1) => read.failed = Yes
<1>1. CASE IsAfterSeparator(c, words, p)
  BY <1>1, WordAfterSeparator
<1>2. CASE Waits(c, words, p)
  BY <1>2, WordOfFlag
<1>3. CASE ~IsAfterSeparator(c, words, p) /\ ~Waits(c, words, p) /\ c = "run" /\ words[p + 1] = "--"
  BY <1>3, WordSeparates
<1>4. CASE ~IsAfterSeparator(c, words, p) /\ ~Waits(c, words, p) /\ ~(c = "run" /\ words[p + 1] = "--")
  <2>1. p + 1 \in Flags(c, words)
    <3>1. ~IsArgument(c, words, p + 1)
      BY <1>4, FreeWord
    <3>2. ~IsAfterSeparator(c, words, p + 1)
      BY <1>4, NextSeparator
    <3>3. p + 1 \in DOMAIN words /\ DOMAIN words \subseteq Nat
      BY DEF IsWords
    <3>4. QED
      BY <3>1, <3>2, <3>3, FlagPosition
  <2>2. QED
    BY <1>4, <2>1, WordIsFlag
<1>5. QED
  BY <1>1, <1>2, <1>3, <1>4

\* Before the first word nothing was read.
LEMMA NothingAtFirst ==
  ASSUME NEW c \in Commands, NEW words, IsWords(words)
  PROVE  UnderstoodTo(c, words, 0) /\ ParsedTo(c, words, 0) = NothingRead(c)
<1>1. FlagsTo(c, words, 0) = {} /\ ~IsAfterSeparator(c, words, 0) /\ ~Waits(c, words, 0)
  <2>1. 0 \notin DOMAIN words /\ \A q \in DOMAIN words : q \in Nat /\ ~(q <= 0)
    BY DEF IsWords
  <2>2. \A q \in Flags(c, words) \cup Separators(c, words) : q \in DOMAIN words
    BY DEF Flags, Separators
  <2>3. QED
    BY <2>1, <2>2 DEF FlagsTo, IsAfterSeparator, Waits
<1>2. UnderstoodTo(c, words, 0)
  BY <1>1 DEF UnderstoodTo
<1>3. \A o : GivesTo(c, words, o, 0) = {} /\ ~IsOnTo(c, words, o, 0)
  BY <1>1 DEF GivesTo, IsOnTo
<1>4. Arguments(c, words, {}) = <<>>
  <2>1. Cardinality({}) = 0
    BY FS_EmptySet
  <2>2. DOMAIN InOrder({}) = {}
    BY <2>1 DEF InOrder
  <2>3. QED
    BY <2>2 DEF Arguments
<1>5. OptionsTo(c, words, 0) = Defaults(c)
  <2>1. ASSUME NEW o \in Named(c)
        PROVE  OptionsTo(c, words, 0)[o] = Defaults(c)[o]
    <3>1. OptionsTo(c, words, 0)[o] = ValueTo(c, words, o, 0)
      BY DEF OptionsTo
    <3>2. Defaults(c)[o] = CASE o \in Singles[c] -> {} [] o \in Lists[c] -> <<>> [] OTHER -> FALSE
      BY DEF Defaults
    <3>3. CASE o \in Singles[c]
      <4>1. ValueTo(c, words, o, 0) = Chosen(o, <<>>)
        BY <1>3, <1>4, <3>3, ValueToKinds, Zenon
      <4>2. o \notin Lists[c]
        BY <3>3, OptionKinds
      <4>3. QED
        BY <3>1, <3>2, <3>3, <4>1, <4>2, Zenon DEF Chosen
    <3>4. CASE o \in Lists[c]
      <4>1. ValueTo(c, words, o, 0) = <<>>
        <5>1. WordsTo(c, words, 0) = <<>>
          BY <1>1, Zenon DEF WordsTo
        <5>2. QED
          BY <1>3, <1>4, <3>4, <5>1, ValueToKinds
      <4>2. o \notin Singles[c]
        BY <3>4, OptionKinds
      <4>3. QED
        BY <3>1, <3>2, <3>4, <4>1, <4>2, Zenon
    <3>5. CASE o \in Switched(c)
      <4>1. ValueTo(c, words, o, 0) = IsOnTo(c, words, o, 0)
        BY <3>5, ValueToKinds
      <4>2. IsOnTo(c, words, o, 0) = FALSE
        BY <1>3, Zenon DEF IsOnTo
      <4>3. o \notin Singles[c] /\ o \notin Lists[c]
        BY <3>5, OptionKinds
      <4>4. QED
        BY <3>1, <3>2, <4>1, <4>2, <4>3, Zenon
    <3>6. QED
      BY <3>3, <3>4, <3>5 DEF Named
  <2>2. DOMAIN OptionsTo(c, words, 0) = Named(c) /\ DOMAIN Defaults(c) = Named(c)
    BY DEF OptionsTo, Defaults
  <2>3. /\ OptionsTo(c, words, 0) = [o \in Named(c) |-> OptionsTo(c, words, 0)[o]]
        /\ Defaults(c) = [o \in Named(c) |-> Defaults(c)[o]]
    BY DEF OptionsTo, Defaults
  <2>4. QED
    BY <2>1, <2>3
<1>6. /\ FlagTo(c, words, 0) = {} /\ VerbatimTo(c, words, 0) = No /\ HelpTo(c, words, 0) = No
  <2>1. FlagTo(c, words, 0) = {}
    BY <1>1, Zenon DEF FlagTo
  <2>2. VerbatimTo(c, words, 0) = No
    BY <1>1, Zenon DEF VerbatimTo, IsAfterSeparator, No
  <2>3. ~IsHelpTo(c, words, 0)
    BY <1>1 DEF IsHelpTo
  <2>4. HelpTo(c, words, 0) = No
    BY <2>3, Zenon DEF HelpTo, IsHelpTo, No
  <2>5. QED
    BY <2>1, <2>2, <2>4
<1>7. ParsedTo(c, words, 0) = Record({}, No, No, No, Defaults(c))
  BY <1>5, <1>6 DEF ParsedTo, Parsed
<1>8. QED
  BY <1>2, <1>7, Zenon DEF Record, NothingRead, No

\* What was read after any number of words.
LEMMA WordsRead ==
  ASSUME NEW c \in Commands, NEW words, IsWords(words), NEW p \in 0 .. Len(words)
  PROVE  /\ UnderstoodTo(c, words, p) => Reading(c, words)[p] = ParsedTo(c, words, p)
         /\ ~UnderstoodTo(c, words, p) => Reading(c, words)[p].failed = Yes
<1> DEFINE Right(n) == /\ UnderstoodTo(c, words, n) => Reading(c, words)[n] = ParsedTo(c, words, n)
                       /\ ~UnderstoodTo(c, words, n) => Reading(c, words)[n].failed = Yes
           T == {n \in 0 .. Len(words) : ~Right(n)}
<1> SUFFICES ASSUME T # {}
             PROVE  FALSE
  OBVIOUS
<1>1. Len(words) \in Nat /\ T \subseteq Nat
  BY DEF IsWords
<1>2. PICK m \in T : \A n \in T : m <= n
  BY <1>1, LeastExists
<1>3. Len(words) \in Nat /\ m \in 0 .. Len(words) /\ ~Right(m) /\ \A n \in 0 .. Len(words) : n < m => Right(n)
  BY <1>1, <1>2
<1>4. /\ Reading(c, words)[0] = NothingRead(c)
      /\ \A i \in 1 .. Len(words) : Reading(c, words)[i] = Read(c, Reading(c, words)[i - 1], words[i])
  BY <1>1, ReadingEquation
<1>5. CASE m = 0
  BY <1>3, <1>4, <1>5, NothingAtFirst, Zenon
<1>6. CASE m # 0
  <2>1. PICK q \in 0 .. Len(words) - 1 : m = q + 1
    <3>1. m - 1 \in 0 .. Len(words) - 1 /\ m = (m - 1) + 1
      BY <1>3, <1>6
    <3>2. QED
      BY <3>1
  <2>2. q \in 0 .. Len(words) /\ q < m /\ q + 1 \in 1 .. Len(words) /\ (q + 1) - 1 = q
    BY <1>3, <2>1
  <2>3. Right(q)
    BY <1>3, <2>2
  <2>4. Reading(c, words)[q + 1] = Read(c, Reading(c, words)[q], words[q + 1])
    BY <1>4, <2>2
  <2>5. CASE UnderstoodTo(c, words, q)
    <3>1. Reading(c, words)[q + 1] = Read(c, ParsedTo(c, words, q), words[q + 1])
      BY <2>3, <2>4, <2>5
    <3>2. Right(q + 1)
      BY <2>5, <3>1, NextWord
    <3>3. QED
      BY <1>3, <2>1, <3>2
  <2>6. CASE ~UnderstoodTo(c, words, q)
    <3>1. ~UnderstoodTo(c, words, q + 1)
      BY <2>6, UnderstoodBefore
    <3>2. Reading(c, words)[q].failed = Yes
      BY <2>3, <2>6
    <3>3. Reading(c, words)[q + 1] = Reading(c, words)[q]
      BY <2>4, <3>2, Zenon DEF Read, Yes
    <3>4. QED
      BY <1>3, <2>1, <3>1, <3>2, <3>3
  <2>7. QED
    BY <2>5, <2>6
<1>7. QED
  BY <1>5, <1>6

\* When every word is understood, what was read in the end is what they give.
LEMMA AllUnderstood ==
  ASSUME NEW c \in Commands, NEW words, IsWords(words), IsUnderstood(c, words)
  PROVE  LET parsed == ParseArguments(c, words)
         IN /\ parsed.failed = No /\ parsed.flag = {}
            /\ parsed.help = HelpTo(c, words, Len(words))
            /\ IsHelpTo(c, words, Len(words)) <=> \E p \in Flags(c, words) : words[p] \in HelpFlags
            /\ parsed.options = OptionsTo(c, words, Len(words))
            /\ \A o \in Named(c) : OptionsTo(c, words, Len(words))[o] = GivenValue(c, words, o)
<1> DEFINE n == Len(words)
<1>1. n \in Nat /\ n \in 0 .. n /\ \A q \in DOMAIN words : q \in Nat /\ q <= n
  BY DEF IsWords
<1>2. FlagsTo(c, words, n) = Flags(c, words)
  <2>1. \A q \in Flags(c, words) : q <= n
    BY <1>1 DEF Flags
  <2> HIDE DEF n
  <2>2. QED
    BY <2>1 DEF FlagsTo
<1>3. ~Waits(c, words, n)
  <2> SUFFICES ASSUME Waits(c, words, n)
               PROVE  FALSE
    OBVIOUS
  <2>1. n \in Flags(c, words) /\ Takes(c, words[n])
    BY DEF Waits
  <2>2. HasMeaning(c, words, n)
    BY <2>1 DEF IsUnderstood
  <2>3. /\ words[n] \notin DOMAIN Jobs /\ words[n] \notin Plain
        /\ words[n] \notin HelpFlags /\ words[n] \notin Alone[c]
    BY <2>1, FlagIsNoOther
  <2>4. n < Len(words)
    BY <2>2, <2>3 DEF HasMeaning
  <2>5. QED
    BY <1>1, <2>4
<1>4. UnderstoodTo(c, words, n)
  BY <1>2 DEF UnderstoodTo, IsUnderstood
<1>5. ParseArguments(c, words) = ParsedTo(c, words, n)
  BY <1>1, <1>4, WordsRead DEF ParseArguments
<1>6. /\ ParsedTo(c, words, n).failed = No /\ ParsedTo(c, words, n).flag = {}
      /\ ParsedTo(c, words, n).help = HelpTo(c, words, n)
      /\ ParsedTo(c, words, n).options = OptionsTo(c, words, n)
  <2>1. FlagTo(c, words, n) = {}
    BY <1>3, Zenon DEF FlagTo
  <2>2. ParsedTo(c, words, n).help = HelpTo(c, words, n)
    BY ParsedFields, SMT DEF ParsedTo
  <2>3. QED
    BY <2>1, <2>2, ParsedToFields
<1>7. IsHelpTo(c, words, n) <=> \E p \in Flags(c, words) : words[p] \in HelpFlags
  BY <1>2, Zenon DEF IsHelpTo
<1>8. ASSUME NEW o \in Named(c)
      PROVE  ValueTo(c, words, o, n) = GivenValue(c, words, o)
  <2>1. GivesTo(c, words, o, n) = {p \in Flags(c, words) : Gives(c, words, o, p)}
    <3>1. \A q \in Flags(c, words) : Takes(c, words[q]) => q < n
      BY <1>1, <1>3 DEF Waits, Flags
    <3> HIDE DEF n
    <3>2. QED
      BY <1>2, <3>1 DEF GivesTo
  <2>2. Arguments(c, words, GivesTo(c, words, o, n)) = Given(c, words, o)
    BY <2>1, Zenon DEF Given
  <2>3. WordsTo(c, words, n) = WordsAfter(c, words)
    <3>1. IsAfterSeparator(c, words, n) <=> Separators(c, words) # {}
      BY <1>1 DEF IsAfterSeparator, Separators
    <3>2. QED
      BY <3>1, Zenon DEF WordsTo, WordsAfter
  <2>4. IsOnTo(c, words, o, n) <=> IsSwitchedOn(c, words, o)
    BY <1>2, Zenon DEF IsOnTo, IsSwitchedOn
  <2>5. IsOnTo(c, words, o, n) = IsSwitchedOn(c, words, o)
    BY <2>4, Zenon DEF IsOnTo, IsSwitchedOn
  <2> HIDE DEF n
  <2>6. QED
    BY <2>2, <2>3, <2>5 DEF ValueTo, GivenValue
<1>9. \A o \in Named(c) : OptionsTo(c, words, n)[o] = GivenValue(c, words, o)
  BY <1>8 DEF OptionsTo
<1>10. QED
  BY <1>5, <1>6, <1>7, <1>9

\* When one is not, that is noticed.
LEMMA NotUnderstood ==
  ASSUME NEW c \in Commands, NEW words, IsWords(words), ~IsUnderstood(c, words)
  PROVE  ParseArguments(c, words).failed = Yes \/ ParseArguments(c, words).flag # {}
<1> DEFINE n == Len(words)
<1>1. n \in Nat /\ n \in 0 .. n /\ \A q \in DOMAIN words : q \in Nat /\ q <= n
  BY DEF IsWords
<1>2. CASE ~UnderstoodTo(c, words, n)
  BY <1>1, <1>2, WordsRead DEF ParseArguments
<1>3. CASE UnderstoodTo(c, words, n)
  <2>1. ParseArguments(c, words) = ParsedTo(c, words, n)
    BY <1>1, <1>3, WordsRead DEF ParseArguments
  <2>2. PICK q \in Flags(c, words) : ~HasMeaning(c, words, q)
    BY DEF IsUnderstood
  <2>3. q \in FlagsTo(c, words, n)
    BY <1>1, <2>2 DEF FlagsTo, Flags
  <2>4. q = n /\ Takes(c, words[q])
    BY <1>3, <2>2, <2>3 DEF UnderstoodTo
  <2>5. FlagTo(c, words, n) = {words[n]}
    BY <2>2, <2>4, Zenon DEF FlagTo, Waits
  <2>6. ParsedTo(c, words, n).flag = {words[n]}
    BY <2>5, ParsedToFields
  <2>7. QED
    BY <2>1, <2>6
<1>4. QED
  BY <1>2, <1>3

\* Of every command line and every environment main makes the options that
\* its words and variables give.
THEOREM ArgumentsAreUnderstood ==
  ASSUME NEW args \in Seq(STRING), args # <<>>, args[1] \in Commands,
         NEW env \in [Variables -> SUBSET STRING]
  PROVE  OptionsAreThoseGiven(args, env)
<1> DEFINE c == args[1]
           words == Tail(args)
           parsed == ParseArguments(c, words)
           cmd == ParseCommandLine(args)
           result == Main(args, env)
<1>1. /\ words \in Seq(STRING) /\ IsWords(words) /\ Len(args) \in Nat
      /\ Len(words) = Len(args) - 1 /\ (words = <<>> <=> Len(args) = 1)
  <2>1. words \in Seq(STRING) /\ Len(words) = Len(args) - 1
    BY HeadTailProperties
  <2>2. Len(args) \in Nat /\ Len(words) \in Nat /\ DOMAIN words = 1 .. Len(words)
    BY <2>1, LenProperties
  <2>3. words = <<>> <=> Len(words) = 0
    BY <2>1, EmptySeq
  <2>4. QED
    BY <2>1, <2>2, <2>3 DEF IsWords
<1>2. c \in Commands /\ c \notin HelpFlags /\ c \notin VersionFlags
  BY DEF Commands, HelpFlags, VersionFlags
<1> HIDE DEF c, words, parsed, cmd, result
<1>3. result = IF cmd.does \in Commands THEN [cmd EXCEPT !.options = ParseEnv(@, env)] ELSE cmd
  BY <1>2 DEF Main, c, cmd, result
<1>4. cmd = IF ~parsed.failed /\ parsed.flag = {}
            THEN [does |-> IF parsed.help \/ Len(args) = 1 THEN "help" ELSE c, options |-> parsed.options]
            ELSE [does |-> "fail"]
  BY <1>2 DEF ParseCommandLine, parsed, words, c, cmd
<1>5. CASE ~IsUnderstood(c, words)
  <2>1. ~(~parsed.failed /\ parsed.flag = {})
    BY <1>1, <1>2, <1>5, NotUnderstood, Zenon DEF parsed, Yes
  <2>2. cmd = [does |-> "fail"]
    BY <1>4, <2>1, Zenon
  <2>3. cmd.does = "fail" /\ "fail" \notin Commands
    BY <2>2 DEF Commands
  <2>4. result.does = "fail"
    BY <1>3, <2>3
  <2>5. QED
    BY <1>5, <2>4, Zenon DEF OptionsAreThoseGiven, c, words, result
<1>6. CASE IsUnderstood(c, words)
  <2> DEFINE n == Len(words)
             values == OptionsTo(c, words, n)
             helped == \E p \in Flags(c, words) : words[p] \in HelpFlags
  <2>1. /\ parsed.failed = No /\ parsed.flag = {} /\ parsed.help = HelpTo(c, words, n)
        /\ IsHelpTo(c, words, n) <=> helped
        /\ parsed.options = values
        /\ \A o \in Named(c) : values[o] = GivenValue(c, words, o)
    BY <1>1, <1>2, <1>6, AllUnderstood DEF parsed
  <2>2. DOMAIN values = Named(c)
    BY DEF OptionsTo
  <2>3. parsed.help <=> helped
    BY <2>1, Zenon DEF HelpTo
  <2> HIDE DEF n, values, helped
  <2>4. cmd = [does |-> IF helped \/ words = <<>> THEN "help" ELSE c, options |-> values]
    <3>1. ~parsed.failed
      BY <2>1, Zenon DEF No
    <3>2. QED
      BY <1>1, <1>4, <2>1, <2>3, <3>1, Zenon
  <2>5. CASE helped \/ words = <<>>
    <3>1. cmd = [does |-> "help", options |-> values]
      BY <2>4, <2>5, Zenon
    <3>2. cmd.does = "help" /\ "help" \notin Commands
      BY <3>1 DEF Commands
    <3>3. result.does = "help" /\ "help" # c
      BY <1>2, <1>3, <3>2
    <3>4. QED
      BY <1>6, <2>5, <3>3, Zenon DEF OptionsAreThoseGiven, c, words, result, helped
  <2>6. CASE ~(helped \/ words = <<>>)
    <3>1. cmd = [does |-> c, options |-> values]
      BY <2>4, <2>6, Zenon
    <3>2. result.does = c /\ result.options = ParseEnv(values, env)
      <4>1. cmd.does = c /\ cmd.options = values
        BY <3>1
      <4>2. result = [cmd EXCEPT !.options = ParseEnv(cmd.options, env)]
        BY <1>2, <1>3, <4>1
      <4>3. QED
        BY <3>1, <4>1, <4>2
    <3>3. ASSUME NEW o \in Named(c)
          PROVE  result.options[o] =
                   CASE o \in {"home", "name", "version"} /\ GivenValue(c, words, o) = {} -> env[o]
                     [] o = "local" -> GivenValue(c, words, o) \/ env.local # {}
                     [] OTHER -> GivenValue(c, words, o)
      <4>1. result.options[o] =
              CASE o \in {"home", "name", "version"} /\ values[o] = {} -> env[o]
                [] o = "local" -> values.local \/ IsEnvTrue(env.local)
                [] OTHER -> values[o]
        BY <2>2, <3>2 DEF ParseEnv
      <4>2. values[o] = GivenValue(c, words, o)
        BY <2>1
      <4>3. IsEnvTrue(env.local) <=> env.local # {}
        <5>1. \A val : Differs(val)
          BY DEF Differs
        <5>2. QED
          BY <5>1 DEF IsEnvTrue
      <4>4. CASE o = "local"
        BY <4>1, <4>2, <4>3, <4>4, Zenon
      <4>5. CASE o # "local"
        BY <4>1, <4>2, <4>5, Zenon
      <4>6. QED
        BY <4>4, <4>5
    <3>4. QED
      BY <1>6, <2>6, <3>2, <3>3, Zenon DEF OptionsAreThoseGiven, c, words, result, helped
  <2>7. QED
    BY <2>5, <2>6
<1>7. QED
  BY <1>5, <1>6
-----------------------------------------------------------------------------

\* The run's properties, of the lines and environments it tries: no line is
\* read as other than its words say, whatever they are (main, parseCommandLine
\* and parseEnv).
THEOREM WordsAreAlwaysUnderstood == Spec => []WordsAreUnderstood
<1>1. \A args \in Tried, env \in Environments : OptionsAreThoseGiven(args, env)
  <2> SUFFICES ASSUME NEW args \in Tried, NEW env \in Environments
               PROVE  OptionsAreThoseGiven(args, env)
    OBVIOUS
  <2>1. /\ args \in Seq(STRING) /\ args # <<>> /\ args[1] \in Commands
        /\ env \in [Variables -> SUBSET STRING]
    BY TriedAssumption
  <2>2. QED
    BY <2>1, ArgumentsAreUnderstood
<1>2. WordsAreUnderstood
  BY <1>1, Zenon DEF WordsAreUnderstood
<1>3. QED
  BY <1>2, PTL

-----------------------------------------------------------------------------
(* The course of a run: the inductive invariant.                           *)

Scanning == {"list", "tasks", "close", "merge", "remove"}
AfterLoad == Scanning \cup {"init", "translate"}

\* What the options say of a run that has come so far.
OptionsInv ==
  /\ pc # "off" <=> exit = Running
  /\ pc # "off" => options \in Options
  /\ pc = "load" => Scans
  /\ pc \in AfterLoad => options.does \in {"files", "database"}
  /\ pc \in {"merge", "remove"} => options.remap

IsOwn(s) == s.by = run /\ s.units = fed

\* What is on the disk when a run has come so far.
DiskInv ==
  /\ pc \in {"check", "load", "init"} => fed = {}
  /\ pc \in {"load", "init"} => disk.out = NoFile
  /\ pc \in {"translate", "list", "tasks", "close"} =>
       /\ IsOwn(disk[Target]) /\ ~disk[Target].finished
       /\ options.remap => disk.out = NoFile
  /\ pc = "merge" =>
       /\ IsOwn(disk.tmp) /\ disk.tmp.finished
       /\ disk.out.by = run /\ disk.out.units = {} /\ ~disk.out.finished
  /\ pc = "remove" => IsOwn(disk.out) /\ disk.out.finished

\* What was done of each command, and what is left to do.
CommandsInv ==
  /\ pc \in {"check", "load", "init", "translate"} =>
       /\ parses = <<>> /\ builds = <<>> /\ against = <<>>
       /\ list = {} /\ tasks = {}
  /\ DOMAIN parses \subseteq DOMAIN commands
  /\ DOMAIN builds = DOMAIN parses /\ DOMAIN against = DOMAIN parses
  /\ \A i \in DOMAIN commands : commands[i].header # NoHeader => commands[i].header \in Headers
  /\ pc \in Scanning => DOMAIN parses = DOMAIN commands
  /\ pc \in Scanning \ {"list"} => list = {}
  /\ pc \in Scanning \ {"list", "tasks"} => tasks = {}
  /\ pc \in Scanning => \A i \in DOMAIN commands :
       /\ i \in list \cup tasks => commands[i].translates /\ parses[i] = 0 /\ builds[i] = 0
       /\ i \in list /\ options.threads => Emits(commands[i])
       /\ i \in tasks => options.threads /\ IsAccepted(i) /\ ~Emits(commands[i])
       /\ i \notin list \cup tasks => Done(i)

\* With threads, nothing that needs a header is parsed before all are compiled.
HeadersInv ==
  pc = "list" /\ options.threads =>
    \A i \in DOMAIN commands : ~Emits(commands[i]) => parses[i] = 0

IInv ==
  /\ TypeOK
  /\ OptionsInv
  /\ DiskInv
  /\ SuccessLeavesOwnSnapshot
  /\ PathsAreFree
  /\ CommandsInv
  /\ EveryCommandOnce
  /\ HeadersInv
  /\ NoStaleHeader

-----------------------------------------------------------------------------
USE CommandsAssumption, OptionsAssumption, ChildrenAssumption

\* A snapshot is known by its fields.
LEMMA NoFileType == NoFile \in Snapshot
  BY DEF NoFile, Snapshot

LEMMA SnapshotIsItsFields ==
  ASSUME NEW s \in Snapshot, NEW b, NEW u, s.by = b, s.units = u, s.finished
  PROVE  s = [by |-> b, units |-> u, finished |-> TRUE]
<1>1. s = [by |-> s.by, units |-> s.units, finished |-> s.finished]
  BY DEF Snapshot
<1>2. s.finished = TRUE
  BY DEF Snapshot
<1>3. QED
  BY <1>1, <1>2, Zenon

\* A command found among the inputs.
LEMMA FoundType ==
  ASSUME NEW f \in STRING
  PROVE  Found(f) \in Command
  BY DEF Found, Command

\* Before the first run nothing is on the disk.
LEMMA InitIInv == Init => IInv
  BY DEF Init, IInv, TypeOK, OptionsInv, DiskInv, SuccessLeavesOwnSnapshot, PathsAreFree, CommandsInv,
         EveryCommandOnce, HeadersInv, NoStaleHeader, NoFile, Snapshot, Scanning, AfterLoad, Running, NothingAsked

\* The steps that leave the disk, the headers and the work as they are, and
\* those of them that end the run.
LEMMA PlainSteps ==
  ASSUME IInv,
         ArgumentsRefused \/ HelpPrinted \/ OutputIsFree \/ OutputIsKept \/ DatabaseUnreadable
           \/ InputsExpanded \/ ListProcessed \/ ThreadsJoined \/ Crash
  PROVE  IInv'
<1> USE DEF Goto, End, files, history, work
<1>1. TypeOK'
  BY DEF IInv, TypeOK, ArgumentsRefused, HelpPrinted, OutputIsFree, OutputIsKept, DatabaseUnreadable,
         InputsExpanded, ListProcessed, ThreadsJoined, Crash
<1>2. OptionsInv'
  BY DEF IInv, OptionsInv, Scans, AfterLoad, Scanning, Running, ArgumentsRefused, HelpPrinted, OutputIsFree,
         OutputIsKept, DatabaseUnreadable, InputsExpanded, ListProcessed, ThreadsJoined, Crash
<1>3. DiskInv'
  BY DEF IInv, IsOwn, DiskInv, Target, ArgumentsRefused, HelpPrinted, OutputIsFree,
         OutputIsKept, DatabaseUnreadable, InputsExpanded, ListProcessed, ThreadsJoined, Crash
<1>4. SuccessLeavesOwnSnapshot' /\ PathsAreFree'
  BY DEF IInv, SuccessLeavesOwnSnapshot, PathsAreFree, OptionsInv, Running, ArgumentsRefused, HelpPrinted,
         OutputIsFree, OutputIsKept, DatabaseUnreadable, InputsExpanded, ListProcessed, ThreadsJoined, Crash
<1>5. CommandsInv'
  BY DEF IInv, CommandsInv, Scanning, Done, IsPresent, IsAccepted, ArgumentsRefused, HelpPrinted, OutputIsFree,
         OutputIsKept, DatabaseUnreadable, InputsExpanded, ListProcessed, ThreadsJoined, Crash
<1>6. EveryCommandOnce'
  BY DEF IInv, EveryCommandOnce, OptionsInv, Running, Done, IsPresent, IsAccepted, ArgumentsRefused, HelpPrinted,
         OutputIsFree, OutputIsKept, DatabaseUnreadable, InputsExpanded, ListProcessed, ThreadsJoined, Crash
<1>7. HeadersInv' /\ NoStaleHeader'
  BY DEF IInv, HeadersInv, NoStaleHeader, ArgumentsRefused, HelpPrinted,
         OutputIsFree, OutputIsKept, DatabaseUnreadable, InputsExpanded, ListProcessed, ThreadsJoined, Crash
<1>8. QED
  BY <1>1, <1>2, <1>3, <1>4, <1>5, <1>6, <1>7 DEF IInv

\* A run begins with nothing done.
LEMMA StartStep ==
  ASSUME IInv, Start
  PROVE  IInv'
<1> USE DEF Goto, End, files, history, work
<1>1. TypeOK'
  BY DEF IInv, TypeOK, Snapshot, NoFile, Start
<1>2. OptionsInv'
  BY DEF IInv, OptionsInv, Scans, AfterLoad, Scanning, Running, Start
<1>3. DiskInv'
  BY DEF IInv, TypeOK, OptionsInv, AfterLoad, Scanning, IsOwn, DiskInv, Target, Snapshot, NoFile, Start
<1>4. SuccessLeavesOwnSnapshot' /\ PathsAreFree'
  BY DEF IInv, TypeOK, Snapshot, IsOwn, DiskInv, Target, SuccessLeavesOwnSnapshot, PathsAreFree, OptionsInv, Scanning, AfterLoad, Running, Start
<1>5. CommandsInv'
  BY DEF IInv, TypeOK, OptionsInv, CommandsInv, Scanning, Done, IsPresent, IsAccepted, Start
<1>6. EveryCommandOnce'
  BY DEF IInv, EveryCommandOnce, CommandsInv, Scanning, AfterLoad, OptionsInv, Running, Done, IsPresent, IsAccepted, Start
<1>7. HeadersInv' /\ NoStaleHeader'
  BY DEF IInv, TypeOK, CommandsInv, HeadersInv, NoStaleHeader, Start
<1>8. QED
  BY <1>1, <1>2, <1>3, <1>4, <1>5, <1>6, <1>7 DEF IInv

\* Removing the output leaves its path free.
LEMMA RemoveStep ==
  ASSUME IInv, OutputIsRemoved
  PROVE  IInv'
<1> USE DEF Goto, End, files, history, work
<1>1. TypeOK'
  <2>1. disk' \in [out : Snapshot, tmp : Snapshot]
    BY NoFileType DEF IInv, TypeOK, OutputIsRemoved
  <2>2. commands' \in Seq(Command)
    BY DEF IInv, TypeOK, OutputIsRemoved
  <2>3. list' \subseteq DOMAIN commands' /\ tasks' \subseteq DOMAIN commands'
    BY DEF IInv, TypeOK, CommandsInv, OutputIsRemoved
  <2>4. QED
    BY <2>1, <2>2, <2>3 DEF IInv, TypeOK, OutputIsRemoved
<1>2. OptionsInv'
  BY DEF IInv, OptionsInv, Scans, AfterLoad, Scanning, Running, OutputIsRemoved
<1>3. DiskInv'
  BY DEF IInv, TypeOK, OptionsInv, AfterLoad, Scanning, IsOwn, DiskInv, Target, Snapshot, NoFile, OutputIsRemoved
<1>4. SuccessLeavesOwnSnapshot' /\ PathsAreFree'
  BY DEF IInv, TypeOK, Snapshot, IsOwn, DiskInv, Target, SuccessLeavesOwnSnapshot, PathsAreFree, OptionsInv, Scanning, AfterLoad, Running, OutputIsRemoved
<1>5. CommandsInv'
  BY DEF IInv, TypeOK, OptionsInv, CommandsInv, Scanning, Done, IsPresent, IsAccepted, OutputIsRemoved
<1>6. EveryCommandOnce'
  BY DEF IInv, EveryCommandOnce, CommandsInv, Scanning, AfterLoad, OptionsInv, Running, Done, IsPresent, IsAccepted, OutputIsRemoved
<1>7. HeadersInv' /\ NoStaleHeader'
  BY DEF IInv, TypeOK, CommandsInv, HeadersInv, NoStaleHeader, OutputIsRemoved
<1>8. QED
  BY <1>1, <1>2, <1>3, <1>4, <1>5, <1>6, <1>7 DEF IInv

\* The commands come from the database ...
LEMMA LoadStep ==
  ASSUME IInv, LoadDatabase
  PROVE  IInv'
<1> USE DEF Goto, End, files, history, work
<1>1. TypeOK'
  <2>1. disk' \in [out : Snapshot, tmp : Snapshot]
    BY NoFileType DEF IInv, TypeOK, LoadDatabase
  <2>2. commands' \in Seq(Command)
    BY DEF IInv, TypeOK, LoadDatabase
  <2>3. list' \subseteq DOMAIN commands' /\ tasks' \subseteq DOMAIN commands'
    BY DEF IInv, TypeOK, CommandsInv, LoadDatabase
  <2>4. QED
    BY <2>1, <2>2, <2>3 DEF IInv, TypeOK, LoadDatabase
<1>2. OptionsInv'
  BY DEF IInv, OptionsInv, Scans, AfterLoad, Scanning, Running, LoadDatabase
<1>3. DiskInv'
  BY DEF IInv, TypeOK, OptionsInv, AfterLoad, Scanning, IsOwn, DiskInv, Target, Snapshot, NoFile, LoadDatabase
<1>4. SuccessLeavesOwnSnapshot' /\ PathsAreFree'
  BY DEF IInv, TypeOK, Snapshot, IsOwn, DiskInv, Target, SuccessLeavesOwnSnapshot, PathsAreFree, OptionsInv, Scanning, AfterLoad, Running, LoadDatabase
<1>5. CommandsInv'
  <2>1. \A i \in DOMAIN commands' : commands'[i].header # NoHeader => commands'[i].header \in Headers
    BY DEF LoadDatabase, Headers
  <2>2. QED
    BY <2>1 DEF IInv, CommandsInv, Scanning, LoadDatabase
<1>6. EveryCommandOnce'
  BY DEF IInv, EveryCommandOnce, CommandsInv, Scanning, AfterLoad, OptionsInv, Running, Done, IsPresent, IsAccepted, LoadDatabase
<1>7. HeadersInv' /\ NoStaleHeader'
  BY DEF IInv, TypeOK, CommandsInv, HeadersInv, NoStaleHeader, LoadDatabase
<1>8. QED
  BY <1>1, <1>2, <1>3, <1>4, <1>5, <1>6, <1>7 DEF IInv

\* ... or from the inputs.
LEMMA ExpandStep ==
  ASSUME IInv, ExpandInput
  PROVE  IInv'
<1> USE DEF Goto, End, files, history, work
<1>1. TypeOK'
  <2>1. Head(queue) \in STRING /\ Tail(queue) \in Seq(STRING)
    BY HeadTailProperties DEF IInv, TypeOK, ExpandInput
  <2>2. queue' \in Seq(STRING)
    <3>1. CASE Head(queue) \in Directories
      <4>1. PICK s \in SetToSeqs(Wanted(Head(queue))) : queue' = Tail(queue) \o s
        BY <3>1 DEF ExpandInput
      <4>2. IsFiniteSet(Wanted(Head(queue))) /\ Wanted(Head(queue)) \subseteq STRING
        BY <3>1, ChildrenAssumption, FS_Subset DEF Wanted
      <4>3. Cardinality(Wanted(Head(queue))) \in Nat
        BY <4>2, FS_CardinalityType
      <4>4. s \in [1 .. Cardinality(Wanted(Head(queue))) -> STRING]
        BY <4>1, <4>2 DEF SetToSeqs
      <4>5. s \in Seq(STRING)
        BY <4>3, <4>4
      <4>6. QED
        BY <2>1, <4>1, <4>5
    <3>2. CASE Head(queue) \notin Directories
      BY <2>1, <3>2 DEF ExpandInput
    <3>3. QED
      BY <3>1, <3>2
  <2>3. commands' \in Seq(Command)
    <3>1. Found(Head(queue)) \in Command
      BY <2>1, FoundType
    <3>2. commands \in Seq(Command)
      BY DEF IInv, TypeOK
    <3>3. commands' = commands \/ commands' = Append(commands, Found(Head(queue)))
      BY DEF ExpandInput
    <3>4. QED
      BY <3>1, <3>2, <3>3
  <2>4. list' \subseteq DOMAIN commands' /\ tasks' \subseteq DOMAIN commands'
    BY DEF IInv, TypeOK, CommandsInv, ExpandInput
  <2>5. QED
    BY <2>2, <2>3, <2>4 DEF IInv, TypeOK, ExpandInput
<1>2. OptionsInv'
  BY DEF IInv, OptionsInv, Scans, AfterLoad, Scanning, Running, ExpandInput
<1>3. DiskInv'
  BY DEF IInv, TypeOK, OptionsInv, AfterLoad, Scanning, IsOwn, DiskInv, Target, Snapshot, NoFile, ExpandInput
<1>4. SuccessLeavesOwnSnapshot' /\ PathsAreFree'
  BY DEF IInv, TypeOK, Snapshot, IsOwn, DiskInv, Target, SuccessLeavesOwnSnapshot, PathsAreFree, OptionsInv, Scanning, AfterLoad, Running, ExpandInput
<1>5. CommandsInv'
  <2>1. \A i \in DOMAIN commands' : commands'[i].header # NoHeader => commands'[i].header \in Headers
    <3>1. CASE commands' = commands
      BY <3>1 DEF IInv, CommandsInv
    <3>2. CASE commands' = Append(commands, Found(Head(queue)))
      <4>1. Found(Head(queue)).header = NoHeader
        BY DEF Found
      <4>2. \A i \in DOMAIN commands' : (i \in DOMAIN commands /\ commands'[i] = commands[i]) \/ commands'[i] = Found(Head(queue))
        BY <3>2 DEF IInv, TypeOK
      <4>3. QED
        BY <4>1, <4>2 DEF IInv, CommandsInv
    <3>3. QED
      BY <3>1, <3>2 DEF ExpandInput
  <2>2. QED
    BY <2>1 DEF IInv, CommandsInv, Scanning, ExpandInput
<1>6. EveryCommandOnce'
  BY DEF IInv, EveryCommandOnce, CommandsInv, Scanning, AfterLoad, OptionsInv, Running, Done, IsPresent, IsAccepted, ExpandInput
<1>7. HeadersInv' /\ NoStaleHeader'
  BY DEF IInv, TypeOK, CommandsInv, HeadersInv, NoStaleHeader, ExpandInput
<1>8. QED
  BY <1>1, <1>2, <1>3, <1>4, <1>5, <1>6, <1>7 DEF IInv

\* initSnapshot finds its path free.
LEMMA InitSnapshotStep ==
  ASSUME IInv, InitSnapshot
  PROVE  IInv'
<1> USE DEF Goto, End, files, history, work
<1>0. /\ pc = "init" /\ pc' = "translate" /\ UNCHANGED <<run, options, exit>>
      /\ UNCHANGED <<header, queue, commands, list, tasks, builds, parses, against, fed>>
      /\ disk' \in [out : Snapshot, tmp : Snapshot]
      /\ disk'[Target].by = run /\ disk'[Target].units = {} /\ ~disk'[Target].finished
      /\ options.remap => disk'.out = NoFile
  <2>1. /\ pc = "init" /\ disk.out = NoFile
        /\ disk \in [out : Snapshot, tmp : Snapshot] /\ run \in 0..MaxRuns
    BY DEF IInv, TypeOK, DiskInv, InitSnapshot
  <2>2. Cleaned \in [out : Snapshot, tmp : Snapshot] /\ Cleaned.out = NoFile /\ Cleaned[Target] = NoFile
    BY <2>1, NoFileType DEF Cleaned, Target
  <2>3. /\ disk' = [Cleaned EXCEPT ![Target].by = run]
        /\ pc' = "translate" /\ UNCHANGED <<run, options, exit>>
    BY <2>1, <2>2 DEF InitSnapshot
  <2>4. disk'[Target].by = run /\ disk'[Target].units = {} /\ ~disk'[Target].finished
    BY <2>2, <2>3 DEF Target, NoFile
  <2>5. disk' \in [out : Snapshot, tmp : Snapshot] /\ (options.remap => disk'.out = NoFile)
    BY <2>1, <2>2, <2>3 DEF Target, Snapshot
  <2>6. QED
    BY <2>1, <2>3, <2>4, <2>5 DEF InitSnapshot
<1>1. TypeOK'
  BY <1>0 DEF IInv, TypeOK
<1>2. OptionsInv'
  BY <1>0 DEF IInv, OptionsInv, Scans, AfterLoad, Scanning
<1>3. DiskInv'
  BY <1>0 DEF IInv, DiskInv, IsOwn, Target
<1>4. SuccessLeavesOwnSnapshot' /\ PathsAreFree'
  BY <1>0 DEF IInv, OptionsInv, SuccessLeavesOwnSnapshot, PathsAreFree, Running
<1>5. CommandsInv'
  BY DEF IInv, TypeOK, OptionsInv, CommandsInv, Scanning, Done, IsPresent, IsAccepted, InitSnapshot
<1>6. EveryCommandOnce'
  BY DEF IInv, EveryCommandOnce, CommandsInv, Scanning, AfterLoad, OptionsInv, Running, Done, IsPresent, IsAccepted, InitSnapshot
<1>7. HeadersInv' /\ NoStaleHeader'
  BY DEF IInv, TypeOK, CommandsInv, HeadersInv, NoStaleHeader, InitSnapshot
<1>8. QED
  BY <1>1, <1>2, <1>3, <1>4, <1>5, <1>6, <1>7 DEF IInv

\* The commands are divided between the list and the tasks.
LEMMA TranslateStep ==
  ASSUME IInv, TranslateAndAdjust
  PROVE  IInv'
<1> USE DEF Goto, End, files, history, work
<1>1. TypeOK'
  <2>1. list' \subseteq DOMAIN commands /\ tasks' \subseteq DOMAIN commands
    BY DEF TranslateAndAdjust, Listed, Tasks
  <2>2. builds' \in Seq(Nat) /\ parses' \in Seq(Nat) /\ against' \in Seq(0 .. MaxRuns)
    BY DEF IInv, TypeOK, TranslateAndAdjust
  <2>3. QED
    BY <2>1, <2>2 DEF IInv, TypeOK, TranslateAndAdjust
<1>2. OptionsInv'
  BY DEF IInv, OptionsInv, Scans, AfterLoad, Scanning, Running, TranslateAndAdjust
<1>3. DiskInv'
  BY DEF IInv, TypeOK, OptionsInv, AfterLoad, Scanning, IsOwn, DiskInv, Target, Snapshot, NoFile, TranslateAndAdjust
<1>4. SuccessLeavesOwnSnapshot' /\ PathsAreFree'
  BY DEF IInv, TypeOK, Snapshot, IsOwn, DiskInv, Target, SuccessLeavesOwnSnapshot, PathsAreFree, OptionsInv, Scanning, AfterLoad, Running, TranslateAndAdjust
<1>5. CommandsInv'
  <2>1. DOMAIN builds' = DOMAIN commands /\ DOMAIN parses' = DOMAIN commands /\ DOMAIN against' = DOMAIN commands
    BY DEF IInv, TypeOK, TranslateAndAdjust
  <2>2. ASSUME NEW i \in DOMAIN commands
        PROVE  /\ parses'[i] = 0 /\ builds'[i] = 0
               /\ i \in list' \cup tasks' => commands[i].translates
               /\ i \in list' /\ options.threads => Emits(commands[i])
               /\ i \in tasks' => options.threads /\ IsAccepted(i) /\ ~Emits(commands[i])
    BY DEF TranslateAndAdjust, Listed, Tasks, IsAccepted
  <2>3. ASSUME NEW i \in DOMAIN commands, i \notin list' \cup tasks'
        PROVE  Done(i)'
    <3>1. ~commands[i].translates \/ (~IsAccepted(i) /\ ~Emits(commands[i]))
      BY <2>3 DEF TranslateAndAdjust, Listed, Tasks, IsAccepted
    <3>2. UNCHANGED commands
      BY DEF TranslateAndAdjust
    <3>3. QED
      BY <2>2, <3>1, <3>2 DEF Done, Once, IsPresent, IsAccepted
  <2>4. QED
    BY <2>1, <2>2, <2>3 DEF IInv, CommandsInv, TranslateAndAdjust, Scanning, IsAccepted
<1>6. EveryCommandOnce'
  BY DEF IInv, EveryCommandOnce, CommandsInv, Scanning, AfterLoad, OptionsInv, Running, Done, IsPresent, IsAccepted, TranslateAndAdjust
<1>7. HeadersInv' /\ NoStaleHeader'
  BY DEF IInv, TypeOK, CommandsInv, HeadersInv, NoStaleHeader, TranslateAndAdjust
<1>8. QED
  BY <1>1, <1>2, <1>3, <1>4, <1>5, <1>6, <1>7 DEF IInv

\* The end of a scan that does not renumber ...
LEMMA ReturnStep ==
  ASSUME IInv, Return
  PROVE  IInv'
<1>0. /\ pc = "close" /\ pc' = "off" /\ exit' = "success" /\ UNCHANGED <<run, options>>
      /\ UNCHANGED <<header, queue, commands, list, tasks, builds, parses, against, fed>>
      /\ disk' \in [out : Snapshot, tmp : Snapshot]
      /\ IsOwn(disk.out)' /\ disk'.out.finished /\ ~options.remap
  <2>1. /\ disk \in [out : Snapshot, tmp : Snapshot]
        /\ IsOwn(disk.out) /\ ~options.remap
    BY DEF IInv, TypeOK, DiskInv, Return, End, Target
  <2>2. disk' = [disk EXCEPT !.out.finished = TRUE] /\ run' = run /\ fed' = fed
    BY DEF Return, End, history
  <2>3. disk' \in [out : Snapshot, tmp : Snapshot] /\ disk'.out.finished
    BY <2>1, <2>2 DEF Snapshot
  <2>4. IsOwn(disk.out)'
    BY <2>1, <2>2 DEF Snapshot, IsOwn
  <2>5. QED
    BY <2>1, <2>3, <2>4 DEF Return, End, work, history
<1>1. TypeOK'
  BY <1>0 DEF IInv, TypeOK
<1>2. OptionsInv'
  BY <1>0 DEF IInv, OptionsInv, Scans, AfterLoad, Scanning, Running
<1>3. DiskInv'
  BY <1>0 DEF IInv, DiskInv, IsOwn, Target
<1>4. SuccessLeavesOwnSnapshot' /\ PathsAreFree'
  BY <1>0, SnapshotIsItsFields DEF IInv, TypeOK, IsOwn, SuccessLeavesOwnSnapshot, PathsAreFree
<1>5. CommandsInv'
  BY <1>0 DEF IInv, CommandsInv, Scanning, Done, IsPresent, IsAccepted
<1>6. EveryCommandOnce'
  BY <1>0 DEF IInv, CommandsInv, EveryCommandOnce, OptionsInv, Running, Scanning, Done, IsPresent, IsAccepted
<1>7. HeadersInv' /\ NoStaleHeader'
  BY <1>0 DEF IInv, HeadersInv, NoStaleHeader
<1>8. QED
  BY <1>1, <1>2, <1>3, <1>4, <1>5, <1>6, <1>7 DEF IInv

\* ... and of one that does.
LEMMA RemoveTmpStep ==
  ASSUME IInv, RemoveTmp
  PROVE  IInv'
<1>0. /\ pc = "remove" /\ pc' = "off" /\ exit' = "success" /\ UNCHANGED <<run, options>>
      /\ UNCHANGED <<header, queue, commands, list, tasks, builds, parses, against, fed>>
      /\ disk' \in [out : Snapshot, tmp : Snapshot]
      /\ IsOwn(disk.out)' /\ disk'.out.finished /\ disk'.tmp = NoFile
  <2>1. /\ disk \in [out : Snapshot, tmp : Snapshot]
        /\ IsOwn(disk.out) /\ disk.out.finished
    BY DEF IInv, TypeOK, DiskInv, RemoveTmp, End
  <2>2. disk' = [disk EXCEPT !.tmp = NoFile] /\ run' = run /\ fed' = fed
    BY DEF RemoveTmp, End, history
  <2>3. QED
    BY <2>1, <2>2, NoFileType DEF RemoveTmp, End, work, history, IsOwn
<1>1. TypeOK'
  BY <1>0 DEF IInv, TypeOK
<1>2. OptionsInv'
  BY <1>0 DEF IInv, OptionsInv, Scans, AfterLoad, Scanning, Running
<1>3. DiskInv'
  BY <1>0 DEF IInv, DiskInv, IsOwn, Target
<1>4. SuccessLeavesOwnSnapshot' /\ PathsAreFree'
  BY <1>0, SnapshotIsItsFields DEF IInv, TypeOK, IsOwn, SuccessLeavesOwnSnapshot, PathsAreFree
<1>5. CommandsInv'
  BY <1>0 DEF IInv, CommandsInv, Scanning, Done, IsPresent, IsAccepted
<1>6. EveryCommandOnce'
  BY <1>0 DEF IInv, CommandsInv, EveryCommandOnce, OptionsInv, Running, Scanning, Done, IsPresent, IsAccepted
<1>7. HeadersInv' /\ NoStaleHeader'
  BY <1>0 DEF IInv, HeadersInv, NoStaleHeader
<1>8. QED
  BY <1>1, <1>2, <1>3, <1>4, <1>5, <1>6, <1>7 DEF IInv

\* The output of the renumbering is free.
LEMMA OpenOutputStep ==
  ASSUME IInv, OpenOutput
  PROVE  IInv'
<1>0. /\ pc = "close" /\ pc' = "merge" /\ UNCHANGED <<run, options, exit>>
      /\ UNCHANGED <<header, queue, commands, list, tasks, builds, parses, against, fed>>
      /\ disk' \in [out : Snapshot, tmp : Snapshot]
      /\ options.remap
      /\ IsOwn(disk.tmp)' /\ disk'.tmp.finished
      /\ disk'.out.by = run /\ disk'.out.units = {} /\ ~disk'.out.finished
  <2>1. /\ disk \in [out : Snapshot, tmp : Snapshot] /\ run \in 0..MaxRuns
        /\ IsOwn(disk.tmp) /\ disk.out = NoFile /\ options.remap
    BY DEF IInv, TypeOK, DiskInv, OpenOutput, Target
  <2>2. /\ disk' = [disk EXCEPT !.out.by = run, !.tmp.finished = TRUE]
        /\ pc = "close" /\ pc' = "merge" /\ UNCHANGED <<run, options, exit, fed>>
    BY <2>1 DEF OpenOutput, Goto, history
  <2>3. disk' \in [out : Snapshot, tmp : Snapshot] /\ disk'.tmp.finished /\ IsOwn(disk.tmp)'
    BY <2>1, <2>2 DEF Snapshot, IsOwn
  <2>4. disk'.out.by = run /\ disk'.out.units = {} /\ ~disk'.out.finished
    BY <2>1, <2>2 DEF NoFile
  <2>5. QED
    BY <2>1, <2>2, <2>3, <2>4 DEF OpenOutput, work, history
<1>1. TypeOK'
  BY <1>0 DEF IInv, TypeOK
<1>2. OptionsInv'
  BY <1>0 DEF IInv, OptionsInv, Scans, AfterLoad, Scanning, Running
<1>3. DiskInv'
  BY <1>0 DEF IInv, DiskInv, IsOwn, Target
<1>4. SuccessLeavesOwnSnapshot' /\ PathsAreFree'
  BY <1>0 DEF IInv, OptionsInv, SuccessLeavesOwnSnapshot, PathsAreFree, Running
<1>5. CommandsInv'
  BY <1>0 DEF IInv, CommandsInv, Scanning, Done, IsPresent, IsAccepted
<1>6. EveryCommandOnce'
  BY <1>0 DEF IInv, CommandsInv, EveryCommandOnce, OptionsInv, Running, Scanning, Done, IsPresent, IsAccepted
<1>7. HeadersInv' /\ NoStaleHeader'
  BY <1>0 DEF IInv, HeadersInv, NoStaleHeader
<1>8. QED
  BY <1>1, <1>2, <1>3, <1>4, <1>5, <1>6, <1>7 DEF IInv

\* The renumbering copies all that was fed.
LEMMA MergeStep ==
  ASSUME IInv, Merge
  PROVE  IInv'
<1>0. /\ pc = "merge" /\ pc' = "remove" /\ UNCHANGED <<run, options, exit>>
      /\ UNCHANGED <<header, queue, commands, list, tasks, builds, parses, against, fed>>
      /\ disk' \in [out : Snapshot, tmp : Snapshot]
      /\ options.remap
      /\ IsOwn(disk.out)' /\ disk'.out.finished
  <2>1. /\ disk \in [out : Snapshot, tmp : Snapshot] /\ options.remap
        /\ IsOwn(disk.tmp) /\ disk.out.by = run
    BY DEF IInv, TypeOK, OptionsInv, DiskInv, Merge, Goto
  <2>2. /\ disk' = [disk EXCEPT !.out.units = disk.tmp.units, !.out.finished = TRUE]
        /\ run' = run /\ fed' = fed
    BY DEF Merge, Goto, history
  <2>3. disk' \in [out : Snapshot, tmp : Snapshot] /\ disk'.out.finished /\ IsOwn(disk.out)'
    BY <2>1, <2>2 DEF Snapshot, IsOwn
  <2>4. QED
    BY <2>1, <2>2, <2>3 DEF Merge, Goto, work, history
<1>1. TypeOK'
  BY <1>0 DEF IInv, TypeOK
<1>2. OptionsInv'
  BY <1>0 DEF IInv, OptionsInv, Scans, AfterLoad, Scanning, Running
<1>3. DiskInv'
  BY <1>0 DEF IInv, DiskInv, IsOwn, Target
<1>4. SuccessLeavesOwnSnapshot' /\ PathsAreFree'
  BY <1>0 DEF IInv, OptionsInv, SuccessLeavesOwnSnapshot, PathsAreFree, Running
<1>5. CommandsInv'
  BY <1>0 DEF IInv, CommandsInv, Scanning, Done, IsPresent, IsAccepted
<1>6. EveryCommandOnce'
  BY <1>0 DEF IInv, CommandsInv, EveryCommandOnce, OptionsInv, Running, Scanning, Done, IsPresent, IsAccepted
<1>7. HeadersInv' /\ NoStaleHeader'
  BY <1>0 DEF IInv, HeadersInv, NoStaleHeader
<1>8. QED
  BY <1>1, <1>2, <1>3, <1>4, <1>5, <1>6, <1>7 DEF IInv

-----------------------------------------------------------------------------
\* What a parse changes: the entry of its command, and what it feeds.
LEMMA ParseFacts ==
  ASSUME IInv, pc \in {"list", "tasks"},
         NEW i \in DOMAIN commands, parses[i] = 0, IsPresent(i), Parse(i),
         header' \in [Headers -> 0 .. MaxRuns], run' = run, options' = options
  PROVE  /\ parses' \in Seq(Nat) /\ DOMAIN parses' = DOMAIN commands
         /\ parses'[i] = 1
         /\ \A j \in DOMAIN commands \ {i} : parses'[j] = parses[j]
         /\ against' \in Seq(0 .. MaxRuns) /\ DOMAIN against' = DOMAIN commands
         /\ (commands[i].header # NoHeader /\ ~Emits(commands[i])) => against'[i] = header'[commands[i].header]
         /\ \A j \in DOMAIN commands \ {i} : against'[j] = against[j]
         /\ disk' \in [out : Snapshot, tmp : Snapshot] /\ fed' \subseteq Present
         /\ IsOwn(disk[Target])' /\ ~(disk[Target].finished)'
         /\ options.remap => disk'.out = disk.out
<1> DEFINE needed == IF commands[i].header = NoHeader \/ Emits(commands[i]) THEN run ELSE header'[commands[i].header]
<1>1. /\ parses \in Seq(Nat) /\ against \in Seq(0 .. MaxRuns) /\ run \in 0 .. MaxRuns
      /\ DOMAIN parses = DOMAIN commands /\ DOMAIN against = DOMAIN commands
      /\ commands[i].header # NoHeader => commands[i].header \in Headers
  BY DEF IInv, TypeOK, CommandsInv, Scanning
<1>2. needed \in 0 .. MaxRuns
  BY <1>1
<1>3. parses' = [parses EXCEPT ![i] = parses[i] + 1] /\ against' = [against EXCEPT ![i] = needed]
  BY DEF Parse
<1>4. /\ parses' \in Seq(Nat) /\ DOMAIN parses' = DOMAIN commands /\ parses'[i] = 1
      /\ \A j \in DOMAIN commands \ {i} : parses'[j] = parses[j]
  BY <1>1, <1>3, ExceptSeq
<1>5. /\ against' \in Seq(0 .. MaxRuns) /\ DOMAIN against' = DOMAIN commands /\ against'[i] = needed
      /\ \A j \in DOMAIN commands \ {i} : against'[j] = against[j]
  BY <1>1, <1>2, <1>3, ExceptSeq
<1>6. /\ disk \in [out : Snapshot, tmp : Snapshot] /\ fed \subseteq Present
      /\ IsOwn(disk[Target]) /\ ~disk[Target].finished /\ commands[i].file \in Present
  BY DEF IInv, TypeOK, DiskInv, IsPresent
<1>7. Target' = Target /\ Target \in {"out", "tmp"} /\ (options.remap => Target = "tmp")
  BY DEF Target
<1>8. /\ disk' \in [out : Snapshot, tmp : Snapshot] /\ fed' \subseteq Present
      /\ IsOwn(disk[Target])' /\ ~(disk[Target].finished)'
      /\ options.remap => disk'.out = disk.out
  <2>1. CASE UNCHANGED <<disk, fed>>
    BY <2>1, <1>6, <1>7 DEF IsOwn
  <2>2. CASE disk' = [disk EXCEPT ![Target].units = @ \cup {commands[i].file}] /\ fed' = fed \cup {commands[i].file}
    <3>1. disk' \in [out : Snapshot, tmp : Snapshot] /\ fed' \subseteq Present
      BY <2>2, <1>6, <1>7 DEF Snapshot
    <3>2. /\ disk'[Target].by = disk[Target].by /\ disk'[Target].units = fed'
          /\ disk'[Target].finished = disk[Target].finished
          /\ options.remap => disk'.out = disk.out
      BY <2>2, <1>6, <1>7 DEF Snapshot, IsOwn
    <3>3. QED
      BY <3>1, <3>2, <1>6, <1>7 DEF IsOwn
  <2>3. QED
    BY <2>1, <2>2 DEF Parse
<1>9. QED
  BY <1>4, <1>5, <1>8

\* What the compilation of a header changes.
LEMMA CompileFacts ==
  ASSUME IInv, pc = "list", NEW i \in DOMAIN commands, builds[i] = 0, Compile(i)
  PROVE  /\ builds' \in Seq(Nat) /\ DOMAIN builds' = DOMAIN commands
         /\ builds'[i] = Once(Emits(commands[i]))
         /\ \A j \in DOMAIN commands \ {i} : builds'[j] = builds[j]
         /\ header' \in [Headers -> 0 .. MaxRuns]
<1>1. /\ builds \in Seq(Nat) /\ DOMAIN builds = DOMAIN commands
      /\ header \in [Headers -> 0 .. MaxRuns] /\ run \in 0 .. MaxRuns
  BY DEF IInv, TypeOK, CommandsInv, Scanning
<1>2. header' \in [Headers -> 0 .. MaxRuns]
  BY <1>1 DEF Compile
<1>3. CASE Emits(commands[i])
  <2>1. builds' = [builds EXCEPT ![i] = builds[i] + 1]
    BY <1>3 DEF Compile
  <2>2. QED
    BY <2>1, <1>1, <1>2, <1>3, ExceptSeq DEF Once
<1>4. CASE ~Emits(commands[i])
  BY <1>1, <1>2, <1>4 DEF Compile, Once
<1>5. QED
  BY <1>3, <1>4

\* What is left to do after a step that has processed the i-th command.
Processed(i) ==
  /\ pc \in {"list", "tasks"} /\ pc' = pc /\ UNCHANGED <<run, options, exit, queue, commands>>
  /\ i \in list \cup tasks
  /\ pc = "list" => i \in list
  /\ list' = list \ {i} /\ tasks' = tasks \ {i}
  /\ Done(i)'
  /\ \A j \in DOMAIN commands \ {i} : parses'[j] = parses[j] /\ builds'[j] = builds[j] /\ against'[j] = against[j]
  /\ DOMAIN parses' = DOMAIN commands /\ DOMAIN builds' = DOMAIN commands /\ DOMAIN against' = DOMAIN commands
  /\ builds' \in Seq(Nat) /\ parses' \in Seq(Nat) /\ against' \in Seq(0 .. MaxRuns)
  /\ header' \in [Headers -> 0 .. MaxRuns]
  /\ pc = "tasks" =>
       /\ header' = header
       /\ (parses'[i] > 0 /\ commands[i].header # NoHeader) => against'[i] = header[commands[i].header]
  /\ disk' \in [out : Snapshot, tmp : Snapshot] /\ fed' \subseteq Present
  /\ IsOwn(disk[Target])' /\ ~(disk[Target].finished)'
  /\ options.remap => disk'.out = disk.out

\* Such a step leaves the invariant true.
LEMMA ProcessedStep ==
  ASSUME IInv, NEW i, Processed(i)
  PROVE  IInv'
<1>0. i \in DOMAIN commands /\ Target' = Target
  BY DEF IInv, TypeOK, Processed, Target
<1>1. TypeOK'
  BY DEF IInv, TypeOK, Processed
<1>2. OptionsInv'
  BY DEF IInv, OptionsInv, Scans, AfterLoad, Scanning, Running, Processed
<1>3. DiskInv'
  BY <1>0 DEF IInv, DiskInv, Processed
<1>4. SuccessLeavesOwnSnapshot' /\ PathsAreFree'
  BY DEF IInv, OptionsInv, SuccessLeavesOwnSnapshot, PathsAreFree, Running, Processed
<1>5. CommandsInv'
  <2>1. ASSUME NEW j \in DOMAIN commands, j # i
        PROVE  /\ j \in (list \cup tasks)' <=> j \in list \cup tasks
               /\ Done(j)' <=> Done(j)
    BY <2>1 DEF Processed, Done, IsPresent, IsAccepted
  <2>2. ASSUME NEW j \in DOMAIN commands
        PROVE  /\ j \in (list \cup tasks)' => commands[j].translates /\ parses'[j] = 0 /\ builds'[j] = 0
               /\ j \in list' /\ options.threads => Emits(commands[j])
               /\ j \in tasks' => options.threads /\ IsAccepted(j) /\ ~Emits(commands[j])
               /\ j \notin (list \cup tasks)' => Done(j)'
    BY <2>1 DEF IInv, CommandsInv, Scanning, Processed
  <2>3. pc = "tasks" => list' = {}
    BY DEF IInv, CommandsInv, Scanning, Processed
  <2>4. QED
    BY <2>2, <2>3 DEF IInv, CommandsInv, Scanning, IsAccepted, Processed
<1>6. EveryCommandOnce'
  <2>1. exit' # "success"
    BY DEF IInv, OptionsInv, Running, Processed
  <2>2. parses'[i] <= 1 /\ builds'[i] <= 1
    BY DEF Processed, Done, Once
  <2>3. ASSUME NEW j \in DOMAIN commands, j # i
        PROVE  parses'[j] <= 1 /\ builds'[j] <= 1
    BY <2>3 DEF IInv, EveryCommandOnce, CommandsInv, Scanning, Processed
  <2>4. QED
    BY <2>1, <2>2, <2>3 DEF EveryCommandOnce, Processed
<1>7. HeadersInv'
  <2>1. (pc = "list" /\ options.threads) => Emits(commands[i])
    BY <1>0 DEF IInv, CommandsInv, Scanning, Processed
  <2>2. QED
    BY <2>1 DEF IInv, HeadersInv, Processed
<1>8. NoStaleHeader'
  <2>1. CASE pc = "list" /\ options.threads
    BY <1>7, <2>1 DEF HeadersInv, NoStaleHeader, Processed
  <2>2. CASE pc = "tasks" /\ options.threads
    BY <2>2 DEF IInv, CommandsInv, Scanning, NoStaleHeader, Processed
  <2>3. CASE ~options.threads
    BY <2>3 DEF NoStaleHeader, Processed
  <2>4. QED
    BY <2>1, <2>2, <2>3 DEF Processed
<1>9. QED
  BY <1>1, <1>2, <1>3, <1>4, <1>5, <1>6, <1>7, <1>8 DEF IInv

\* The steps that process a command, on the list ...
LEMMA ListSteps ==
  ASSUME IInv, NEW i \in list, CommandIgnored(i) \/ HeaderOnly(i) \/ CommandProcessed(i)
  PROVE  IInv'
<1>1. /\ pc = "list" /\ pc' = pc /\ UNCHANGED <<run, options, exit, queue, commands, tasks>>
      /\ list' = list \ {i}
  BY DEF CommandIgnored, HeaderOnly, CommandProcessed, Process, Goto
<1>2. /\ i \in DOMAIN commands /\ parses[i] = 0 /\ builds[i] = 0 /\ commands[i].translates
      /\ i \notin tasks
      /\ DOMAIN parses = DOMAIN commands /\ DOMAIN builds = DOMAIN commands /\ DOMAIN against = DOMAIN commands
      /\ parses \in Seq(Nat) /\ builds \in Seq(Nat) /\ against \in Seq(0 .. MaxRuns)
      /\ disk \in [out : Snapshot, tmp : Snapshot] /\ header \in [Headers -> 0 .. MaxRuns] /\ fed \subseteq Present
      /\ IsOwn(disk[Target]) /\ ~disk[Target].finished
  BY <1>1 DEF IInv, TypeOK, CommandsInv, DiskInv, Scanning
<1>3. CASE CommandIgnored(i)
  <2>1. Done(i)'
    BY <1>1, <1>2, <1>3 DEF CommandIgnored, Done, Once, IsPresent, IsAccepted, history
  <2>2. Processed(i)
    BY <1>1, <1>2, <1>3, <2>1 DEF CommandIgnored, Processed, files, history, IsOwn, Target
  <2>3. QED
    BY <2>2, ProcessedStep
<1>4. CASE HeaderOnly(i)
  <2>1. /\ IsPresent(i) /\ ~IsAccepted(i) /\ Emits(commands[i]) /\ Compile(i)
        /\ UNCHANGED <<disk, parses, against, fed>>
    BY <1>4 DEF HeaderOnly
  <2>2. Done(i)'
    BY <1>1, <1>2, <2>1, CompileFacts DEF Done, Once, IsPresent, IsAccepted
  <2>3. Processed(i)
    BY <1>1, <1>2, <2>1, <2>2, CompileFacts DEF Processed, IsOwn, Target
  <2>4. QED
    BY <2>3, ProcessedStep
<1>5. CASE CommandProcessed(i)
  <2>1. IsPresent(i) /\ IsAccepted(i) /\ Compile(i) /\ Parse(i)
    BY <1>5 DEF CommandProcessed
  <2>2. /\ builds'[i] = Once(Emits(commands[i])) /\ header' \in [Headers -> 0 .. MaxRuns]
        /\ builds' \in Seq(Nat) /\ DOMAIN builds' = DOMAIN commands
        /\ \A j \in DOMAIN commands \ {i} : builds'[j] = builds[j]
    BY <1>1, <1>2, <2>1, CompileFacts
  <2>3. /\ parses' \in Seq(Nat) /\ DOMAIN parses' = DOMAIN commands /\ parses'[i] = 1
        /\ \A j \in DOMAIN commands \ {i} : parses'[j] = parses[j] /\ against'[j] = against[j]
        /\ against' \in Seq(0 .. MaxRuns) /\ DOMAIN against' = DOMAIN commands
        /\ disk' \in [out : Snapshot, tmp : Snapshot] /\ fed' \subseteq Present
        /\ IsOwn(disk[Target])' /\ ~(disk[Target].finished)'
        /\ options.remap => disk'.out = disk.out
    BY <1>1, <1>2, <2>1, <2>2, ParseFacts
  <2>4. Done(i)'
    BY <1>1, <1>2, <2>1, <2>2, <2>3 DEF Done, Once, IsPresent, IsAccepted
  <2>5. Processed(i)
    BY <1>1, <1>2, <2>2, <2>3, <2>4 DEF Processed
  <2>6. QED
    BY <2>5, ProcessedStep
<1>6. QED
  BY <1>3, <1>4, <1>5

\* ... or on the threads.
LEMMA TaskStep ==
  ASSUME IInv, NEW i \in tasks, TaskDone(i)
  PROVE  IInv'
<1>1. /\ pc = "tasks" /\ pc' = pc /\ UNCHANGED <<run, options, exit, queue, commands, list, header, builds>>
      /\ tasks' = tasks \ {i}
  BY DEF TaskDone, Goto
<1>2. /\ i \in DOMAIN commands /\ parses[i] = 0 /\ builds[i] = 0 /\ commands[i].translates
      /\ list = {} /\ IsAccepted(i) /\ ~Emits(commands[i])
      /\ DOMAIN parses = DOMAIN commands /\ DOMAIN builds = DOMAIN commands /\ DOMAIN against = DOMAIN commands
      /\ parses \in Seq(Nat) /\ builds \in Seq(Nat) /\ against \in Seq(0 .. MaxRuns)
      /\ disk \in [out : Snapshot, tmp : Snapshot] /\ header \in [Headers -> 0 .. MaxRuns] /\ fed \subseteq Present
      /\ IsOwn(disk[Target]) /\ ~disk[Target].finished
  BY <1>1 DEF IInv, TypeOK, CommandsInv, DiskInv, Scanning
<1>3. CASE ~IsPresent(i)
  <2>1. UNCHANGED <<disk, parses, against, fed>>
    BY <1>3 DEF TaskDone
  <2>2. Done(i)'
    BY <1>1, <1>2, <1>3, <2>1 DEF Done, Once, IsPresent, IsAccepted
  <2>3. Processed(i)
    BY <1>1, <1>2, <2>1, <2>2 DEF Processed, IsOwn, Target
  <2>4. QED
    BY <2>3, ProcessedStep
<1>4. CASE IsPresent(i)
  <2>1. Parse(i)
    BY <1>4 DEF TaskDone
  <2>2. /\ parses' \in Seq(Nat) /\ DOMAIN parses' = DOMAIN commands /\ parses'[i] = 1
        /\ \A j \in DOMAIN commands \ {i} : parses'[j] = parses[j] /\ against'[j] = against[j]
        /\ against' \in Seq(0 .. MaxRuns) /\ DOMAIN against' = DOMAIN commands
        /\ commands[i].header # NoHeader => against'[i] = header[commands[i].header]
        /\ disk' \in [out : Snapshot, tmp : Snapshot] /\ fed' \subseteq Present
        /\ IsOwn(disk[Target])' /\ ~(disk[Target].finished)'
        /\ options.remap => disk'.out = disk.out
    BY <1>1, <1>2, <1>4, <2>1, ParseFacts
  <2>3. Done(i)'
    BY <1>1, <1>2, <1>4, <2>2 DEF Done, Once, IsPresent, IsAccepted
  <2>4. Processed(i)
    BY <1>1, <1>2, <2>2, <2>3 DEF Processed
  <2>5. QED
    BY <2>4, ProcessedStep
<1>5. QED
  BY <1>3, <1>4

\* No step breaks the invariant.
LEMMA Invariance == IInv /\ [Next]_vars => IInv'
<1> SUFFICES ASSUME IInv, [Next]_vars
             PROVE  IInv'
  OBVIOUS
<1>1. CASE UNCHANGED vars
  BY <1>1 DEF vars, files, history, work, IInv, TypeOK, OptionsInv, DiskInv, IsOwn, SuccessLeavesOwnSnapshot, PathsAreFree,
              CommandsInv, EveryCommandOnce, HeadersInv, NoStaleHeader, Scans, Target, Done, IsPresent, IsAccepted
<1>2. CASE Next
  BY <1>2, PlainSteps, StartStep, RemoveStep, LoadStep, ExpandStep, InitSnapshotStep, TranslateStep, ReturnStep,
     RemoveTmpStep, OpenOutputStep, MergeStep, ListSteps, TaskStep DEF Next
<1>3. QED
  BY <1>1, <1>2

\* The inductive invariant holds in every state of every sequence of runs.
THEOREM InductiveInvariant == Spec => []IInv
  BY InitIInv, Invariance, PTL DEF Spec

-----------------------------------------------------------------------------
\* Every variable has its type, whatever the arguments, the database and the
\* tree of directories are.
THEOREM TypeCorrect == Spec => []TypeOK
<1>1. IInv => TypeOK
  BY DEF IInv
<1>2. QED
  BY <1>1, InductiveInvariant, PTL

\* Whatever the runs before left behind, initSnapshot and runMerge find their
\* paths free (scanner.cpp:560-590, scannerinvocation.cpp:795-830).
THEOREM PathsAlwaysFree == Spec => []PathsAreFree
<1>1. IInv => PathsAreFree
  BY DEF IInv
<1>2. QED
  BY <1>1, InductiveInvariant, PTL

\* A run that reports success has left a finished snapshot of its own, with
\* all that was fed to it and nothing of an earlier run.
THEOREM SuccessAlwaysLeavesOwnSnapshot == Spec => []SuccessLeavesOwnSnapshot
<1>1. IInv => SuccessLeavesOwnSnapshot
  BY DEF IInv
<1>2. QED
  BY <1>1, InductiveInvariant, PTL

\* However commands are divided between the list and the threads, each is
\* parsed and compiled exactly as often as it should be.
THEOREM EveryCommandAlwaysOnce == Spec => []EveryCommandOnce
<1>1. IInv => EveryCommandOnce
  BY DEF IInv
<1>2. QED
  BY <1>1, InductiveInvariant, PTL

\* No thread parses against a precompiled header that is compiled again later
\* in the same run.
THEOREM NeverAStaleHeader == Spec => []NoStaleHeader
<1>1. IInv => NoStaleHeader
  BY DEF IInv
<1>2. QED
  BY <1>1, InductiveInvariant, PTL

\* Without --overwrite no step of a run touches what an earlier run left at
\* the output path, nor a .tmp file or a header next to it (README.md).
THEOREM NothingEverTouchedUnasked == Spec => NothingTouchedUnasked
<1>1. ASSUME IInv, Next, ~options.overwrite, run' = run, disk.out # NoFile, disk.out.by # run
      PROVE  UNCHANGED files
  <2>1. pc \in {"off", "check"}
    BY <1>1 DEF IInv, TypeOK, OptionsInv, DiskInv, IsOwn, Target
  <2>2. run + 1 # run
    BY <1>1 DEF IInv, TypeOK
  <2>3. ~Start /\ ~OutputIsRemoved
    BY <1>1, <2>2 DEF Start, OutputIsRemoved
  <2>4. pc \notin {"load", "init", "translate", "list", "tasks", "close", "merge", "remove"}
    BY <2>1
  <2>5. QED
    BY <1>1, <2>3, <2>4 DEF Next, Goto, End, files, work, history, ArgumentsRefused, HelpPrinted, OutputIsFree, OutputIsKept,
       LoadDatabase, DatabaseUnreadable, ExpandInput, InputsExpanded, InitSnapshot, TranslateAndAdjust,
       CommandIgnored, HeaderOnly, CommandProcessed, Process, ListProcessed, TaskDone, ThreadsJoined,
       Return, OpenOutput, Merge, RemoveTmp, Crash
<1>2. IInv /\ [Next]_vars =>
        [(~options.overwrite /\ run' = run /\ disk.out # NoFile /\ disk.out.by # run) => UNCHANGED files]_vars
  BY <1>1
<1>3. QED
  BY <1>2, InductiveInvariant, PTL DEF Spec, NothingTouchedUnasked

-----------------------------------------------------------------------------
(* The sources below the inputs.  While the queue is worked off, what was  *)
(* found and what is below the rest of the queue are what is below the     *)
(* inputs.                                                                 *)

InputsInv ==
  /\ pc = "check" => queue = options.inputs /\ commands = <<>>
  /\ pc = "load" => ToSet(queue) \subseteq Paths
  /\ (pc = "load" /\ options.does = "files") =>
       FilesOfCommands \cup Below(ToSet(queue)) = Below(ToSet(options.inputs))
  /\ SourcesAreFound

\* Nothing is below no path.
LEMMA NothingBelowNothing == Below({}) = {}
<1>1. {} \in SUBSET Paths /\ {} \subseteq {} /\ Closed({})
  BY DEF Closed
<1>2. QED
  BY <1>1 DEF Below

\* A path can be replaced by what is in it: what is below p and the paths R
\* is p itself, if it is a file, and what is below R and what is wanted in p.
Inside(p) == IF p \in Directories THEN Wanted(p) ELSE {}

LEMMA BelowStep ==
  ASSUME NEW p \in Paths, NEW R \in SUBSET Paths
  PROVE  Below({p} \cup R) = ({p} \cap Present) \cup Below(R \cup Inside(p))
<1>1. ASSUME NEW f \in Below({p} \cup R), f # p
      PROVE  f \in Below(R \cup Inside(p))
  <2>1. f \in Present
    BY DEF Below
  <2>2. ASSUME NEW S \in SUBSET Paths, R \cup Inside(p) \subseteq S, Closed(S)
        PROVE  f \in S
    <3> DEFINE absent == IF p \in Directories THEN (Children[p] \cap Sources) \ (Present \cup Directories) ELSE {}
               more == S \cup {p} \cup absent
    <3>1. absent \subseteq Paths /\ absent \cap Present = {} /\ absent \cap Directories = {}
      BY DEF Paths
    <3>2. more \in SUBSET Paths
      BY <3>1
    <3>3. {p} \cup R \subseteq more
      BY <2>2
    <3>4. ASSUME NEW d \in more \cap Directories
          PROVE  Children[d] \cap (Directories \cup Sources) \subseteq more
      <4>1. CASE d \in S
        BY <4>1, <3>4, <2>2 DEF Closed
      <4>2. CASE d = p
        <5>1. Inside(p) \subseteq S /\ Inside(p) = Wanted(p)
          BY <4>2, <3>4, <2>2 DEF Inside
        <5>2. Children[p] \cap (Directories \cup Sources) \subseteq Wanted(p) \cup absent
          BY <4>2, <3>4 DEF Wanted
        <5>3. QED
          BY <4>2, <5>1, <5>2
      <4>3. d \notin absent
        BY <3>1, <3>4
      <4>4. QED
        BY <3>4, <4>1, <4>2, <4>3
    <3>5. Closed(more)
      BY <3>4 DEF Closed
    <3>6. f \in more
      BY <3>2, <3>3, <3>5 DEF Below
    <3>7. QED
      BY <1>1, <2>1, <3>1, <3>6
  <2>3. QED
    BY <2>1, <2>2 DEF Below
<1>2. ASSUME p \in Present
      PROVE  p \in Below({p} \cup R)
  BY <1>2 DEF Below
<1>3. ASSUME NEW f \in Below(R \cup Inside(p))
      PROVE  f \in Below({p} \cup R)
  <2>1. ASSUME NEW S \in SUBSET Paths, {p} \cup R \subseteq S, Closed(S)
        PROVE  R \cup Inside(p) \subseteq S
    BY <2>1 DEF Inside, Wanted, Closed
  <2>2. QED
    BY <2>1 DEF Below
<1>4. p \in Below({p} \cup R) => p \in Present
  BY DEF Below
<1>5. QED
  BY <1>1, <1>2, <1>3, <1>4

\* What is in a sequence.
LEMMA InToSet ==
  ASSUME NEW s, NEW x
  PROVE  x \in ToSet(s) <=> \E i \in DOMAIN s : s[i] = x
  BY DEF ToSet

\* What follows a path in the queue ...
LEMMA QueueSplit ==
  ASSUME NEW q \in Seq(STRING), q # <<>>
  PROVE  ToSet(q) = {Head(q)} \cup ToSet(Tail(q))
<1>1. ASSUME NEW i \in DOMAIN q
      PROVE  i = 1 \/ (i - 1 \in DOMAIN Tail(q) /\ Tail(q)[i - 1] = q[i])
  BY HeadTailProperties
<1>2. ASSUME NEW i \in DOMAIN Tail(q)
      PROVE  i + 1 \in DOMAIN q /\ q[i + 1] = Tail(q)[i]
  BY HeadTailProperties
<1>3. 1 \in DOMAIN q /\ Head(q) = q[1]
  BY HeadTailProperties
<1>4. ASSUME NEW x
      PROVE  x \in ToSet(q) <=> (x = Head(q) \/ x \in ToSet(Tail(q)))
  <2>1. x \in ToSet(q) <=> \E i \in DOMAIN q : q[i] = x
    BY InToSet, Zenon
  <2>2. x \in ToSet(Tail(q)) <=> \E i \in DOMAIN Tail(q) : Tail(q)[i] = x
    BY InToSet, Zenon
  <2>3. (\E i \in DOMAIN q : q[i] = x) => (x = Head(q) \/ \E i \in DOMAIN Tail(q) : Tail(q)[i] = x)
    BY <1>1, <1>3, Zenon
  <2>4. (\E i \in DOMAIN Tail(q) : Tail(q)[i] = x) => \E i \in DOMAIN q : q[i] = x
    BY <1>2, Zenon
  <2>5. QED
    BY <1>3, <2>1, <2>2, <2>3, <2>4, Zenon
<1>5. QED
  BY <1>4

\* ... and what is appended to it.
LEMMA QueueJoined ==
  ASSUME NEW q \in Seq(STRING), NEW s \in Seq(STRING)
  PROVE  ToSet(q \o s) = ToSet(q) \cup ToSet(s)
<1>1. ASSUME NEW i \in DOMAIN q
      PROVE  i \in DOMAIN (q \o s) /\ (q \o s)[i] = q[i]
  BY ConcatProperties
<1>2. ASSUME NEW i \in DOMAIN s
      PROVE  i + Len(q) \in DOMAIN (q \o s) /\ (q \o s)[i + Len(q)] = s[i]
  BY ConcatProperties
<1>3. ASSUME NEW i \in DOMAIN (q \o s)
      PROVE  \/ i \in DOMAIN q /\ (q \o s)[i] = q[i]
             \/ i - Len(q) \in DOMAIN s /\ (q \o s)[i] = s[i - Len(q)]
  BY ConcatProperties
<1>4. ASSUME NEW x
      PROVE  x \in ToSet(q \o s) <=> (x \in ToSet(q) \/ x \in ToSet(s))
  <2>1. /\ x \in ToSet(q) <=> \E i \in DOMAIN q : q[i] = x
        /\ x \in ToSet(s) <=> \E i \in DOMAIN s : s[i] = x
        /\ x \in ToSet(q \o s) <=> \E i \in DOMAIN (q \o s) : (q \o s)[i] = x
    BY InToSet, Zenon
  <2>2. (\E i \in DOMAIN q : q[i] = x) => \E i \in DOMAIN (q \o s) : (q \o s)[i] = x
    BY <1>1, Zenon
  <2>3. (\E i \in DOMAIN s : s[i] = x) => \E i \in DOMAIN (q \o s) : (q \o s)[i] = x
    BY <1>2, Zenon
  <2>4. (\E i \in DOMAIN (q \o s) : (q \o s)[i] = x)
          => (\E i \in DOMAIN q : q[i] = x) \/ (\E i \in DOMAIN s : s[i] = x)
    BY <1>3, Zenon
  <2>5. QED
    BY <2>1, <2>2, <2>3, <2>4, Zenon
<1>5. QED
  BY <1>4

\* In whatever order a directory is read, all that is wanted is read once.
LEMMA EverythingIsRead ==
  ASSUME NEW S, S \subseteq STRING, IsFiniteSet(S), NEW s \in SetToSeqs(S)
  PROVE  s \in Seq(STRING) /\ ToSet(s) = S
<1> DEFINE n == Cardinality(S)
<1>1. n \in Nat /\ IsFiniteSet(1 .. n) /\ Cardinality(1 .. n) = n
  BY FS_CardinalityType, FS_Interval
<1>2. s \in [1 .. n -> S] /\ \A i, j \in 1 .. n : i # j => s[i] # s[j]
  BY DEF SetToSeqs
<1>3. s \in Injection(1 .. n, S)
  BY <1>2 DEF Injection, IsInjective
<1>4. s \in Surjection(1 .. n, S)
  BY <1>1, <1>3, FS_Injection
<1>5. ASSUME NEW x
      PROVE  x \in ToSet(s) <=> x \in S
  <2>1. x \in ToSet(s) <=> \E i \in DOMAIN s : s[i] = x
    BY InToSet, Zenon
  <2>2. DOMAIN s = 1 .. n /\ \A i \in 1 .. n : s[i] \in S
    BY <1>2
  <2>3. \A y \in S : \E i \in 1 .. n : s[i] = y
    BY <1>4, Zenon DEF Surjection
  <2>4. QED
    BY <2>1, <2>2, <2>3, Zenon
<1>6. QED
  BY <1>1, <1>2, <1>5

\* The files of the commands, when one is added.
LEMMA FilesAdded ==
  ASSUME TypeOK, NEW f \in STRING, commands' = Append(commands, Found(f))
  PROVE  FilesOfCommands' = FilesOfCommands \cup {f}
<1>1. /\ DOMAIN commands' = 1 .. Len(commands) + 1 /\ DOMAIN commands = 1 .. Len(commands)
      /\ Len(commands) \in Nat
      /\ commands'[Len(commands) + 1] = Found(f)
      /\ \A i \in DOMAIN commands : commands'[i] = commands[i]
  BY DEF TypeOK
<1>2. Found(f).file = f
  BY DEF Found
<1>3. ASSUME NEW x
      PROVE  x \in FilesOfCommands' <=> x \in FilesOfCommands \/ x = f
  <2>1. x \in FilesOfCommands' <=> \E i \in DOMAIN commands' : commands'[i].file = x
    BY DEF FilesOfCommands
  <2>2. x \in FilesOfCommands <=> \E i \in DOMAIN commands : commands[i].file = x
    BY DEF FilesOfCommands
  <2>3. QED
    BY <1>1, <1>2, <2>1, <2>2
<1>4. QED
  BY <1>3

\* The inputs are what the queue begins with.
LEMMA InputsStart ==
  ASSUME IInv, InputsInv, OutputIsFree \/ OutputIsRemoved
  PROVE  InputsInv'
<1>1. /\ pc = "check" /\ pc' = "load" /\ UNCHANGED <<options, queue, commands>>
      /\ queue = options.inputs /\ commands = <<>> /\ options \in Options
  BY DEF IInv, OptionsInv, InputsInv, OutputIsFree, OutputIsRemoved, Goto, work
<1>2. ToSet(options.inputs) \subseteq Paths
  BY <1>1 DEF Paths
<1>3. FilesOfCommands' = {}
  BY <1>1 DEF FilesOfCommands
<1>4. QED
  BY <1>1, <1>2, <1>3 DEF InputsInv, SourcesAreFound

\* An input, or what was found in one, is worked off.
LEMMA InputsExpand ==
  ASSUME IInv, InputsInv, ExpandInput
  PROVE  InputsInv'
<1> DEFINE item == Head(queue)
           R == ToSet(Tail(queue))
<1>1. /\ pc = "load" /\ pc' = "load" /\ options' = options /\ options.does = "files"
      /\ queue \in Seq(STRING) /\ queue # <<>>
      /\ commands' = IF item \in Present THEN Append(commands, Found(item)) ELSE commands
  BY DEF IInv, TypeOK, ExpandInput, Goto
<1>2. item \in STRING /\ Tail(queue) \in Seq(STRING) /\ ToSet(queue) = {item} \cup R
  BY <1>1, QueueSplit, HeadTailProperties
<1>3. item \in Paths /\ R \in SUBSET Paths
  BY <1>1, <1>2 DEF InputsInv
<1>4. ToSet(queue') = R \cup Inside(item)
  <2>1. CASE item \in Directories
    <3>1. PICK s \in SetToSeqs(Wanted(item)) : queue' = Tail(queue) \o s
      BY <2>1 DEF ExpandInput
    <3>2. IsFiniteSet(Wanted(item)) /\ Wanted(item) \subseteq STRING
      BY <2>1, ChildrenAssumption, FS_Subset DEF Wanted
    <3>3. s \in Seq(STRING) /\ ToSet(s) = Wanted(item)
      BY <3>1, <3>2, EverythingIsRead
    <3>4. ToSet(queue') = R \cup Wanted(item)
      BY <1>2, <3>1, <3>3, QueueJoined
    <3>5. QED
      BY <2>1, <3>4 DEF Inside
  <2>2. CASE item \notin Directories
    <3>1. queue' = Tail(queue)
      BY <2>2 DEF ExpandInput
    <3>2. QED
      BY <2>2, <3>1 DEF Inside
  <2>3. QED
    BY <2>1, <2>2
<1>5. FilesOfCommands' = FilesOfCommands \cup ({item} \cap Present)
  <2>1. CASE item \in Present
    BY <1>1, <1>2, <2>1, FilesAdded DEF IInv
  <2>2. CASE item \notin Present
    BY <1>1, <2>2 DEF FilesOfCommands
  <2>3. QED
    BY <2>1, <2>2
<1>6. Below(ToSet(queue)) = ({item} \cap Present) \cup Below(R \cup Inside(item))
  BY <1>2, <1>3, BelowStep
<1>7. Inside(item) \subseteq Paths
  BY DEF Inside, Wanted, Paths
<1>8. FilesOfCommands \cup Below(ToSet(queue)) = Below(ToSet(options.inputs))
  BY <1>1 DEF InputsInv
<1>9. FilesOfCommands' \cup Below(ToSet(queue')) = Below(ToSet(options.inputs))
  BY <1>4, <1>5, <1>6, <1>8
<1>10. ToSet(queue)' = ToSet(queue') /\ Below(ToSet(queue))' = Below(ToSet(queue'))
  BY DEF ToSet, Below, Closed
<1>11. QED
  BY <1>1, <1>3, <1>4, <1>7, <1>9, <1>10 DEF InputsInv, SourcesAreFound

\* When the queue is empty everything was found.
LEMMA InputsEnd ==
  ASSUME InputsInv, InputsExpanded
  PROVE  InputsInv'
<1>1. /\ pc = "load" /\ pc' = "init" /\ UNCHANGED <<options, commands>>
      /\ options.does = "files" /\ queue = <<>>
  BY DEF InputsExpanded, Goto, work
<1>2. ToSet(queue) = {}
  BY <1>1 DEF ToSet
<1>3. FilesOfCommands = Below(ToSet(options.inputs))
  BY <1>1, <1>2, NothingBelowNothing DEF InputsInv
<1>4. QED
  BY <1>1, <1>3 DEF InputsInv, SourcesAreFound, FilesOfCommands

\* No other step has to do with the inputs.
LEMMA InputsInvariance == IInv /\ InputsInv /\ [Next]_vars => InputsInv'
<1> SUFFICES ASSUME IInv, InputsInv, [Next]_vars
             PROVE  InputsInv'
  OBVIOUS
<1>1. CASE UNCHANGED vars
  BY <1>1 DEF vars, work, InputsInv, SourcesAreFound, FilesOfCommands
<1>2. CASE Start
  BY <1>2 DEF Start, InputsInv, SourcesAreFound
<1>3. CASE LoadDatabase
  BY <1>3 DEF LoadDatabase, Goto, InputsInv, SourcesAreFound
<1>4. CASE pc' \notin {"check", "load", "init"}
  BY <1>4 DEF InputsInv, SourcesAreFound
<1>5. \/ pc' \notin {"check", "load", "init"} \/ UNCHANGED vars \/ Start \/ LoadDatabase
      \/ OutputIsFree \/ OutputIsRemoved \/ ExpandInput \/ InputsExpanded
  BY DEF Next, Goto, End, ArgumentsRefused, HelpPrinted, OutputIsKept, DatabaseUnreadable, InitSnapshot,
     TranslateAndAdjust, CommandIgnored, HeaderOnly, CommandProcessed, Process, ListProcessed, TaskDone,
     ThreadsJoined, Return, OpenOutput, Merge, RemoveTmp, Crash
<1>6. QED
  BY <1>1, <1>2, <1>3, <1>4, <1>5, InputsStart, InputsExpand, InputsEnd

\* In whatever order the directories are read, however deep they are and
\* whatever the inputs are, a scan without a database has a command for every
\* source below its inputs and for nothing else (scanner.cpp:283-350).
THEOREM SourcesAreAlwaysFound == Spec => []SourcesAreFound
<1>1. Init => InputsInv
  BY DEF Init, InputsInv, SourcesAreFound
<1>2. InputsInv => SourcesAreFound
  BY DEF InputsInv
<1>3. QED
  BY <1>1, <1>2, InputsInvariance, InductiveInvariant, PTL DEF Spec

=============================================================================
