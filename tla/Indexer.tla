------------------------------ MODULE Indexer -------------------------------
(***************************************************************************)
(* Indexer, SymbolCollector and PreprocessingRecordIndexer (indexer.cpp):  *)
(* what the callbacks of clang make of a translation unit.  One Indexer    *)
(* works on the units one after the other; its caches are keyed by         *)
(* addresses and clang::FileIDs, which the next unit uses again for other  *)
(* things.                                                                 *)
(*                                                                         *)
(* Clang is the environment.  Unit[u] is what it knows of unit u:          *)
(*   main       the clang::FileID of the main file                         *)
(*   file       the file of each clang::FileID, NoFile for macro           *)
(*              expansions and buffers; a header that is included twice    *)
(*              has two clang::FileIDs                                     *)
(*   decl       of each declaration: its usr as an id (NoSymbol if there   *)
(*              is none), scope (the declaration it is in, or NoDecl),     *)
(*              class, kind, name, props (what the AST says of it) and     *)
(*              redecls (the range of each redeclaration)                  *)
(*   macro      of each macro: usr, name, props, and current (whether the  *)
(*              name still means this macro at the end of the unit)        *)
(*   module     the usr and name of each module                            *)
(*   decls, macros, modules, diagnostics                                   *)
(*              the calls that the callbacks may get, in any order         *)
(*   inclusions, calls                                                     *)
(*              the preprocessing record and the calls in the AST          *)
(*   token      the identifier written at a file and position              *)
(* Vectors are sets: of equal rows one is kept.  Names are sequences: the  *)
(* empty one is the empty name, those of length 1 are identifiers.  Texts  *)
(* (types, values, messages) and access specifiers are left out.           *)
(***************************************************************************)
EXTENDS Integers, Sequences, FiniteSets, SequencesExt, UnitIndex

CONSTANTS
  Unit,          \* the translation units, a function
  NoUnit,
  NoDecl,
  NoFile,        \* invalidFileID()
  MaxLine,       \* FilePosition::MaxLine
  MaxColumn,     \* FilePosition::MaxColumn
  MaxCallbacks   \* bound: the callbacks that a unit gets between initialize and finish

ASSUME BoundAssumption == MaxLine \in Nat /\ MaxColumn \in Nat /\ MaxCallbacks \in Nat

VARIABLES
  phase,      \* "idle": no index; "indexing": an index and an AST context; "finished": an index
  unit,       \* the unit that was initialized last
  accepted,   \* the files that the arbiter lets this unit index
  fileIds,    \* m_FileIdCache
  answers,    \* m_ShouldIndexFileCache
  declIds,    \* m_symbolIdCache
  macroIds,   \* m_macroIdCache
  moduleIds,  \* m_moduleIdCache
  index,      \* *m_index
  started,    \* the units that were initialized
  callbacks   \* how many the unit got

vars == <<phase, unit, accepted, fileIds, answers, declIds, macroIds, moduleIds, index, started, callbacks>>
fileCaches == <<fileIds, answers>>
symbolCaches == <<declIds, macroIds, moduleIds>>

U == Unit[unit]

NewIndex(main) ==
  [main |-> main, files |-> {}, rows |-> [k \in Kind |-> {}], symbols |-> EmptyFunction,
   baseOfs |-> {}, overrides |-> {}, refargs |-> {}]

Init ==
  /\ phase = "idle"
  /\ unit = NoUnit
  /\ accepted = {}
  /\ fileIds = EmptyFunction /\ answers = EmptyFunction
  /\ declIds = EmptyFunction /\ macroIds = EmptyFunction /\ moduleIds = EmptyFunction
  /\ index = NewIndex(NoFile)
  /\ started = {}
  /\ callbacks = 0

-----------------------------------------------------------------------------
(* Files and positions.                                                    *)

\* Indexer::getFileID
FileIdOf(cf) == IF cf \in DOMAIN fileIds THEN fileIds[cf] ELSE U.file[cf]

\* Indexer::shouldIndexFile.  The arbiter keeps to what it answered for a unit.
Answer(cf) == IF cf \in DOMAIN answers THEN answers[cf] ELSE FileIdOf(cf) \in accepted

\* the files that come with a first question about each clang::FileID of S
NewlyIndexed(S) == {FileIdOf(cf) : cf \in {c \in S \ DOMAIN answers : Answer(c)}}

\* the caches after shouldIndexFile on all of S and getFileID on all of T
AskAbout(S, T) ==
  /\ fileIds' = Over([cf \in S \cup T |-> FileIdOf(cf)], fileIds)
  /\ answers' = Over([cf \in S |-> Answer(cf)], answers)

Capped(n, max) == IF n > max THEN max ELSE n

\* the FilePosition of a location: lines and columns that are too large are
\* the largest ones, and both are packed in one number
Position(loc) == Capped(loc.line, MaxLine) * (MaxColumn + 1) + Capped(loc.column, MaxColumn)

-----------------------------------------------------------------------------
(* SymbolCollector.  c is its state: the ids of the declarations it has    *)
(* met (m_symbolIdCache) and the symbols of the index.                     *)

Collector == [ids |-> declIds, symbols |-> index.symbols]

\* what operator[] creates
BlankSymbol == [id |-> NoSymbol, name |-> <<>>, kind |-> "Unknown", parent |-> NoSymbol, flags |-> {}]

SymbolAt(symbols, s) == IF s \in DOMAIN symbols THEN symbols[s] ELSE BlankSymbol

\* getParentSymbol skips linkage specifications and export declarations
Scope[d \in DOMAIN U.decl] ==
  IF U.decl[d].scope # NoDecl /\ U.decl[U.decl[d].scope].class \in {"LinkageSpec", "Export"}
    THEN Scope[U.decl[d].scope]
    ELSE U.decl[d].scope

FunctionClasses == {"Function", "CXXMethod", "CXXConstructor", "CXXDestructor", "CXXConversion"}
MethodClasses == FunctionClasses \ {"Function"}

\* tr(clang::index::SymbolKind): the kinds with another name here
Tr(kind) ==
  CASE kind \in {"Protocol", "Union"} -> "Class"
    [] kind = "InstanceMethod" -> "Method"
    [] kind = "TemplateTypeParm" -> "TemplateTypeParameter"
    [] kind = "TemplateTemplateParm" -> "TemplateTemplateParameter"
    [] kind = "NonTypeTemplateParm" -> "NonTypeTemplateParameter"
    [] kind \in {"Extension", "InstanceProperty", "ClassMethod", "ClassProperty"} -> "Unknown"
    [] OTHER -> kind

KindOf(D) ==
  CASE Tr(D.kind) = "Unknown" /\ D.class = "Label" -> "GotoLabel"
    [] Tr(D.kind) = "Unknown" /\ D.class = "CXXDeductionGuide" -> "DeductionGuide"
    [] D.class = "CXXRecord" /\ "lambda" \in D.props -> "Lambda"
    [] D.class = "Enum" /\ "scoped" \in D.props -> "EnumClass"
    [] D.class \in FunctionClasses /\ "overloaded operator" \in D.props -> "Operator"
    [] D.class = "Namespace" /\ "inline" \in D.props -> "InlineNamespace"
    [] D.class = "Typedef" -> "Typedef"
    [] OTHER -> Tr(D.kind)

TemplateParameters == {"TemplateTypeParameter", "NonTypeTemplateParameter", "TemplateTemplateParameter"}

\* the name of a function has its parameters, other symbols keep the name they
\* have, and some of those without one get a name made of their id
NameOf(D, old) ==
  IF D.class \in FunctionClasses \cup {"CXXDeductionGuide"} THEN D.name \o <<"()">>
  ELSE IF old.name # <<>> THEN old.name
  ELSE IF D.name # <<>> THEN D.name
  ELSE IF KindOf(D) \in {"Namespace", "Lambda", "Struct", "Class", "Union", "Enum", "EnumClass"}
    THEN <<"anonymous", KindOf(D), D.usr>>
  ELSE <<>>

\* the flags of symbols of any kind
Flag ==
  {"Local", "FromProject", "Protected", "Private", "HeaderGuard", "FunctionLike", "Const", "Constexpr", "Static",
   "Inline", "Noexcept", "Default", "Delete", "Virtual", "Pure", "Override", "Final"}

\* the flags that fillSymbol sets or clears for each class of declaration
FlagsRead(class) ==
  LET access == {"Protected", "Private"}
      function == {"Delete", "Static", "Constexpr", "Inline", "Noexcept"}
  IN CASE class = "CXXRecord" -> access
       [] class = "Enum" -> access
       [] class = "Function" -> function
       [] class = "Field" -> access \cup {"Const"}
       [] class = "Var" -> {"Const", "Constexpr", "Static"}
       [] class \in MethodClasses ->
            access \cup function \cup {"Default", "Const", "Virtual", "Pure", "Final", "Override"}
       [] class = "ParmVar" -> {"Const"}
       [] OTHER -> {}

\* mutant of FlagsOf: the flags are those of the declaration
FlagsOfLast(D, old) == D.props \cap (FlagsRead(D.class) \cup {"Local", "Final"})

\* fillSymbol on the flags that a symbol has from an earlier declaration; that
\* it is local, or final, is only ever set
FlagsOf(D, old) ==
  (old.flags \ FlagsRead(D.class)) \cup (D.props \cap FlagsRead(D.class))
    \cup (D.props \cap {"Local"})
    \cup (IF D.class = "CXXRecord" THEN D.props \cap {"Final"} ELSE {})
    \cup (IF KindOf(D) \in TemplateParameters THEN {"Local"} ELSE {})

\* process(d) returns null: d is met for the first time and has no usr
NotASymbol(c, d) == d \notin DOMAIN c.ids /\ U.decl[d].usr = NoSymbol

\* the id of the symbol that process(d) returns, once it was called
IdOf(c, d) == SymbolAt(c.symbols, c.ids[d]).id

\* fillSymbol
Fill(c, d, old) ==
  LET D == U.decl[d]
      parent == Scope[d]
  IN [id |-> D.usr,
      name |-> NameOf(D, old),
      kind |-> KindOf(D),
      parent |-> IF parent = NoDecl \/ NotASymbol(c, parent) THEN old.parent
                 ELSE IF parent \in DOMAIN c.ids THEN IdOf(c, parent)
                 ELSE U.decl[parent].usr,
      flags |-> FlagsOf(D, old)]

\* the declarations on which process() is called for process(d): fillSymbol
\* goes to the parent of those that are new and have a usr
Processed(c, d) ==
  LET upwards[x \in DOMAIN U.decl] ==
        {x} \cup (IF x \in DOMAIN c.ids \/ U.decl[x].usr = NoSymbol \/ Scope[x] = NoDecl
                    THEN {} ELSE upwards[Scope[x]])
  IN upwards[d]

\* SymbolCollector::process(decl).  A declaration without usr stays in the
\* cache with the invalid id, and gets a blank symbol the second time.
Collect(c, d) ==
  LET met == Processed(c, d)
      found == {c.ids[x] : x \in met \cap DOMAIN c.ids}
      filled == {Fill(c, x, SymbolAt(c.symbols, U.decl[x].usr)) :
                   x \in {y \in met : ~NotASymbol(c, y)} \ DOMAIN c.ids}
  IN [ids |-> Over([x \in met \ DOMAIN c.ids |-> U.decl[x].usr], c.ids),
      symbols |->
        Over([s \in {r.id : r \in filled} |-> CHOOSE r \in filled : r.id = s],
             Over([s \in found |-> SymbolAt(c.symbols, s)], c.symbols))]

SetFlag(symbols, s, flag) == [symbols EXCEPT ![s].flags = @ \cup {flag}]

-----------------------------------------------------------------------------
(* The callbacks.                                                          *)

\* a new index for unit u, also after a unit that never came to finish
NewUnit(u) ==
  /\ u \in DOMAIN Unit \ started
  /\ phase' = "indexing"
  /\ unit' = u
  /\ accepted' \in SUBSET ({Unit[u].file[cf] : cf \in DOMAIN Unit[u].file} \ {NoFile})
  /\ index' = NewIndex(Unit[u].file[Unit[u].main])
  /\ fileIds' = [cf \in {Unit[u].main} |-> Unit[u].file[cf]]
  /\ started' = started \cup {u}
  /\ callbacks' = 0

\* SymbolCollector::reset
ResetCollector == declIds' = EmptyFunction /\ macroIds' = EmptyFunction /\ moduleIds' = EmptyFunction

\* mutants of Initialize: caches outlive the unit
InitializeKeepingAnswers(u) == NewUnit(u) /\ ResetCollector /\ UNCHANGED answers
InitializeKeepingSymbols(u) == NewUnit(u) /\ UNCHANGED symbolCaches /\ answers' = EmptyFunction

\* Indexer::initialize
Initialize(u) == NewUnit(u) /\ ResetCollector /\ answers' = EmptyFunction

\* clang calls back about something at a location in cf, and shouldIndexFile
\* is asked
Callback(cf) ==
  /\ phase = "indexing"
  /\ callbacks < MaxCallbacks
  /\ callbacks' = callbacks + 1
  /\ AskAbout({cf}, {cf})
  /\ UNCHANGED <<phase, unit, accepted, started>>

ReferenceFlags == {"Declaration", "Definition", "Read", "Write", "Call", "Dynamic", "AddressOf", "Implicit"}
Declares(flags) == flags \cap {"Declaration", "Definition"} # {}

Reference(loc, s, caller, flags) ==
  [file |-> FileIdOf(loc.cf), key |-> Position(loc), symbol |-> s, to |-> caller, flags |-> flags]

\* the index with a reference in cf more
WithReference(cf, symbols, r) ==
  [index EXCEPT !.files = @ \cup NewlyIndexed({cf}), !.symbols = symbols, !.rows["reference"] = @ \cup {r}]

\* processRelations: the collector after each of the relations
Collectors(c, relations) ==
  LET after[i \in 0 .. Len(relations)] ==
        IF i = 0 THEN c ELSE Collect(after[i - 1], relations[i].decl)
  IN after

\* what s is related to by role, of the symbols that these collectors returned
Related(s, relations, cs, role) ==
  {<<s, IdOf(cs[i], relations[i].decl)>> :
     i \in {j \in DOMAIN relations :
              relations[j].role = role /\ ~NotASymbol(cs[j - 1], relations[j].decl)}}

\* the roles of an occurrence that a reference has, and whether it is implicit
DeclFlags(o) ==
  (o.roles \cap ReferenceFlags)
    \cup (IF o.unwritten \/ (Declares(o.roles) /\ "implicit" \in U.decl[o.decl].props)
            THEN {"Implicit"} ELSE {})

\* the collector c once process was called on the function that o is in
WithCaller(c, o) == IF o.function = NoDecl THEN c ELSE Collect(c, o.function)

\* the id of that function, of which the collector knew c before
Caller(c, withCaller, o) ==
  IF o.function = NoDecl \/ NotASymbol(c, o.function) THEN NoSymbol ELSE IdOf(withCaller, o.function)

\* the collector c with "from project" for o, if it is declared there
Flagged(c, o) ==
  IF Declares(o.roles) THEN [c EXCEPT !.symbols = SetFlag(@, c.ids[o.decl], "FromProject")] ELSE c

\* the relations that processRelations looks at
Relations(o) == SelectSeq(o.relations, LAMBDA r : r.role \in {"BaseOf", "OverrideOf"})

\* What clang knows of a unit is about its own declarations, macros, modules
\* and clang::FileIDs, and no declaration is in itself.
ASSUME UnitAssumption ==
  \A u \in DOMAIN Unit :
    LET X == Unit[u]
        Decl == DOMAIN X.decl
        File == DOMAIN X.file
    IN /\ X.main \in File
       /\ NoDecl \notin Decl
       /\ \A d \in Decl : X.decl[d].scope \in Decl \cup {NoDecl}
       /\ \A S \in SUBSET Decl : S # {} => \E d \in S : X.decl[d].scope \notin S
       /\ \A d \in Decl : \A r \in X.decl[d].redecls : r.begin.cf \in File /\ r.end.cf \in File
       /\ \A o \in X.decls : /\ o.decl \in Decl /\ o.function \in Decl \cup {NoDecl} /\ o.loc.cf \in File
                             /\ Relations(o) \in Seq([role : {"BaseOf", "OverrideOf"}, decl : Decl])
       /\ \A o \in X.macros : o.macro \in DOMAIN X.macro /\ o.loc.cf \in File
       /\ \A o \in X.modules : o.module \in DOMAIN X.module /\ o.loc.cf \in File
       /\ \A d \in X.diagnostics : d.loc.cf \in File
       /\ \A i \in X.inclusions \cup X.calls : i.cf \in File

\* the caches and the index with the reference to s that o is, and its
\* relations; cs are the collectors after each of these
WithOccurrence(o, s, caller, relations, cs) ==
  /\ declIds' = cs[Len(relations)].ids
  /\ index' = [WithReference(o.loc.cf, cs[Len(relations)].symbols,
                             Reference(o.loc, s, caller, DeclFlags(o)))
                 EXCEPT !.baseOfs = @ \cup Related(s, relations, cs, "BaseOf"),
                        !.overrides = @ \cup Related(s, relations, cs, "OverrideOf")]

DeclOccurrence(o) ==
  /\ Callback(o.loc.cf)
  /\ \/ /\ ~Answer(o.loc.cf)
        /\ UNCHANGED <<declIds, index>>
     \/ /\ Answer(o.loc.cf) /\ NotASymbol(Collector, o.decl)
        /\ declIds' = Collect(Collector, o.decl).ids
        /\ index' = [index EXCEPT !.files = @ \cup NewlyIndexed({o.loc.cf})]
     \/ /\ Answer(o.loc.cf) /\ ~NotASymbol(Collector, o.decl)
        /\ \E c \in {Collect(Collector, o.decl)} : \E d \in {WithCaller(c, o)} :
             \E cs \in {Collectors(Flagged(d, o), Relations(o))} :
               WithOccurrence(o, IdOf(c, o.decl), Caller(c, d, o), Relations(o), cs)
  /\ UNCHANGED <<macroIds, moduleIds>>

\* process(macro) and process(module): without usr there is no symbol, and
\* nothing stays in the cache
Named(symbols, s, name, kind) ==
  Over([x \in {s} |-> [SymbolAt(symbols, s) EXCEPT !.id = s, !.name = name, !.kind = kind]], symbols)

MacroOccurrence(o) ==
  LET cf == o.loc.cf
      M == U.macro[o.macro]
      ids == Over(macroIds, [m \in {o.macro} |-> M.usr])
      s == ids[o.macro]
      symbols == IF o.macro \in DOMAIN macroIds
                   THEN Over(index.symbols, [x \in {s} |-> BlankSymbol])
                   ELSE Named(index.symbols, s, M.name, "Macro")
      flags == (symbols[s].flags \ {"FunctionLike"}) \cup (M.props \cap {"FunctionLike"})
                 \cup (IF Declares(o.roles) THEN {"FromProject"} ELSE {})
  IN /\ Callback(cf)
     /\ \/ /\ ~Answer(cf)
           /\ UNCHANGED <<macroIds, index>>
        \/ /\ Answer(cf) /\ M.usr = NoSymbol
           /\ index' = [index EXCEPT !.files = @ \cup NewlyIndexed({cf})]
           /\ UNCHANGED macroIds
        \/ /\ Answer(cf) /\ M.usr # NoSymbol
           /\ macroIds' = ids
           /\ index' = WithReference(cf, [symbols EXCEPT ![s].flags = flags],
                                     Reference(o.loc, symbols[s].id, NoSymbol,
                                               o.roles \cap {"Declaration", "Definition"}))
     /\ UNCHANGED <<declIds, moduleIds>>

ModuleOccurrence(o) ==
  LET cf == o.loc.cf
      M == U.module[o.module]
      ids == Over(moduleIds, [m \in {o.module} |-> M.usr])
      s == ids[o.module]
      symbols == IF o.module \in DOMAIN moduleIds
                   THEN Over(index.symbols, [x \in {s} |-> BlankSymbol])
                   ELSE Named(index.symbols, s, M.name, "Module")
  IN /\ Callback(cf)
     /\ \/ /\ ~Answer(cf)
           /\ UNCHANGED <<moduleIds, index>>
        \/ /\ Answer(cf) /\ M.usr = NoSymbol
           /\ index' = [index EXCEPT !.files = @ \cup NewlyIndexed({cf})]
           /\ UNCHANGED moduleIds
        \/ /\ Answer(cf) /\ M.usr # NoSymbol
           /\ moduleIds' = ids
           /\ index' = WithReference(cf, symbols, Reference(o.loc, symbols[s].id, NoSymbol, {}))
     /\ UNCHANGED <<declIds, macroIds>>

\* HandleDiagnostic, on a diagnostic with a location; those that come before
\* initialize or after finish are only printed
Diagnose(d) ==
  LET cf == d.loc.cf
      row == [file |-> FileIdOf(cf), key |-> <<Position(d.loc), d.message>>,
              symbol |-> NoSymbol, to |-> NoSymbol]
  IN /\ Callback(cf)
     /\ index' = [index EXCEPT
          !.files = @ \cup NewlyIndexed({cf}),
          !.rows["diagnostic"] = @ \cup (IF Answer(cf) /\ FileIdOf(cf) # NoFile THEN {row} ELSE {})]
     /\ UNCHANGED symbolCaches

-----------------------------------------------------------------------------
(* The end of a unit.                                                      *)

SameLocation(a, b) == a.file = b.file /\ a.key = b.key
SameReference(a, b) == SameLocation(a, b) /\ a.symbol = b.symbol
Explicit(r) == "Implicit" \notin r.flags

\* mutant of SortAndRemoveDuplicates: callers do not count
UniqueReferences(refs) ==
  {K \in SUBSET refs :
     /\ \A r \in refs : \E k \in K : SameReference(r, k)
     /\ \A a, b \in K : SameReference(a, b) => a = b}

\* sortAndRemoveDuplicates(symReferences): of the references to a symbol at a
\* location one is left, one with a caller if there is any.  Flags are not
\* compared, and std::sort is not stable.
SortAndRemoveDuplicates(refs) ==
  LET first == {r \in refs : r.to # NoSymbol \/ \A q \in refs : SameReference(q, r) => q.to = NoSymbol}
  IN {K \in SUBSET first :
        /\ \A r \in first : \E k \in K : SameReference(r, k)
        /\ \A a, b \in K : SameReference(a, b) => a = b}

\* the identifier that is written where a reference is, if it is one
Spelling(r) == {t.name : t \in {x \in U.token : x.file = r.file /\ Position(x.at) = r.key}}

\* mutant of Primary: the written name decides, whether or not it is there
PrimaryByName(E, symbols) == {r \in E : symbols[r.symbol].name \in Spelling(r)}

\* those of the explicit references E at one location that stay explicit
Primary(E, symbols) ==
  LET OfRole(role) == {r \in E : role \in r.flags}
      OfKind(kinds) == {r \in E : symbols[r.symbol].kind \in kinds}
      written == {r \in E : symbols[r.symbol].name \in Spelling(r)}
      constructors == OfKind({"Constructor"})
  IN CASE Cardinality(E) <= 1 -> E
       [] Cardinality(E) > 1 /\ Cardinality(OfRole("Definition")) = 1 -> OfRole("Definition")
       [] Cardinality(E) > 1 /\ OfRole("Definition") = {} /\ Cardinality(OfRole("Declaration")) = 1 ->
            OfRole("Declaration")
       [] OTHER ->
            IF Cardinality(E) = 2 /\ Cardinality(constructors) = 1
                 /\ Cardinality(OfKind({"Class", "Struct"})) = 1
              THEN constructors
            ELSE IF Cardinality(E) = 2 /\ Cardinality(constructors) = 1
                      /\ Cardinality(OfKind({"Field"})) = 1
              THEN E \ constructors
            ELSE IF Cardinality(written) = 1 THEN written ELSE E

MarkImplicitReferences(refs, symbols) ==
  LET Marked(r) ==
        LET E == {q \in refs : SameLocation(q, r) /\ Explicit(q)}
        IN IF r \in E \ Primary(E, symbols) THEN [r EXCEPT !.flags = @ \cup {"Implicit"}] ELSE r
  IN {Marked(r) : r \in refs}

\* process(MacroDefinitionRecord): only now is it known what is a header guard
WithHeaderGuards(symbols) ==
  LET known == {m \in DOMAIN macroIds : U.macro[m].current}
      Flags(s) ==
        IF \E m \in known : macroIds[m] = s /\ "guard" \in U.macro[m].props
          THEN symbols[s].flags \cup {"HeaderGuard"}
          ELSE symbols[s].flags
  IN [s \in DOMAIN symbols |-> [symbols[s] EXCEPT !.flags = Flags(s)]]

Includes ==
  {[file |-> FileIdOf(i.cf), key |-> i.line, symbol |-> NoSymbol, to |-> i.to] :
     i \in {x \in U.inclusions : Answer(x.cf) /\ x.to # NoFile}}

\* ClangAstVisitor::VisitCallExpr
RefArgs ==
  LET calls == {k \in U.calls : Answer(k.cf) /\ k.callee = "direct"}
  IN UNION {{[file |-> FileIdOf(k.cf), key |-> Position(a)] :
               a \in {x \in k.arguments : x.type = "T&"}} : k \in calls}

DeclaredKinds ==
  {"Enum", "EnumClass", "Struct", "Class", "Union", "Typedef", "TypeAlias", "Function", "Method",
   "StaticMethod", "Constructor", "Destructor", "Operator", "ConversionFunction", "Concept"}

\* recordSymbolDeclaration before it looks at the file
IsRecorded(symbol, range) ==
  /\ "Local" \notin symbol.flags
  /\ \/ symbol.kind \in DeclaredKinds
     \/ /\ symbol.kind \in {"Variable", "StaticProperty", "Field"}
        /\ symbol.flags \cap {"Const", "Constexpr"} # {}
        /\ range.definition

\* the redeclarations of every declaration that has a symbol, with it
Ranges(symbols) ==
  LET known == {d \in DOMAIN declIds : declIds[d] \in DOMAIN symbols}
  IN {x \in UNION {{[range |-> r, symbol |-> symbols[declIds[d]]] : r \in U.decl[d].redecls} : d \in known} :
        IsRecorded(x.symbol, x.range)}

\* mutant of Declarations: the file where the declaration begins
DeclarationsAtBegin(symbols) ==
  {[file |-> FileIdOf(x.range.begin.cf),
    key |-> <<Position(x.range.begin), Position(x.range.end), x.range.definition>>,
    symbol |-> x.symbol.id, to |-> NoSymbol] :
     x \in {y \in Ranges(symbols) : Answer(y.range.end.cf)}}

\* the file is where the declaration ends, wherever it begins
Declarations(symbols) ==
  {[file |-> FileIdOf(x.range.end.cf),
    key |-> <<Position(x.range.begin), Position(x.range.end), x.range.definition>>,
    symbol |-> x.symbol.id, to |-> NoSymbol] :
     x \in {y \in Ranges(symbols) : Answer(y.range.end.cf)}}

Finish ==
  LET symbols == WithHeaderGuards(index.symbols)
      ends == {x.range.end.cf : x \in Ranges(symbols)}
      asked == {i.cf : i \in U.inclusions} \cup {k.cf : k \in U.calls} \cup ends
      located == {x.range.begin.cf : x \in {y \in Ranges(symbols) : Answer(y.range.end.cf)}}
  IN /\ phase = "indexing"
     /\ \E refs \in SortAndRemoveDuplicates(index.rows["reference"]) :
          index' = [index EXCEPT
            !.files = @ \cup NewlyIndexed(asked),
            !.symbols = symbols,
            !.rows = [@ EXCEPT !["include"] = Includes,
                               !["reference"] = MarkImplicitReferences(refs, symbols),
                               !["declaration"] = Declarations(symbols)],
            !.refargs = RefArgs]
     /\ AskAbout(asked, located)
     /\ phase' = "finished"
     /\ UNCHANGED <<unit, accepted, symbolCaches, started, callbacks>>

\* the index is fed or queued, and resetCurrentIndex called
TakeIndex ==
  /\ phase = "finished"
  /\ phase' = "idle"
  /\ index' = NewIndex(NoFile)
  /\ UNCHANGED <<unit, accepted, fileCaches, symbolCaches, started, callbacks>>

Done == phase = "idle" /\ started = DOMAIN Unit /\ UNCHANGED vars

Next ==
  \/ \E u \in DOMAIN Unit : Initialize(u)
  \/ /\ phase = "indexing"
     /\ \/ \E o \in U.decls : DeclOccurrence(o)
        \/ \E o \in U.macros : MacroOccurrence(o)
        \/ \E o \in U.modules : ModuleOccurrence(o)
        \/ \E d \in U.diagnostics : Diagnose(d)
  \/ Finish \/ TakeIndex \/ Done

Spec == Init /\ [][Next]_vars

-----------------------------------------------------------------------------
(* Properties.                                                             *)

\* Every variable has its type.
TypeOK ==
  /\ phase \in {"idle", "indexing", "finished"}
  /\ unit \in DOMAIN Unit \cup {NoUnit}
  /\ started \subseteq DOMAIN Unit
  /\ phase # "idle" =>
       /\ DOMAIN answers \subseteq DOMAIN fileIds
       /\ DOMAIN fileIds \subseteq DOMAIN U.file
       /\ DOMAIN declIds \subseteq DOMAIN U.decl
       /\ DOMAIN macroIds \subseteq DOMAIN U.macro
       /\ DOMAIN moduleIds \subseteq DOMAIN U.module
  /\ index.files \subseteq accepted
  /\ \A s \in DOMAIN index.symbols : index.symbols[s].flags \subseteq Flag
  /\ callbacks \in 0 .. MaxCallbacks

\* What feed takes for granted of an index, at any time in the life of a unit:
\* every row is in a file that the unit was allowed to index, the symbols that
\* rows and relations mention are in the index.
IndexIsWellFormed == WellFormed(index)

\* The index belongs to the unit that is being indexed: a symbol has the id
\* under which it is found, whatever the declaration, macro or module that led
\* to it; parents are symbols of the index; and no cache knows an id, a file or
\* an answer of an earlier unit, which the rows of this one would then carry.
CachesAgree ==
  phase # "idle" =>
    /\ \A s \in DOMAIN index.symbols :
         /\ index.symbols[s].id = s
         /\ index.symbols[s].parent \in DOMAIN index.symbols \cup {NoSymbol}
    /\ \A d \in DOMAIN declIds : declIds[d] = U.decl[d].usr
    /\ {declIds[d] : d \in DOMAIN declIds} \subseteq DOMAIN index.symbols \cup {NoSymbol}
    /\ {macroIds[m] : m \in DOMAIN macroIds} \cup {moduleIds[m] : m \in DOMAIN moduleIds}
         \subseteq DOMAIN index.symbols \ {NoSymbol}
    /\ \A cf \in DOMAIN answers : answers[cf] <=> U.file[cf] \in index.files

\* A symbol is "from project" exactly if a reference in an indexed file
\* declares it, also when it was first met elsewhere or is filled again for
\* another of its declarations; while the duplicates of references are still
\* there to tell.
FromProjectMeansDeclared ==
  /\ \A r \in index.rows["reference"] :
       Declares(r.flags) => "FromProject" \in index.symbols[r.symbol].flags
  /\ phase = "indexing" =>
       \A s \in DOMAIN index.symbols :
         "FromProject" \in index.symbols[s].flags =>
           \E r \in index.rows["reference"] : r.symbol = s /\ Declares(r.flags)

Finishes == phase = "indexing" /\ phase' = "finished"

\* Removing duplicates loses no symbol at no location, and no caller: if one
\* of the references that are merged has one, so has the one that stays.
ReferencesSurviveFinish ==
  [][Finishes =>
       \A r \in index.rows["reference"] :
         \E k \in index'.rows["reference"] :
           /\ SameReference(k, r)
           /\ (r.to # NoSymbol => k.to # NoSymbol)
           /\ \A q \in index'.rows["reference"] : SameReference(q, r) => q = k]_vars

\* Where all references were explicit one still is, so that a reader finds a
\* symbol at every location where one is written.
LocationsKeepAPrimary ==
  [][Finishes =>
       \A r \in index.rows["reference"] :
         (\A q \in index.rows["reference"] : SameLocation(q, r) => Explicit(q)) =>
           \E k \in index'.rows["reference"] : SameLocation(k, r) /\ Explicit(k)]_vars
=============================================================================
