---------------------------- MODULE IndexerProofs ----------------------------
(***************************************************************************)
(* The inductive invariant of Indexer and the theorems that follow from    *)
(* it, for any number of units and whatever clang knows of them.           *)
(*                                                                         *)
(* Scope, Processed and Collectors are recursive functions.  Each is first *)
(* shown to exist: some function solves the equation that defines it.      *)
(***************************************************************************)
EXTENDS Indexer, FiniteSetTheorems, WellFoundedInduction, TLAPS

USE BoundAssumption

-----------------------------------------------------------------------------
(* What is known of the unit.                                              *)

\* UnitAssumption of the current unit.
LEMMA UnitFacts ==
  ASSUME unit \in DOMAIN Unit
  PROVE  /\ U.main \in DOMAIN U.file /\ NoDecl \notin DOMAIN U.decl
         /\ \A d \in DOMAIN U.decl : U.decl[d].scope \in DOMAIN U.decl \cup {NoDecl}
         /\ \A S \in SUBSET DOMAIN U.decl : S # {} => \E d \in S : U.decl[d].scope \notin S
         /\ \A d \in DOMAIN U.decl : \A r \in U.decl[d].redecls :
              r.begin.cf \in DOMAIN U.file /\ r.end.cf \in DOMAIN U.file
         /\ \A o \in U.decls :
              /\ o.decl \in DOMAIN U.decl /\ o.function \in DOMAIN U.decl \cup {NoDecl} /\ o.loc.cf \in DOMAIN U.file
              /\ Relations(o) \in Seq([role : {"BaseOf", "OverrideOf"}, decl : DOMAIN U.decl])
         /\ \A o \in U.macros : o.macro \in DOMAIN U.macro /\ o.loc.cf \in DOMAIN U.file
         /\ \A o \in U.modules : o.module \in DOMAIN U.module /\ o.loc.cf \in DOMAIN U.file
         /\ \A d \in U.diagnostics : d.loc.cf \in DOMAIN U.file
         /\ \A i \in U.inclusions \cup U.calls : i.cf \in DOMAIN U.file
BY UnitAssumption DEF U

\* getParentSymbol goes on from the scope of d.
Skipped(d) == U.decl[d].scope # NoDecl /\ U.decl[U.decl[d].scope].class \in {"LinkageSpec", "Export"}

\* The equation that Scope is defined by.
IsScope(f) == f = [d \in DOMAIN U.decl |-> IF Skipped(d) THEN f[U.decl[d].scope] ELSE U.decl[d].scope]

\* It has a solution: the scope of the last of the declarations that are in
\* every set with d and the scopes that are skipped.
LEMMA ScopeExists ==
  ASSUME unit \in DOMAIN Unit
  PROVE  \E f : IsScope(f)
<1> DEFINE Closed(P) == \A y \in P : Skipped(y) => U.decl[y].scope \in P
           Along(d) == {y \in DOMAIN U.decl : \A P \in SUBSET DOMAIN U.decl : Closed(P) /\ d \in P => y \in P}
           LastOf(d) == {y \in Along(d) : ~Skipped(y)}
           Pick(S) == CHOOSE y \in S : TRUE
           h == [d \in DOMAIN U.decl |-> U.decl[Pick(LastOf(d))].scope]
<1>1. \A d \in DOMAIN U.decl : Skipped(d) => U.decl[d].scope \in DOMAIN U.decl
  BY UnitFacts DEF Skipped
<1>2. ASSUME NEW d \in DOMAIN U.decl, Skipped(d)
      PROVE  Along(d) = {d} \cup Along(U.decl[d].scope)
  <2> DEFINE e == U.decl[d].scope
             Q == {d} \cup Along(e)
  <2>1. e \in DOMAIN U.decl
    BY <1>1, <1>2
  <2>2. Q \in SUBSET DOMAIN U.decl /\ Closed(Q) /\ d \in Q
    <3>1. e \in Along(e)
      BY <2>1
    <3>2. ASSUME NEW y \in Along(e), Skipped(y)
          PROVE  U.decl[y].scope \in Along(e)
      BY <1>1, <3>2
    <3>3. QED
      BY <3>1, <3>2
  <2>3. Along(d) \subseteq Q
    BY <2>2
  <2>4. Q \subseteq Along(d)
    BY <1>2
  <2>5. QED
    BY <2>3, <2>4
<1>3. ASSUME NEW d \in DOMAIN U.decl, ~Skipped(d)
      PROVE  LastOf(d) = {d}
  <2>1. {d} \in SUBSET DOMAIN U.decl /\ Closed({d})
    BY <1>3
  <2>2. QED
    BY <1>3, <2>1
<1>4. \A d \in DOMAIN U.decl : Skipped(d) => LastOf(d) = LastOf(U.decl[d].scope)
  BY <1>2
<1>0. \A d : Pick({d}) = d
  OBVIOUS
<1> HIDE DEF LastOf, Pick
<1>5. \A d \in DOMAIN U.decl : h[d] = IF Skipped(d) THEN h[U.decl[d].scope] ELSE U.decl[d].scope
  BY <1>0, <1>1, <1>3, <1>4
<1>6. IsScope(h)
  <2> HIDE DEF h
  <2>1. h = [d \in DOMAIN U.decl |-> h[d]]
    BY DEF h
  <2>2. QED
    BY <1>5, <2>1 DEF IsScope
<1>7. QED
  BY <1>6

\* Hence getParentSymbol goes on to the scope of linkage specifications and
\* exports.
LEMMA ScopeEquation ==
  ASSUME unit \in DOMAIN Unit, NEW d \in DOMAIN U.decl
  PROVE  Scope[d] = IF Skipped(d) THEN Scope[U.decl[d].scope] ELSE U.decl[d].scope
<1>1. Scope = CHOOSE f : IsScope(f)
  BY DEF Scope, IsScope, Skipped
<1>2. IsScope(Scope)
  BY <1>1, ScopeExists
<1>3. QED
  BY <1>2 DEF IsScope

\* The scope of a declaration is a declaration, and scopes end somewhere.
LEMMA ScopeFacts ==
  ASSUME unit \in DOMAIN Unit
  PROVE  /\ \A d \in DOMAIN U.decl : Scope[d] \in DOMAIN U.decl \cup {NoDecl}
         /\ \A S \in SUBSET DOMAIN U.decl : S # {} => \E d \in S : Scope[d] \notin S
<1>1. \A d \in DOMAIN U.decl : Scope[d] \in DOMAIN U.decl \cup {NoDecl}
  <2> DEFINE T == {d \in DOMAIN U.decl : Scope[d] \notin DOMAIN U.decl \cup {NoDecl}}
  <2> SUFFICES ASSUME T # {}
               PROVE  FALSE
    OBVIOUS
  <2>1. PICK d \in T : U.decl[d].scope \notin T
    <3>1. T \in SUBSET DOMAIN U.decl
      OBVIOUS
    <3>2. QED
      BY <3>1, UnitFacts
  <2>2. U.decl[d].scope \in DOMAIN U.decl \cup {NoDecl}
    BY UnitFacts
  <2>3. QED
    BY <2>1, <2>2, ScopeEquation DEF Skipped
<1>2. ASSUME NEW S \in SUBSET DOMAIN U.decl, S # {}, \A d \in S : Scope[d] \in S
      PROVE  FALSE
  <2> DEFINE T == {d \in DOMAIN U.decl : Scope[d] \in S}
  <2>1. T \in SUBSET DOMAIN U.decl /\ T # {} /\ S \subseteq T
    BY <1>2
  <2>2. PICK d \in T : U.decl[d].scope \notin T
    BY <2>1, UnitFacts
  <2>3. U.decl[d].scope \in DOMAIN U.decl \cup {NoDecl} /\ NoDecl \notin DOMAIN U.decl
    BY UnitFacts
  <2>4. QED
    BY <2>1, <2>2, <2>3, ScopeEquation DEF Skipped
<1>3. QED
  BY <1>1, <1>2

\* process looks at no scope of x.
Ends(c, x) == x \in DOMAIN c.ids \/ U.decl[x].usr = NoSymbol \/ Scope[x] = NoDecl

\* The equation that Processed is defined by.
IsUpwards(c, f) == f = [x \in DOMAIN U.decl |-> {x} \cup (IF Ends(c, x) THEN {} ELSE f[Scope[x]])]

\* It has a solution: what is in every set with x and the scopes looked at.
LEMMA UpwardsExists ==
  ASSUME unit \in DOMAIN Unit, NEW c
  PROVE  \E f : IsUpwards(c, f)
<1> DEFINE Closed(P) == \A y \in P : ~Ends(c, y) => Scope[y] \in P
           Along(d) == {y \in DOMAIN U.decl : \A P \in SUBSET DOMAIN U.decl : Closed(P) /\ d \in P => y \in P}
           h == [d \in DOMAIN U.decl |-> Along(d)]
<1>1. \A d \in DOMAIN U.decl : ~Ends(c, d) => Scope[d] \in DOMAIN U.decl
  BY ScopeFacts DEF Ends
<1>2. ASSUME NEW d \in DOMAIN U.decl, ~Ends(c, d)
      PROVE  Along(d) = {d} \cup Along(Scope[d])
  <2> DEFINE e == Scope[d]
             Q == {d} \cup Along(e)
  <2>1. e \in DOMAIN U.decl
    BY <1>1, <1>2
  <2>2. Q \in SUBSET DOMAIN U.decl /\ Closed(Q) /\ d \in Q
    <3>1. e \in Along(e)
      BY <2>1
    <3>2. ASSUME NEW y \in Along(e), ~Ends(c, y)
          PROVE  Scope[y] \in Along(e)
      BY <1>1, <3>2
    <3>3. QED
      BY <3>1, <3>2
  <2>3. Along(d) \subseteq Q
    BY <2>2
  <2>4. Q \subseteq Along(d)
    BY <1>2
  <2>5. QED
    BY <2>3, <2>4
<1>3. ASSUME NEW d \in DOMAIN U.decl, Ends(c, d)
      PROVE  Along(d) = {d}
  <2>1. {d} \in SUBSET DOMAIN U.decl /\ Closed({d})
    BY <1>3
  <2>2. QED
    BY <2>1
<1>4. \A d \in DOMAIN U.decl : h[d] = {d} \cup (IF Ends(c, d) THEN {} ELSE h[Scope[d]])
  BY <1>1, <1>2, <1>3
<1>5. IsUpwards(c, h)
  <2> HIDE DEF h
  <2>1. h = [d \in DOMAIN U.decl |-> h[d]]
    BY DEF h
  <2>2. QED
    BY <1>4, <2>1 DEF IsUpwards
<1>6. QED
  BY <1>5

\* Hence process goes on to the scope of what it sees for the first time.
LEMMA ProcessedEquation ==
  ASSUME unit \in DOMAIN Unit, NEW c, NEW x \in DOMAIN U.decl
  PROVE  Processed(c, x) = {x} \cup IF Ends(c, x) THEN {} ELSE Processed(c, Scope[x])
<1> DEFINE g == CHOOSE f : IsUpwards(c, f)
<1>1. \A d : Processed(c, d) = g[d]
  BY DEF Processed, IsUpwards, Ends
<1>2. IsUpwards(c, g)
  BY UpwardsExists
<1> HIDE DEF g
<1>3. QED
  BY <1>1, <1>2 DEF IsUpwards

\* The declarations that process looks at for d: d, and the scope of each that
\* it sees for the first time.
LEMMA ProcessedFacts ==
  ASSUME unit \in DOMAIN Unit, NEW c, NEW d \in DOMAIN U.decl
  PROVE  /\ d \in Processed(c, d) /\ Processed(c, d) \subseteq DOMAIN U.decl
         /\ \A x \in Processed(c, d) : ~Ends(c, x) => Scope[x] \in Processed(c, d)
<1> DEFINE Closed(P) == P \subseteq DOMAIN U.decl /\ \A y \in P : Ends(c, y) \/ Scope[y] \in P
           T == {x \in DOMAIN U.decl : ~Closed(Processed(c, x))}
<1>1. T = {}
  <2> SUFFICES ASSUME T # {}
               PROVE  FALSE
    OBVIOUS
  <2>1. T \in SUBSET DOMAIN U.decl
    OBVIOUS
  <2>2. PICK x \in T : Scope[x] \notin T
    BY <2>1, ScopeFacts
  <2>3. Scope[x] \in DOMAIN U.decl \/ Ends(c, x)
    BY ScopeFacts DEF Ends
  <2>4. CASE Ends(c, x)
    BY <2>2, <2>4, ProcessedEquation
  <2>5. CASE ~Ends(c, x)
    <3>1. Scope[x] \in DOMAIN U.decl /\ Closed(Processed(c, Scope[x]))
      BY <2>2, <2>3, <2>5
    <3>2. Scope[x] \in Processed(c, Scope[x])
      BY <3>1, ProcessedEquation
    <3>3. QED
      BY <2>2, <2>5, <3>1, <3>2, ProcessedEquation
  <2>6. QED
    BY <2>4, <2>5
<1>2. QED
  BY <1>1, ProcessedEquation

-----------------------------------------------------------------------------
(* SymbolCollector.                                                        *)

\* Symbols are found under their ids and have parents among them.
GoodSymbols(symbols) ==
  /\ symbols = [s \in DOMAIN symbols |-> symbols[s]]
  /\ \A s \in DOMAIN symbols :
       /\ symbols[s] = [id |-> s, name |-> symbols[s].name, kind |-> symbols[s].kind,
                        parent |-> symbols[s].parent, flags |-> symbols[s].flags]
       /\ symbols[s].parent \in DOMAIN symbols \cup {NoSymbol}
       /\ symbols[s].flags \subseteq Flag

\* What the collector knows is about this unit.
GoodCollector(c) ==
  /\ c = [ids |-> c.ids, symbols |-> c.symbols]
  /\ DOMAIN c.ids \subseteq DOMAIN U.decl
  /\ \A d \in DOMAIN c.ids : c.ids[d] = U.decl[d].usr /\ c.ids[d] \in DOMAIN c.symbols \cup {NoSymbol}
  /\ GoodSymbols(c.symbols)

\* s is a symbol of the project.
FromProject(symbols, s) == s \in DOMAIN symbols /\ "FromProject" \in symbols[s].flags

\* operator[] finds or creates a symbol.
LEMMA SymbolAtFacts ==
  ASSUME NEW symbols, GoodSymbols(symbols), NEW s
  PROVE  /\ SymbolAt(symbols, s).id \in {s, NoSymbol}
         /\ s \in DOMAIN symbols \cup {NoSymbol} => SymbolAt(symbols, s).id = s
         /\ SymbolAt(symbols, s) = [id |-> SymbolAt(symbols, s).id, name |-> SymbolAt(symbols, s).name,
                                    kind |-> SymbolAt(symbols, s).kind, parent |-> SymbolAt(symbols, s).parent,
                                    flags |-> SymbolAt(symbols, s).flags]
         /\ SymbolAt(symbols, s).parent \in DOMAIN symbols \cup {NoSymbol}
         /\ SymbolAt(symbols, s).flags \subseteq Flag
         /\ "FromProject" \in SymbolAt(symbols, s).flags <=> FromProject(symbols, s)
<1>1. CASE s \in DOMAIN symbols
  BY <1>1 DEF GoodSymbols, SymbolAt, FromProject
<1>2. CASE s \notin DOMAIN symbols
  BY <1>2 DEF SymbolAt, BlankSymbol, FromProject
<1>3. QED
  BY <1>1, <1>2

\* fillSymbol leaves "from project" as it is.
LEMMA FlagsFacts ==
  ASSUME unit \in DOMAIN Unit, NEW d \in DOMAIN U.decl, NEW old, old.flags \subseteq Flag
  PROVE  /\ FlagsOf(U.decl[d], old) \subseteq Flag
         /\ "FromProject" \in FlagsOf(U.decl[d], old) <=> "FromProject" \in old.flags
<1> DEFINE D == U.decl[d]
<1>1. FlagsRead(D.class) \subseteq Flag /\ "FromProject" \notin FlagsRead(D.class)
  BY DEF FlagsRead, Flag
<1>2. "Local" \in Flag /\ "Final" \in Flag
  BY DEF Flag
<1> HIDE DEF D
<1>3. /\ FlagsOf(D, old) \subseteq old.flags \cup FlagsRead(D.class) \cup {"Local", "Final"}
      /\ "FromProject" \in old.flags => "FromProject" \in FlagsOf(D, old)
  BY <1>1 DEF FlagsOf
<1>4. QED
  BY <1>1, <1>2, <1>3 DEF D

\* What process does to the collector.
LEMMA CollectFacts ==
  ASSUME unit \in DOMAIN Unit, NEW c, GoodCollector(c), NEW d \in DOMAIN U.decl
  PROVE  /\ GoodCollector(Collect(c, d))
         /\ DOMAIN c.symbols \subseteq DOMAIN Collect(c, d).symbols
         /\ DOMAIN c.ids \cup {d} \subseteq DOMAIN Collect(c, d).ids
         /\ DOMAIN Collect(c, d).ids = DOMAIN c.ids \cup Processed(c, d)
         /\ ~NotASymbol(c, d) => U.decl[d].usr \in DOMAIN Collect(c, d).symbols
         /\ \A s : FromProject(Collect(c, d).symbols, s) <=> FromProject(c.symbols, s)
<1> DEFINE met == Processed(c, d)
           found == {c.ids[x] : x \in met \cap DOMAIN c.ids}
           New == {y \in met : ~NotASymbol(c, y)} \ DOMAIN c.ids
           filled == {Fill(c, x, SymbolAt(c.symbols, U.decl[x].usr)) : x \in New}
           newIds == [x \in met \ DOMAIN c.ids |-> U.decl[x].usr]
           kept == [s \in found |-> SymbolAt(c.symbols, s)]
           made == [s \in {r.id : r \in filled} |-> CHOOSE r \in filled : r.id = s]
           ids == Over(newIds, c.ids)
           symbols == Over(made, Over(kept, c.symbols))
<1>1. Collect(c, d) = [ids |-> ids, symbols |-> symbols]
  BY DEF Collect
<1>2. d \in met /\ met \subseteq DOMAIN U.decl
  BY ProcessedFacts
<1>3. \A x \in met : ~Ends(c, x) => Scope[x] \in met
  BY ProcessedFacts
<1> HIDE DEF met
<1>4. \A r \in filled : \E x \in New : r = Fill(c, x, SymbolAt(c.symbols, U.decl[x].usr)) /\ r.id = U.decl[x].usr
  BY DEF Fill
<1>5. {r.id : r \in filled} = {U.decl[x].usr : x \in New}
  <2>1. \A x \in New : Fill(c, x, SymbolAt(c.symbols, U.decl[x].usr)).id = U.decl[x].usr
    BY DEF Fill
  <2> HIDE DEF New
  <2>2. QED
    BY <2>1
<1>6. \A x \in New : x \in met /\ x \in DOMAIN U.decl /\ U.decl[x].usr # NoSymbol
  BY <1>2 DEF NotASymbol
<1>7. \A s \in {U.decl[x].usr : x \in New} : made[s] \in filled /\ made[s].id = s
  BY <1>5
<1>8. DOMAIN made = {U.decl[x].usr : x \in New} /\ DOMAIN kept = found /\ DOMAIN newIds = met \ DOMAIN c.ids
  BY <1>5
<1>9. \A s \in found : kept[s] = SymbolAt(c.symbols, s)
  OBVIOUS
<1>10. \A x \in met \ DOMAIN c.ids : newIds[x] = U.decl[x].usr
  OBVIOUS
<1>11. found \subseteq DOMAIN c.symbols \cup {NoSymbol}
  BY DEF GoodCollector
<1>12. \A x \in met \cap DOMAIN c.ids : U.decl[x].usr \in found
  BY DEF GoodCollector
<1>13. \A x \in met : x \notin DOMAIN c.ids /\ U.decl[x].usr # NoSymbol => x \in New
  BY DEF NotASymbol
<1> DEFINE inner == Over(kept, c.symbols)
<1> HIDE DEF found, New, filled, newIds, kept, made
<1>14. /\ DOMAIN ids = DOMAIN c.ids \cup met
       /\ \A x \in DOMAIN ids : ids[x] = IF x \in DOMAIN c.ids THEN c.ids[x] ELSE U.decl[x].usr
  <2>1. DOMAIN ids = DOMAIN c.ids \cup DOMAIN newIds /\ \A x \in DOMAIN newIds : ids[x] = newIds[x]
    BY DEF Over
  <2>2. \A x \in DOMAIN c.ids \ DOMAIN newIds : ids[x] = c.ids[x]
    BY DEF Over
  <2> HIDE DEF ids
  <2>3. QED
    BY <1>8, <1>10, <2>1, <2>2
<1>15. /\ DOMAIN inner = DOMAIN c.symbols \cup found
       /\ \A s \in DOMAIN inner : inner[s] = SymbolAt(c.symbols, s)
  <2>1. DOMAIN inner = DOMAIN c.symbols \cup DOMAIN kept /\ \A s \in DOMAIN kept : inner[s] = kept[s]
    BY DEF Over
  <2>2. \A s \in DOMAIN c.symbols \ DOMAIN kept : inner[s] = c.symbols[s]
    BY DEF Over
  <2> HIDE DEF inner
  <2>3. QED
    BY <1>8, <1>9, <2>1, <2>2 DEF SymbolAt
<1> HIDE DEF inner
<1>16. /\ DOMAIN symbols = DOMAIN c.symbols \cup found \cup DOMAIN made
       /\ \A s \in DOMAIN symbols : symbols[s] = IF s \in DOMAIN made THEN made[s] ELSE SymbolAt(c.symbols, s)
       /\ symbols = [s \in DOMAIN symbols |-> symbols[s]]
  <2>1. symbols = Over(made, inner)
    BY DEF inner
  <2>2. DOMAIN symbols = DOMAIN inner \cup DOMAIN made /\ \A s \in DOMAIN made : symbols[s] = made[s]
    BY <2>1 DEF Over
  <2>3. \A s \in DOMAIN inner \ DOMAIN made : symbols[s] = inner[s]
    BY <2>1 DEF Over
  <2>4. symbols = [s \in DOMAIN symbols |-> symbols[s]]
    BY <2>1 DEF Over
  <2> HIDE DEF symbols
  <2>5. QED
    BY <1>15, <2>2, <2>3, <2>4
<1> HIDE DEF ids, symbols
<1>17. \A x \in met : U.decl[x].usr \in DOMAIN symbols \cup {NoSymbol}
  BY <1>8, <1>12, <1>13, <1>16
<1>18. \A x \in DOMAIN ids : ids[x] = U.decl[x].usr /\ ids[x] \in DOMAIN symbols \cup {NoSymbol}
  BY <1>14, <1>16, <1>17 DEF GoodCollector
<1>19. ASSUME NEW s \in DOMAIN made
       PROVE  /\ made[s] = [id |-> s, name |-> made[s].name, kind |-> made[s].kind,
                            parent |-> made[s].parent, flags |-> made[s].flags]
              /\ made[s].parent \in DOMAIN symbols \cup {NoSymbol}
              /\ made[s].flags \subseteq Flag
              /\ "FromProject" \in made[s].flags <=> FromProject(c.symbols, s)
  <2>1. made[s] \in filled /\ made[s].id = s
    BY <1>7, <1>8, <1>19
  <2>2. PICK x \in New : made[s] = Fill(c, x, SymbolAt(c.symbols, U.decl[x].usr)) /\ made[s].id = U.decl[x].usr
    BY <1>4, <2>1
  <2> DEFINE old == SymbolAt(c.symbols, s)
  <2>3. made[s] = Fill(c, x, old) /\ x \in met /\ x \in DOMAIN U.decl /\ U.decl[x].usr = s /\ s # NoSymbol
    BY <1>6, <2>1, <2>2
  <2>4. /\ old.parent \in DOMAIN c.symbols \cup {NoSymbol} /\ old.flags \subseteq Flag
        /\ "FromProject" \in old.flags <=> FromProject(c.symbols, s)
    BY SymbolAtFacts DEF GoodCollector
  <2> HIDE DEF old
  <2>5. made[s].flags = FlagsOf(U.decl[x], old) /\ made[s].id = s
        /\ made[s] = [id |-> s, name |-> made[s].name, kind |-> made[s].kind,
                      parent |-> made[s].parent, flags |-> made[s].flags]
    BY <2>3 DEF Fill
  <2>6. made[s].parent \in DOMAIN symbols \cup {NoSymbol}
    <3> DEFINE p == Scope[x]
    <3>1. made[s].parent = IF p = NoDecl \/ NotASymbol(c, p) THEN old.parent
                           ELSE IF p \in DOMAIN c.ids THEN IdOf(c, p)
                           ELSE U.decl[p].usr
      BY <2>3 DEF Fill
    <3>2. CASE p = NoDecl \/ NotASymbol(c, p)
      BY <1>16, <2>4, <3>1, <3>2
    <3>3. CASE ~(p = NoDecl \/ NotASymbol(c, p)) /\ p \in DOMAIN c.ids
      <4>1. IdOf(c, p) \in DOMAIN c.symbols \cup {NoSymbol}
        <5>1. GoodSymbols(c.symbols) /\ c.ids[p] \in DOMAIN c.symbols \cup {NoSymbol}
          BY <3>3 DEF GoodCollector
        <5>2. IdOf(c, p) \in {c.ids[p], NoSymbol}
          BY <5>1, SymbolAtFacts DEF IdOf
        <5>3. QED
          BY <5>1, <5>2
      <4>2. QED
        BY <1>16, <3>1, <3>3, <4>1
    <3>4. CASE ~(p = NoDecl \/ NotASymbol(c, p)) /\ p \notin DOMAIN c.ids
      <4>1. ~Ends(c, x)
        <5>1. x \notin DOMAIN c.ids
          BY <2>2 DEF New
        <5>2. QED
          BY <2>3, <3>4, <5>1 DEF Ends
      <4>2. p \in met
        BY <1>3, <2>3, <4>1
      <4>3. QED
        BY <1>17, <3>1, <3>4, <4>2
    <3>5. QED
      BY <3>2, <3>3, <3>4
  <2>7. QED
    BY <2>3, <2>4, <2>5, <2>6, FlagsFacts
<1>20. GoodSymbols(symbols)
  <2>1. ASSUME NEW s \in DOMAIN symbols, s \notin DOMAIN made
        PROVE  /\ symbols[s] = [id |-> s, name |-> symbols[s].name, kind |-> symbols[s].kind,
                                parent |-> symbols[s].parent, flags |-> symbols[s].flags]
               /\ symbols[s].parent \in DOMAIN symbols \cup {NoSymbol}
               /\ symbols[s].flags \subseteq Flag
    <3>1. symbols[s] = SymbolAt(c.symbols, s) /\ s \in DOMAIN c.symbols \cup {NoSymbol}
      BY <1>11, <1>16, <2>1
    <3>2. GoodSymbols(c.symbols) /\ SymbolAt(c.symbols, s).id = s
      BY <3>1, SymbolAtFacts DEF GoodCollector
    <3>3. /\ SymbolAt(c.symbols, s).parent \in DOMAIN symbols \cup {NoSymbol}
          /\ SymbolAt(c.symbols, s).flags \subseteq Flag
      BY <1>16, <3>2, SymbolAtFacts
    <3>4. QED
      BY <3>1, <3>2, <3>3, SymbolAtFacts
  <2>2. QED
    BY <1>16, <1>19, <2>1 DEF GoodSymbols
<1>21. GoodCollector(Collect(c, d))
  BY <1>1, <1>2, <1>14, <1>18, <1>20 DEF GoodCollector
<1>22. ~NotASymbol(c, d) => U.decl[d].usr \in DOMAIN symbols
  BY <1>2, <1>8, <1>12, <1>13, <1>16 DEF NotASymbol
<1>23. ASSUME NEW s
       PROVE  FromProject(symbols, s) <=> FromProject(c.symbols, s)
  <2>1. CASE s \in DOMAIN made
    BY <1>16, <1>19, <2>1 DEF FromProject
  <2>2. CASE s \in DOMAIN symbols /\ s \notin DOMAIN made
    <3>1. symbols[s] = SymbolAt(c.symbols, s)
      BY <1>16, <2>2
    <3>2. QED
      BY <2>2, <3>1, SymbolAtFacts DEF FromProject, GoodCollector
  <2>3. CASE s \notin DOMAIN symbols
    BY <1>16, <2>3 DEF FromProject
  <2>4. QED
    BY <2>1, <2>2, <2>3
<1>24. DOMAIN ids = DOMAIN c.ids \cup Processed(c, d)
  BY <1>14 DEF met
<1>25. QED
  BY <1>1, <1>2, <1>14, <1>16, <1>21, <1>22, <1>23, <1>24

-----------------------------------------------------------------------------
(* processRelations.                                                       *)

\* Every set of naturals that is not empty has a least element.
LEMMA LeastExists ==
  ASSUME NEW T, T \subseteq Nat, T # {}
  PROVE  \E x \in T : \A y \in T : x <= y
<1> DEFINE R == StrictSubsetOrdering(Nat)
           W == {0 .. n : n \in T}
<1>1. IsWellFoundedOn(R, FiniteSubsetsOf(Nat))
  BY FS_StrictSubsetOrderingWellFounded
<1>2. W \subseteq FiniteSubsetsOf(Nat) /\ W # {}
  <2>1. \A n \in T : IsFiniteSet(0 .. n) /\ 0 .. n \subseteq Nat
    BY FS_Interval
  <2>2. QED
    BY <2>1 DEF FiniteSubsetsOf
<1> HIDE DEF W, R
<1>3. PICK w \in W : \A v \in W : ~ (<<v, w>> \in R)
  BY <1>1, <1>2, WFMin
<1>4. PICK x \in T : w = 0 .. x
  BY DEF W
<1>5. ASSUME NEW y \in T
      PROVE  x <= y
  <2> SUFFICES ASSUME y < x
               PROVE  FALSE
    OBVIOUS
  <2>1. 0 .. y \in W
    BY DEF W
  <2>2. 0 .. y \subseteq 0 .. x /\ x \in 0 .. x /\ x \notin 0 .. y /\ 0 .. x \subseteq Nat
    OBVIOUS
  <2>3. <<0 .. y, w>> \in R
    BY <1>4, <2>2 DEF R, StrictSubsetOrdering
  <2>4. QED
    BY <1>3, <2>1, <2>3
<1>6. QED
  BY <1>5

\* The equation that Collectors is defined by.
IsChain(c, relations, n, f) ==
  f = [i \in 0 .. n |-> IF i = 0 THEN c ELSE Collect(f[i - 1], relations[i].decl)]

\* It has a solution, however long the list is.
LEMMA ChainExists ==
  ASSUME NEW c, NEW relations, NEW n \in Nat
  PROVE  \E f : IsChain(c, relations, n, f)
<1> DEFINE T == {m \in Nat : ~\E f : IsChain(c, relations, m, f)}
<1> SUFFICES ASSUME T # {}
             PROVE  FALSE
  OBVIOUS
<1>1. PICK m \in T : \A k \in T : m <= k
  BY LeastExists
<1>2. CASE m = 0
  <2> DEFINE f == [i \in 0 .. 0 |-> c]
  <2>1. IsChain(c, relations, 0, f)
    BY DEF IsChain
  <2>2. QED
    BY <1>1, <1>2, <2>1
<1>3. CASE m # 0
  <2>1. m - 1 \in Nat /\ m - 1 \notin T
    BY <1>1, <1>3
  <2>2. PICK g : IsChain(c, relations, m - 1, g)
    BY <2>1
  <2> DEFINE f == [i \in 0 .. m |-> IF i = m THEN Collect(g[m - 1], relations[m].decl) ELSE g[i]]
  <2>3. \A i \in 0 .. m : f[i] = IF i = 0 THEN c ELSE Collect(f[i - 1], relations[i].decl)
    <3> SUFFICES ASSUME NEW i \in 0 .. m
                 PROVE  f[i] = IF i = 0 THEN c ELSE Collect(f[i - 1], relations[i].decl)
      OBVIOUS
    <3>1. CASE i = m
      BY <1>1, <1>3, <3>1
    <3>2. CASE i # m
      <4>1. i \in 0 .. m - 1 /\ (i # 0 => i - 1 \in 0 .. m - 1 /\ i - 1 # m)
        BY <1>1, <3>2
      <4>2. g[i] = IF i = 0 THEN c ELSE Collect(g[i - 1], relations[i].decl)
        BY <2>2, <4>1 DEF IsChain
      <4>3. f[i] = g[i] /\ (i # 0 => f[i - 1] = g[i - 1])
        BY <1>1, <3>2, <4>1
      <4>4. QED
        BY <4>2, <4>3
    <3>3. QED
      BY <3>1, <3>2
  <2>4. f = [i \in 0 .. m |-> f[i]]
    OBVIOUS
  <2> HIDE DEF f
  <2>5. IsChain(c, relations, m, f)
    BY <2>3, <2>4 DEF IsChain
  <2>6. QED
    BY <1>1, <2>5
<1>4. QED
  BY <1>2, <1>3

\* The collectors after each of the relations.
LEMMA CollectorsEquation ==
  ASSUME NEW c, NEW relations, Len(relations) \in Nat
  PROVE  /\ Collectors(c, relations)[0] = c
         /\ \A i \in 1 .. Len(relations) :
              Collectors(c, relations)[i] = Collect(Collectors(c, relations)[i - 1], relations[i].decl)
<1> DEFINE g == CHOOSE f : IsChain(c, relations, Len(relations), f)
<1>1. Collectors(c, relations) = g
  BY DEF Collectors, IsChain
<1>2. IsChain(c, relations, Len(relations), g)
  BY ChainExists
<1> HIDE DEF g
<1>3. QED
  BY <1>1, <1>2 DEF IsChain

\* They stay good, and what they find is in the last one.
LEMMA CollectorsFacts ==
  ASSUME unit \in DOMAIN Unit, NEW c, GoodCollector(c),
         NEW relations \in Seq([role : {"BaseOf", "OverrideOf"}, decl : DOMAIN U.decl])
  PROVE  LET cs == Collectors(c, relations)
             last == cs[Len(relations)]
         IN /\ GoodCollector(last)
            /\ DOMAIN c.symbols \subseteq DOMAIN last.symbols
            /\ \A s : FromProject(last.symbols, s) <=> FromProject(c.symbols, s)
            /\ \A s \in DOMAIN c.symbols : \A role :
                 Related(s, relations, cs, role) \subseteq (DOMAIN last.symbols) \X (DOMAIN last.symbols)
<1> DEFINE cs == Collectors(c, relations)
           n == Len(relations)
           Known(i) == DOMAIN cs[i].symbols
           Good(i) == /\ GoodCollector(cs[i])
                      /\ \A j \in 0 .. i : Known(j) \subseteq Known(i)
                      /\ \A s : FromProject(cs[i].symbols, s) <=> FromProject(c.symbols, s)
           T == {i \in 0 .. n : ~Good(i)}
<1>1. n \in Nat /\ \A i \in 1 .. n : relations[i].decl \in DOMAIN U.decl
  <2> DEFINE R == [role : {"BaseOf", "OverrideOf"}, decl : DOMAIN U.decl]
  <2>1. \A r \in R : r.decl \in DOMAIN U.decl
    OBVIOUS
  <2> HIDE DEF R
  <2>2. relations \in Seq(R)
    BY DEF R
  <2>3. n \in Nat /\ \A i \in 1 .. n : relations[i] \in R
    BY <2>2
  <2>4. QED
    BY <2>1, <2>3
<1>2. cs[0] = c /\ \A i \in 1 .. n : cs[i] = Collect(cs[i - 1], relations[i].decl)
  BY <1>1, CollectorsEquation
<1> HIDE DEF cs, n
<1>3. T = {}
  <2> SUFFICES ASSUME T # {}
               PROVE  FALSE
    OBVIOUS
  <2>1. PICK i \in T : \A k \in T : i <= k
    <3>1. T \subseteq Nat
      BY <1>1
    <3>2. QED
      BY <3>1, LeastExists
  <2>2. i \in 0 .. n /\ ~Good(i)
    OBVIOUS
  <2>3. CASE i = 0
    <3>1. Good(0)
      BY <1>2
    <3>2. QED
      BY <2>2, <2>3, <3>1
  <2>4. CASE i # 0
    <3>1. i - 1 \in 0 .. n /\ ~(i <= i - 1) /\ i \in 1 .. n
      BY <1>1, <2>2, <2>4
    <3>2. Good(i - 1)
      BY <2>1, <3>1
    <3>3. cs[i] = Collect(cs[i - 1], relations[i].decl) /\ relations[i].decl \in DOMAIN U.decl
      BY <1>1, <1>2, <3>1
    <3>4. /\ GoodCollector(cs[i]) /\ Known(i - 1) \subseteq Known(i)
          /\ \A s : FromProject(cs[i].symbols, s) <=> FromProject(cs[i - 1].symbols, s)
      BY <3>2, <3>3, CollectFacts
    <3>5. \A j \in 0 .. i : j = i \/ j \in 0 .. i - 1
      BY <1>1, <3>1
    <3>6. Good(i)
      BY <3>2, <3>4, <3>5
    <3>7. QED
      BY <2>2, <3>6
  <2>5. QED
    BY <2>3, <2>4
<1>4. \A i \in 0 .. n : Good(i)
  BY <1>3
<1>5. n \in 0 .. n /\ 0 \in 0 .. n
  BY <1>1
<1>6. /\ GoodCollector(cs[n]) /\ Known(0) \subseteq Known(n)
      /\ \A s : FromProject(cs[n].symbols, s) <=> FromProject(c.symbols, s)
  BY <1>4, <1>5
<1>7. ASSUME NEW i \in 1 .. n, ~NotASymbol(cs[i - 1], relations[i].decl)
      PROVE  IdOf(cs[i], relations[i].decl) \in Known(n)
  <2> DEFINE d == relations[i].decl
  <2>1. i - 1 \in 0 .. n /\ i \in 0 .. n /\ d \in DOMAIN U.decl
    BY <1>1
  <2>2. GoodCollector(cs[i - 1]) /\ GoodCollector(cs[i]) /\ Known(i) \subseteq Known(n)
    BY <1>4, <1>5, <2>1
  <2>3. cs[i] = Collect(cs[i - 1], d)
    BY <1>2
  <2> HIDE DEF d
  <2>4. d \in DOMAIN cs[i].ids /\ U.decl[d].usr \in Known(i)
    BY <1>7, <2>1, <2>2, <2>3, CollectFacts DEF d
  <2>5. cs[i].ids[d] = U.decl[d].usr /\ GoodSymbols(cs[i].symbols)
    BY <2>2, <2>4 DEF GoodCollector
  <2>6. IdOf(cs[i], d) = U.decl[d].usr
    BY <2>4, <2>5, SymbolAtFacts DEF IdOf
  <2>7. QED
    BY <2>2, <2>4, <2>6 DEF d
<1>8. ASSUME NEW s \in DOMAIN c.symbols, NEW role
      PROVE  Related(s, relations, cs, role) \subseteq Known(n) \X Known(n)
  <2>1. s \in Known(n)
    BY <1>2, <1>6
  <2>2. DOMAIN relations = 1 .. n
    BY DEF n
  <2>3. QED
    BY <1>7, <2>1, <2>2 DEF Related
<1>9. QED
  BY <1>2, <1>6, <1>8 DEF cs, n

\* fillSymbol and setFlag on the flags of s.
WithFlags(symbols, s, F) == [symbols EXCEPT ![s].flags = F]

\* The symbol at s with other flags.
LEMMA FlagsSet ==
  ASSUME NEW symbols, GoodSymbols(symbols), NEW s \in DOMAIN symbols, NEW F \in SUBSET Flag,
         NEW new, new = WithFlags(symbols, s, F)
  PROVE  /\ GoodSymbols(new) /\ DOMAIN new = DOMAIN symbols
         /\ \A x : FromProject(new, x) <=> IF x = s THEN "FromProject" \in F ELSE FromProject(symbols, x)
<1>1. DOMAIN new = DOMAIN symbols /\ new = [x \in DOMAIN symbols |-> new[x]]
  BY DEF WithFlags
<1>2. \A x \in DOMAIN symbols \ {s} : new[x] = symbols[x]
  BY DEF WithFlags
<1>3. new[s] = [id |-> s, name |-> symbols[s].name, kind |-> symbols[s].kind,
                parent |-> symbols[s].parent, flags |-> F]
  BY DEF GoodSymbols, WithFlags
<1>4. GoodSymbols(new)
  <2>1. ASSUME NEW x \in DOMAIN new, x # s
        PROVE  /\ new[x] = [id |-> x, name |-> new[x].name, kind |-> new[x].kind,
                            parent |-> new[x].parent, flags |-> new[x].flags]
               /\ new[x].parent \in DOMAIN new \cup {NoSymbol} /\ new[x].flags \subseteq Flag
    BY <1>1, <1>2, <2>1 DEF GoodSymbols
  <2>2. /\ new[s] = [id |-> s, name |-> new[s].name, kind |-> new[s].kind,
                     parent |-> new[s].parent, flags |-> new[s].flags]
        /\ new[s].parent \in DOMAIN new \cup {NoSymbol} /\ new[s].flags \subseteq Flag
    BY <1>1, <1>3 DEF GoodSymbols
  <2>3. QED
    BY <1>1, <2>1, <2>2 DEF GoodSymbols
<1>5. \A x : FromProject(new, x) <=> IF x = s THEN "FromProject" \in F ELSE FromProject(symbols, x)
  BY <1>1, <1>2, <1>3 DEF FromProject
<1>6. QED
  BY <1>1, <1>4, <1>5

\* process(macro) and process(module) find or make the symbol s.
LEMMA NamedFacts ==
  ASSUME NEW symbols, GoodSymbols(symbols), NEW s, s # NoSymbol, NEW name, NEW kind
  PROVE  LET new == Named(symbols, s, name, kind)
         IN /\ GoodSymbols(new) /\ DOMAIN new = DOMAIN symbols \cup {s}
            /\ \A x : FromProject(new, x) <=> FromProject(symbols, x)
<1> DEFINE new == Named(symbols, s, name, kind)
           old == SymbolAt(symbols, s)
           filled == [old EXCEPT !.id = s, !.name = name, !.kind = kind]
<1>1. /\ DOMAIN new = DOMAIN symbols \cup {s} /\ new = [x \in DOMAIN new |-> new[x]]
      /\ new[s] = filled /\ \A x \in DOMAIN symbols \ {s} : new[x] = symbols[x]
  BY DEF Named, Over
<1>2. /\ old = [id |-> old.id, name |-> old.name, kind |-> old.kind, parent |-> old.parent, flags |-> old.flags]
      /\ old.parent \in DOMAIN symbols \cup {NoSymbol} /\ old.flags \subseteq Flag
      /\ "FromProject" \in old.flags <=> FromProject(symbols, s)
  BY SymbolAtFacts
<1> HIDE DEF new, old
<1>3. filled = [id |-> s, name |-> name, kind |-> kind, parent |-> old.parent, flags |-> old.flags]
  <2> DEFINE a == [old EXCEPT !.id = s]
             b == [a EXCEPT !.name = name]
             e == [b EXCEPT !.kind = kind]
  <2>1. a = [id |-> s, name |-> old.name, kind |-> old.kind, parent |-> old.parent, flags |-> old.flags]
    BY <1>2
  <2> HIDE DEF a
  <2>2. b = [id |-> s, name |-> name, kind |-> old.kind, parent |-> old.parent, flags |-> old.flags]
    BY <2>1
  <2> HIDE DEF b
  <2>3. e = [id |-> s, name |-> name, kind |-> kind, parent |-> old.parent, flags |-> old.flags]
    BY <2>2
  <2>4. QED
    BY <2>3 DEF a, b
<1> HIDE DEF filled
<1>4. GoodSymbols(new)
  BY <1>1, <1>2, <1>3 DEF GoodSymbols
<1>5. \A x : FromProject(new, x) <=> FromProject(symbols, x)
  BY <1>1, <1>2, <1>3 DEF FromProject
<1>6. QED
  BY <1>1, <1>4, <1>5 DEF new

-----------------------------------------------------------------------------
(* The invariant.                                                          *)

\* The unit and the index go with the phase.
ControlInv ==
  /\ phase \in {"idle", "indexing", "finished"}
  /\ unit \in DOMAIN Unit \cup {NoUnit}
  /\ phase # "idle" => unit \in DOMAIN Unit
  /\ phase = "idle" => index = NewIndex(NoFile)
  /\ started \subseteq DOMAIN Unit
  /\ callbacks \in 0 .. MaxCallbacks

\* The fields of the index and of its references.
ShapeInv ==
  /\ index = [main |-> index.main, files |-> index.files, rows |-> index.rows, symbols |-> index.symbols,
              baseOfs |-> index.baseOfs, overrides |-> index.overrides, refargs |-> index.refargs]
  /\ index.rows = [k \in Kind |-> index.rows[k]]
  /\ \A r \in index.rows["reference"] :
       r = [file |-> r.file, key |-> r.key, symbol |-> r.symbol, to |-> r.to, flags |-> r.flags]

\* The caches of files are about this unit: the files that the arbiter was
\* asked about and accepted are indexed, and no others.
FilesInv ==
  /\ index.files \subseteq accepted
  /\ phase # "idle" =>
       /\ DOMAIN answers \subseteq DOMAIN fileIds
       /\ DOMAIN fileIds \subseteq DOMAIN U.file
       /\ \A cf \in DOMAIN fileIds : fileIds[cf] = U.file[cf]
       /\ \A cf \in DOMAIN answers : answers[cf] <=> U.file[cf] \in accepted
       /\ \A cf \in DOMAIN answers : U.file[cf] \in accepted => U.file[cf] \in index.files

\* So are those of symbols.
SymbolsInv ==
  phase # "idle" =>
    /\ GoodCollector(Collector)
    /\ DOMAIN macroIds \subseteq DOMAIN U.macro
    /\ \A m \in DOMAIN macroIds : macroIds[m] \in DOMAIN index.symbols \ {NoSymbol}
    /\ DOMAIN moduleIds \subseteq DOMAIN U.module
    /\ \A m \in DOMAIN moduleIds : moduleIds[m] \in DOMAIN index.symbols \ {NoSymbol}

\* The inductive invariant.
IndInv == ControlInv /\ ShapeInv /\ FilesInv /\ SymbolsInv /\ IndexIsWellFormed /\ FromProjectMeansDeclared

-----------------------------------------------------------------------------
(* Files.                                                                  *)

\* What the caches answer about a clang::FileID.
LEMMA AnswerFacts ==
  ASSUME FilesInv, phase # "idle", NEW cf \in DOMAIN U.file
  PROVE  FileIdOf(cf) = U.file[cf] /\ (Answer(cf) <=> U.file[cf] \in accepted)
<1>1. FileIdOf(cf) = U.file[cf]
  BY DEF FilesInv, FileIdOf
<1>2. Answer(cf) <=> U.file[cf] \in accepted
  <2>1. CASE cf \in DOMAIN answers
    BY <2>1 DEF FilesInv, Answer
  <2>2. CASE cf \notin DOMAIN answers
    BY <1>1, <2>2 DEF Answer
  <2>3. QED
    BY <2>1, <2>2
<1>3. QED
  BY <1>1, <1>2

\* The files that are accepted come to be indexed.
LEMMA IndexedFacts ==
  ASSUME FilesInv, phase # "idle", NEW S \in SUBSET DOMAIN U.file
  PROVE  /\ NewlyIndexed(S) \subseteq accepted
         /\ \A cf \in S : Answer(cf) => FileIdOf(cf) \in index.files \cup NewlyIndexed(S)
         /\ \A cf \in S : ~Answer(cf) /\ S = {cf} => NewlyIndexed(S) = {}
<1>1. NewlyIndexed(S) \subseteq accepted
  BY AnswerFacts DEF NewlyIndexed
<1>2. ASSUME NEW cf \in S, Answer(cf)
      PROVE  FileIdOf(cf) \in index.files \cup NewlyIndexed(S)
  <2>1. CASE cf \in DOMAIN answers
    BY <1>2, <2>1, AnswerFacts DEF FilesInv
  <2>2. CASE cf \notin DOMAIN answers
    BY <1>2, <2>2 DEF NewlyIndexed
  <2>3. QED
    BY <2>1, <2>2
<1>3. ASSUME NEW cf \in S, ~Answer(cf), S = {cf}
      PROVE  NewlyIndexed(S) = {}
  BY <1>3 DEF NewlyIndexed
<1>4. QED
  BY <1>1, <1>2, <1>3

\* Asking about files keeps the caches right.
LEMMA AskFacts ==
  ASSUME FilesInv, phase # "idle", NEW S \in SUBSET DOMAIN U.file, NEW T \in SUBSET DOMAIN U.file,
         AskAbout(S, T), unit' = unit, accepted' = accepted, index'.files = index.files \cup NewlyIndexed(S)
  PROVE  FilesInv'
<1>1. U' = U
  BY DEF U
<1>2. /\ DOMAIN fileIds' = DOMAIN fileIds \cup S \cup T
      /\ \A cf \in DOMAIN fileIds' : fileIds'[cf] = FileIdOf(cf)
  <2>1. fileIds' = Over([cf \in S \cup T |-> FileIdOf(cf)], fileIds)
    BY DEF AskAbout
  <2>2. DOMAIN fileIds' = DOMAIN fileIds \cup S \cup T /\ \A cf \in S \cup T : fileIds'[cf] = FileIdOf(cf)
    BY <2>1 DEF Over
  <2>3. \A cf \in DOMAIN fileIds \ (S \cup T) : fileIds'[cf] = fileIds[cf]
    BY <2>1 DEF Over
  <2>4. QED
    BY <2>2, <2>3 DEF FileIdOf
<1>3. /\ DOMAIN answers' = DOMAIN answers \cup S
      /\ \A cf \in DOMAIN answers' : answers'[cf] <=> Answer(cf)
  <2> DEFINE new == [cf \in S |-> Answer(cf)]
  <2>1. answers' = Over(new, answers)
    BY DEF AskAbout
  <2>2. DOMAIN answers' = DOMAIN answers \cup S /\ \A cf \in S : answers'[cf] = new[cf]
    BY <2>1 DEF Over
  <2>3. \A cf \in DOMAIN answers \ S : answers'[cf] = answers[cf]
    BY <2>1 DEF Over
  <2>4. \A cf \in S : answers'[cf] <=> Answer(cf)
    BY <2>2
  <2>5. \A cf \in DOMAIN answers \ S : answers'[cf] <=> Answer(cf)
    BY <2>3 DEF Answer
  <2>6. QED
    BY <2>2, <2>4, <2>5
<1>4. DOMAIN fileIds' \subseteq DOMAIN U.file /\ DOMAIN answers' \subseteq DOMAIN fileIds'
  BY <1>2, <1>3 DEF FilesInv
<1>5. \A cf \in DOMAIN fileIds' : fileIds'[cf] = U.file[cf]
  BY <1>2, <1>4, AnswerFacts
<1>6. \A cf \in DOMAIN answers' : answers'[cf] <=> U.file[cf] \in accepted
  BY <1>3, <1>4, AnswerFacts
<1>7. ASSUME NEW cf \in DOMAIN answers', U.file[cf] \in accepted
      PROVE  U.file[cf] \in index'.files
  <2>1. CASE cf \in S
    BY <1>4, <1>7, <2>1, AnswerFacts, IndexedFacts
  <2>2. CASE cf \in DOMAIN answers
    BY <1>7, <2>2 DEF FilesInv
  <2>3. QED
    BY <1>3, <2>1, <2>2
<1>8. index'.files \subseteq accepted
  BY IndexedFacts DEF FilesInv
<1>9. QED
  BY <1>1, <1>4, <1>5, <1>6, <1>7, <1>8 DEF FilesInv

-----------------------------------------------------------------------------
(* The index.                                                              *)

\* The index with a reference more, field by field.
LEMMA WithReferenceFields ==
  ASSUME ShapeInv, NEW cf, NEW symbols, NEW r
  PROVE  WithReference(cf, symbols, r)
           = [main |-> index.main, files |-> index.files \cup NewlyIndexed({cf}),
              rows |-> [index.rows EXCEPT !["reference"] = @ \cup {r}], symbols |-> symbols,
              baseOfs |-> index.baseOfs, overrides |-> index.overrides, refargs |-> index.refargs]
<1> DEFINE new == NewlyIndexed({cf})
           a == [index EXCEPT !.files = @ \cup new]
           b == [a EXCEPT !.symbols = symbols]
           c == [b EXCEPT !.rows["reference"] = @ \cup {r}]
<1>1. WithReference(cf, symbols, r) = c
  BY DEF WithReference
<1>0. a = [index EXCEPT !.files = @ \cup new]
  OBVIOUS
<1> HIDE DEF new, a
<1>2. a = [main |-> index.main, files |-> index.files \cup new, rows |-> index.rows, symbols |-> index.symbols,
           baseOfs |-> index.baseOfs, overrides |-> index.overrides, refargs |-> index.refargs]
  BY <1>0 DEF ShapeInv
<1>3. b = [main |-> index.main, files |-> index.files \cup new, rows |-> index.rows, symbols |-> symbols,
           baseOfs |-> index.baseOfs, overrides |-> index.overrides, refargs |-> index.refargs]
  BY <1>2
<1> HIDE DEF b
<1>4. c = [main |-> index.main, files |-> index.files \cup new,
           rows |-> [index.rows EXCEPT !["reference"] = @ \cup {r}], symbols |-> symbols,
           baseOfs |-> index.baseOfs, overrides |-> index.overrides, refargs |-> index.refargs]
  BY <1>3
<1>5. QED
  BY <1>1, <1>4 DEF new

\* A reference to a symbol keeps the index good if its file is indexed, its
\* symbols are there, and it makes its symbol one of the project exactly if it
\* declares it.
LEMMA ReferenceAdded ==
  ASSUME phase = "indexing", ShapeInv, FilesInv, IndexIsWellFormed, FromProjectMeansDeclared,
         NEW loc, loc.cf \in DOMAIN U.file, Answer(loc.cf),
         NEW symbols, DOMAIN index.symbols \subseteq DOMAIN symbols,
         NEW s \in DOMAIN symbols, NEW caller \in DOMAIN symbols \cup {NoSymbol}, NEW flags,
         \A x : FromProject(symbols, x) <=> FromProject(index.symbols, x) \/ (x = s /\ Declares(flags)),
         NEW B \in SUBSET ((DOMAIN symbols) \X (DOMAIN symbols)),
         NEW O \in SUBSET ((DOMAIN symbols) \X (DOMAIN symbols)),
         phase' = phase,
         index' = [main |-> index.main, files |-> index.files \cup NewlyIndexed({loc.cf}),
                   rows |-> [index.rows EXCEPT !["reference"] = @ \cup {Reference(loc, s, caller, flags)}],
                   symbols |-> symbols, baseOfs |-> index.baseOfs \cup B, overrides |-> index.overrides \cup O,
                   refargs |-> index.refargs]
  PROVE  ShapeInv' /\ IndexIsWellFormed' /\ FromProjectMeansDeclared'
<1> DEFINE r == Reference(loc, s, caller, flags)
           new == NewlyIndexed({loc.cf})
<1>1. /\ index'.files = index.files \cup new /\ index'.symbols = symbols
      /\ index'.baseOfs = index.baseOfs \cup B /\ index'.overrides = index.overrides \cup O
      /\ index'.refargs = index.refargs
      /\ index'.rows = [index.rows EXCEPT !["reference"] = @ \cup {r}]
  OBVIOUS
<1>2. index' = [main |-> index'.main, files |-> index'.files, rows |-> index'.rows, symbols |-> index'.symbols,
                baseOfs |-> index'.baseOfs, overrides |-> index'.overrides, refargs |-> index'.refargs]
  OBVIOUS
<1>3. r = [file |-> r.file, key |-> r.key, symbol |-> s, to |-> caller, flags |-> flags]
      /\ r.symbol = s /\ r.to = caller /\ r.flags = flags /\ r.file = FileIdOf(loc.cf)
  BY DEF Reference
<1>4. r.file \in index'.files
  BY <1>1, <1>3, IndexedFacts
<1> HIDE DEF r, new
<1>5. /\ index'.rows["reference"] = index.rows["reference"] \cup {r}
      /\ \A k \in Kind \ {"reference"} : index'.rows[k] = index.rows[k]
      /\ index'.rows = [k \in Kind |-> index'.rows[k]]
  BY <1>1 DEF ShapeInv, Kind
<1>6. ShapeInv'
  BY <1>2, <1>3, <1>5 DEF ShapeInv
<1>7. IndexIsWellFormed'
  <2>1. \A k \in Kind : \A q \in index'.rows[k] : q.file \in index'.files
    BY <1>1, <1>4, <1>5 DEF IndexIsWellFormed, WellFormed
  <2>2. \A k \in {"reference", "declaration"} : \A q \in index'.rows[k] : q.symbol \in DOMAIN index'.symbols
    BY <1>1, <1>3, <1>5 DEF IndexIsWellFormed, WellFormed, Kind
  <2>3. \A q \in index'.rows["reference"] : q.to \in DOMAIN index'.symbols \cup {NoSymbol}
    BY <1>1, <1>3, <1>5 DEF IndexIsWellFormed, WellFormed
  <2>4. index'.baseOfs \cup index'.overrides \subseteq (DOMAIN index'.symbols) \X (DOMAIN index'.symbols)
    BY <1>1 DEF IndexIsWellFormed, WellFormed
  <2>5. \A q \in index'.refargs : q.file \in index'.files
    BY <1>1 DEF IndexIsWellFormed, WellFormed
  <2>6. QED
    BY <2>1, <2>2, <2>3, <2>4, <2>5 DEF IndexIsWellFormed, WellFormed
<1>8. ASSUME NEW q \in index'.rows["reference"], Declares(q.flags)
      PROVE  "FromProject" \in index'.symbols[q.symbol].flags
  <2>1. CASE q = r
    BY <1>1, <1>3, <1>8, <2>1 DEF FromProject
  <2>2. CASE q \in index.rows["reference"]
    <3>1. FromProject(index.symbols, q.symbol)
      BY <1>8, <2>2 DEF FromProject, FromProjectMeansDeclared, IndexIsWellFormed, WellFormed
    <3>2. QED
      BY <1>1, <3>1 DEF FromProject
  <2>3. QED
    BY <1>5, <2>1, <2>2
<1>9. ASSUME NEW x \in DOMAIN index'.symbols, "FromProject" \in index'.symbols[x].flags
      PROVE  \E q \in index'.rows["reference"] : q.symbol = x /\ Declares(q.flags)
  <2>1. FromProject(symbols, x)
    BY <1>1, <1>9 DEF FromProject
  <2>2. CASE x = s /\ Declares(flags)
    BY <1>3, <1>5, <2>2
  <2>3. CASE FromProject(index.symbols, x)
    BY <1>5, <2>3 DEF FromProject, FromProjectMeansDeclared
  <2>4. QED
    BY <2>1, <2>2, <2>3
<1>10. FromProjectMeansDeclared'
  BY <1>8, <1>9 DEF FromProjectMeansDeclared
<1>11. QED
  BY <1>6, <1>7, <1>10

\* So does an index with no more than other files.
LEMMA FilesAdded ==
  ASSUME ShapeInv, IndexIsWellFormed, FromProjectMeansDeclared, NEW new, phase' = phase,
         index' = [index EXCEPT !.files = @ \cup new]
  PROVE  /\ ShapeInv' /\ IndexIsWellFormed' /\ FromProjectMeansDeclared'
         /\ index'.symbols = index.symbols /\ index'.files = index.files \cup new
<1>1. index' = [main |-> index.main, files |-> index.files \cup new, rows |-> index.rows, symbols |-> index.symbols,
                baseOfs |-> index.baseOfs, overrides |-> index.overrides, refargs |-> index.refargs]
  BY DEF ShapeInv
<1>2. /\ index'.main = index.main /\ index'.files = index.files \cup new /\ index'.rows = index.rows
      /\ index'.symbols = index.symbols /\ index'.baseOfs = index.baseOfs
      /\ index'.overrides = index.overrides /\ index'.refargs = index.refargs
  BY <1>1
<1>3. ShapeInv'
  BY <1>1, <1>2 DEF ShapeInv
<1>4. IndexIsWellFormed'
  BY <1>2 DEF IndexIsWellFormed, WellFormed
<1>5. FromProjectMeansDeclared'
  BY <1>2 DEF FromProjectMeansDeclared
<1>6. QED
  BY <1>2, <1>3, <1>4, <1>5

-----------------------------------------------------------------------------
(* The steps.                                                              *)

\* A new index has what an index must have.
LEMMA NewIndexFacts ==
  ASSUME NEW main, index' = NewIndex(main)
  PROVE  /\ ShapeInv' /\ IndexIsWellFormed' /\ FromProjectMeansDeclared'
         /\ index'.files = {} /\ index'.symbols = EmptyFunction
<1>1. /\ index'.files = {} /\ index'.symbols = EmptyFunction /\ index'.rows = [k \in Kind |-> {}]
      /\ index'.baseOfs = {} /\ index'.overrides = {} /\ index'.refargs = {}
      /\ index' = [main |-> index'.main, files |-> index'.files, rows |-> index'.rows, symbols |-> index'.symbols,
                   baseOfs |-> index'.baseOfs, overrides |-> index'.overrides, refargs |-> index'.refargs]
  BY DEF NewIndex
<1>2. \A k \in Kind : index'.rows[k] = {}
  BY <1>1
<1>3. {"reference", "declaration"} \subseteq Kind
  BY DEF Kind
<1>4. ShapeInv'
  BY <1>1, <1>2, <1>3 DEF ShapeInv
<1>5. DOMAIN index'.symbols = {}
  BY <1>1 DEF EmptyFunction
<1>6. IndexIsWellFormed'
  BY <1>1, <1>2, <1>3 DEF IndexIsWellFormed, WellFormed
<1>7. FromProjectMeansDeclared'
  BY <1>2, <1>3, <1>5 DEF FromProjectMeansDeclared
<1>8. QED
  BY <1>1, <1>4, <1>6, <1>7

\* Init has the invariant.
LEMMA InitHasInv == Init => IndInv
<1> SUFFICES ASSUME Init
             PROVE  IndInv
  OBVIOUS
<1>1. /\ phase = "idle" /\ unit = NoUnit /\ accepted = {} /\ index = NewIndex(NoFile)
      /\ started = {} /\ callbacks = 0
  BY DEF Init
<1>2. ControlInv
  BY <1>1 DEF ControlInv
<1>3. /\ index.files = {} /\ index.rows = [k \in Kind |-> {}] /\ index.symbols = EmptyFunction
      /\ index.baseOfs = {} /\ index.overrides = {} /\ index.refargs = {}
      /\ index = [main |-> index.main, files |-> index.files, rows |-> index.rows, symbols |-> index.symbols,
                  baseOfs |-> index.baseOfs, overrides |-> index.overrides, refargs |-> index.refargs]
  BY <1>1 DEF NewIndex
<1>4. \A k \in Kind : index.rows[k] = {}
  BY <1>3
<1>5. {"reference", "declaration"} \subseteq Kind
  BY DEF Kind
<1>6. ShapeInv
  BY <1>3, <1>4, <1>5 DEF ShapeInv
<1>7. FilesInv /\ SymbolsInv
  BY <1>1, <1>3 DEF FilesInv, SymbolsInv
<1>8. IndexIsWellFormed
  BY <1>3, <1>4, <1>5 DEF IndexIsWellFormed, WellFormed
<1>9. FromProjectMeansDeclared
  BY <1>1, <1>4, <1>5 DEF FromProjectMeansDeclared
<1>10. QED
  BY <1>2, <1>6, <1>7, <1>8, <1>9 DEF IndInv

\* Indexer::initialize
LEMMA InitializeKeepsInv ==
  ASSUME IndInv, NEW u \in DOMAIN Unit, Initialize(u)
  PROVE  IndInv'
<1>1. /\ phase' = "indexing" /\ unit' = u /\ index' = NewIndex(Unit[u].file[Unit[u].main])
      /\ fileIds' = [cf \in {Unit[u].main} |-> Unit[u].file[cf]] /\ answers' = EmptyFunction
      /\ started' = started \cup {u} /\ callbacks' = 0
      /\ declIds' = EmptyFunction /\ macroIds' = EmptyFunction /\ moduleIds' = EmptyFunction
  BY DEF Initialize, NewUnit, ResetCollector
<1>2. ShapeInv' /\ IndexIsWellFormed' /\ FromProjectMeansDeclared' /\ index'.files = {}
      /\ index'.symbols = EmptyFunction
  BY <1>1, NewIndexFacts
<1>3. ControlInv'
  <2>1. 0 \in 0 .. MaxCallbacks
    OBVIOUS
  <2>2. QED
    BY <1>1, <2>1 DEF IndInv, ControlInv
<1>4. U' = Unit[u] /\ Unit[u].main \in DOMAIN Unit[u].file
  BY <1>1, UnitAssumption DEF U
<1>5. DOMAIN EmptyFunction = {}
  BY DEF EmptyFunction
<1>6. FilesInv'
  BY <1>1, <1>2, <1>4, <1>5 DEF FilesInv
<1>7. GoodCollector(Collector)'
  <2>1. Collector' = [ids |-> EmptyFunction, symbols |-> EmptyFunction]
    BY <1>1, <1>2 DEF Collector
  <2>2. EmptyFunction = [x \in DOMAIN EmptyFunction |-> EmptyFunction[x]]
    BY DEF EmptyFunction
  <2>3. QED
    BY <1>5, <2>1, <2>2 DEF GoodCollector, GoodSymbols
<1>8. SymbolsInv'
  BY <1>1, <1>5, <1>7 DEF SymbolsInv
<1>9. QED
  BY <1>2, <1>3, <1>6, <1>8 DEF IndInv

\* The caches of symbols after a step that does not end the unit.
LEMMA SymbolsKept ==
  ASSUME unit' = unit, GoodCollector([ids |-> declIds', symbols |-> index'.symbols]),
         DOMAIN macroIds' \subseteq DOMAIN U.macro,
         \A m \in DOMAIN macroIds' : macroIds'[m] \in DOMAIN index'.symbols \ {NoSymbol},
         DOMAIN moduleIds' \subseteq DOMAIN U.module,
         \A m \in DOMAIN moduleIds' : moduleIds'[m] \in DOMAIN index'.symbols \ {NoSymbol}
  PROVE  SymbolsInv'
<1>1. U' = U
  BY DEF U
<1>2. Collector' = [ids |-> declIds', symbols |-> index'.symbols]
  BY DEF Collector
<1>3. GoodCollector(Collector)'
  BY <1>1, <1>2 DEF GoodCollector
<1>4. QED
  BY <1>1, <1>3 DEF SymbolsInv

\* What every callback does.
LEMMA CallbackFacts ==
  ASSUME IndInv, NEW cf \in DOMAIN U.file, Callback(cf)
  PROVE  /\ phase = "indexing" /\ phase' = phase /\ unit' = unit /\ U' = U /\ ControlInv'
         /\ index'.files = index.files \cup NewlyIndexed({cf}) => FilesInv'
         /\ ~Answer(cf) => index.files = index.files \cup NewlyIndexed({cf})
<1>1. /\ phase = "indexing" /\ phase' = phase /\ unit' = unit /\ accepted' = accepted /\ started' = started
      /\ callbacks < MaxCallbacks /\ callbacks' = callbacks + 1 /\ AskAbout({cf}, {cf})
  BY DEF Callback
<1>2. ControlInv'
  <2>1. callbacks' \in 0 .. MaxCallbacks
    BY <1>1 DEF IndInv, ControlInv
  <2>2. QED
    BY <1>1, <2>1 DEF IndInv, ControlInv
<1>3. FilesInv /\ phase # "idle" /\ {cf} \in SUBSET DOMAIN U.file
  BY <1>1 DEF IndInv
<1>4. index'.files = index.files \cup NewlyIndexed({cf}) => FilesInv'
  BY <1>1, <1>3, AskFacts
<1>5. ~Answer(cf) => NewlyIndexed({cf}) = {}
  BY <1>3, IndexedFacts
<1>6. QED
  BY <1>1, <1>2, <1>4, <1>5 DEF U

\* A callback that only asks about its file.
LEMMA NothingNoted ==
  ASSUME IndInv, NEW cf \in DOMAIN U.file, Callback(cf), ~Answer(cf), UNCHANGED <<symbolCaches, index>>
  PROVE  IndInv'
<1>1. /\ phase = "indexing" /\ phase' = phase /\ unit' = unit /\ U' = U /\ ControlInv'
      /\ index.files = index.files \cup NewlyIndexed({cf})
      /\ index'.files = index.files \cup NewlyIndexed({cf}) => FilesInv'
  BY CallbackFacts
<1>2. index' = index /\ declIds' = declIds /\ macroIds' = macroIds /\ moduleIds' = moduleIds
  BY DEF symbolCaches
<1>3. ShapeInv' /\ IndexIsWellFormed' /\ FromProjectMeansDeclared'
  BY <1>1, <1>2 DEF IndInv, ShapeInv, IndexIsWellFormed, FromProjectMeansDeclared
<1>4. FilesInv'
  BY <1>1, <1>2
<1>5. SymbolsInv'
  BY <1>1, <1>2, SymbolsKept DEF IndInv, SymbolsInv, Collector
<1>6. QED
  BY <1>1, <1>3, <1>4, <1>5 DEF IndInv

\* A callback that indexes its file and finds no symbol, whose declaration the
\* collector may remember.
LEMMA NoSymbolNoted ==
  ASSUME IndInv, NEW cf \in DOMAIN U.file, Callback(cf),
         index' = [index EXCEPT !.files = @ \cup NewlyIndexed({cf})], UNCHANGED <<macroIds, moduleIds>>,
         GoodCollector([ids |-> declIds', symbols |-> index.symbols])
  PROVE  IndInv'
<1>1. /\ phase = "indexing" /\ phase' = phase /\ unit' = unit /\ U' = U /\ ControlInv'
      /\ index'.files = index.files \cup NewlyIndexed({cf}) => FilesInv'
  BY CallbackFacts
<1>2. ShapeInv' /\ IndexIsWellFormed' /\ FromProjectMeansDeclared'
      /\ index'.symbols = index.symbols /\ index'.files = index.files \cup NewlyIndexed({cf})
  BY <1>1, FilesAdded DEF IndInv
<1>3. SymbolsInv'
  BY <1>1, <1>2, SymbolsKept DEF IndInv, SymbolsInv
<1>4. QED
  BY <1>1, <1>2, <1>3 DEF IndInv

\* A callback that notes a reference.
LEMMA ReferenceNoted ==
  ASSUME IndInv, NEW loc, loc.cf \in DOMAIN U.file, Callback(loc.cf), Answer(loc.cf),
         NEW symbols, DOMAIN index.symbols \subseteq DOMAIN symbols,
         NEW s \in DOMAIN symbols, NEW caller \in DOMAIN symbols \cup {NoSymbol}, NEW flags,
         \A x : FromProject(symbols, x) <=> FromProject(index.symbols, x) \/ (x = s /\ Declares(flags)),
         NEW B \in SUBSET ((DOMAIN symbols) \X (DOMAIN symbols)),
         NEW O \in SUBSET ((DOMAIN symbols) \X (DOMAIN symbols)),
         index' = [main |-> index.main, files |-> index.files \cup NewlyIndexed({loc.cf}),
                   rows |-> [index.rows EXCEPT !["reference"] = @ \cup {Reference(loc, s, caller, flags)}],
                   symbols |-> symbols, baseOfs |-> index.baseOfs \cup B, overrides |-> index.overrides \cup O,
                   refargs |-> index.refargs],
         GoodCollector([ids |-> declIds', symbols |-> symbols]),
         DOMAIN macroIds' \subseteq DOMAIN U.macro,
         \A m \in DOMAIN macroIds' : macroIds'[m] \in DOMAIN symbols \ {NoSymbol},
         DOMAIN moduleIds' \subseteq DOMAIN U.module,
         \A m \in DOMAIN moduleIds' : moduleIds'[m] \in DOMAIN symbols \ {NoSymbol}
  PROVE  IndInv'
<1>1. /\ phase = "indexing" /\ phase' = phase /\ unit' = unit /\ ControlInv'
      /\ index'.files = index.files \cup NewlyIndexed({loc.cf}) => FilesInv'
  BY CallbackFacts
<1>2. index'.files = index.files \cup NewlyIndexed({loc.cf}) /\ index'.symbols = symbols
  OBVIOUS
<1>3. ShapeInv' /\ IndexIsWellFormed' /\ FromProjectMeansDeclared'
  <2>1. ShapeInv /\ FilesInv /\ IndexIsWellFormed /\ FromProjectMeansDeclared
    BY DEF IndInv
  <2>2. QED
    BY <1>1, <2>1, ReferenceAdded
<1>4. SymbolsInv'
  BY <1>1, <1>2, SymbolsKept
<1>5. QED
  BY <1>1, <1>2, <1>3, <1>4 DEF IndInv

\* The collectors that an occurrence of a declaration goes through.
LEMMA OccurrenceFacts ==
  ASSUME unit \in DOMAIN Unit, NEW c0, GoodCollector(c0), NEW o \in U.decls, ~NotASymbol(c0, o.decl),
         NEW c, c = Collect(c0, o.decl), NEW d, d = WithCaller(c, o)
  PROVE  LET s == U.decl[o.decl].usr
             f == Flagged(d, o)
         IN /\ IdOf(c, o.decl) = s /\ s \in DOMAIN f.symbols
            /\ Caller(c, d, o) \in DOMAIN f.symbols \cup {NoSymbol}
            /\ GoodCollector(f) /\ DOMAIN c0.symbols \subseteq DOMAIN f.symbols
            /\ \A x : FromProject(f.symbols, x) <=> FromProject(c0.symbols, x) \/ (x = s /\ Declares(o.roles))
<1> DEFINE s == U.decl[o.decl].usr
           f == Flagged(d, o)
<1>1. o.decl \in DOMAIN U.decl /\ o.function \in DOMAIN U.decl \cup {NoDecl} /\ NoDecl \notin DOMAIN U.decl
  BY UnitFacts
<1>2. /\ GoodCollector(c) /\ DOMAIN c0.symbols \subseteq DOMAIN c.symbols /\ o.decl \in DOMAIN c.ids
      /\ s \in DOMAIN c.symbols
      /\ \A x : FromProject(c.symbols, x) <=> FromProject(c0.symbols, x)
  BY <1>1, CollectFacts
<1>3. /\ GoodCollector(d) /\ DOMAIN c.symbols \subseteq DOMAIN d.symbols /\ DOMAIN c.ids \subseteq DOMAIN d.ids
      /\ \A x : FromProject(d.symbols, x) <=> FromProject(c.symbols, x)
  <2>1. CASE o.function = NoDecl
    BY <1>2, <2>1 DEF WithCaller
  <2>2. CASE o.function # NoDecl
    <3>1. d = Collect(c, o.function) /\ o.function \in DOMAIN U.decl
      BY <1>1, <2>2 DEF WithCaller
    <3>2. QED
      BY <1>2, <3>1, CollectFacts
  <2>3. QED
    BY <2>1, <2>2
<1>4. IdOf(c, o.decl) = s
  <2>1. c.ids[o.decl] = s /\ GoodSymbols(c.symbols)
    BY <1>2 DEF GoodCollector
  <2>2. QED
    BY <1>2, <2>1, SymbolAtFacts DEF IdOf
<1>5. d.ids[o.decl] = s /\ s \in DOMAIN d.symbols
  BY <1>2, <1>3 DEF GoodCollector
<1>6. Caller(c, d, o) \in DOMAIN d.symbols \cup {NoSymbol}
  <2>1. CASE o.function = NoDecl \/ NotASymbol(c, o.function)
    BY <2>1 DEF Caller
  <2>2. CASE ~(o.function = NoDecl \/ NotASymbol(c, o.function))
    <3>1. d = Collect(c, o.function) /\ o.function \in DOMAIN U.decl
      BY <1>1, <2>2 DEF WithCaller
    <3>2. o.function \in DOMAIN d.ids /\ U.decl[o.function].usr \in DOMAIN d.symbols
      BY <1>2, <2>2, <3>1, CollectFacts
    <3>3. d.ids[o.function] = U.decl[o.function].usr /\ GoodSymbols(d.symbols)
      BY <1>3, <3>2 DEF GoodCollector
    <3>4. IdOf(d, o.function) = U.decl[o.function].usr
      BY <3>2, <3>3, SymbolAtFacts DEF IdOf
    <3>5. QED
      BY <2>2, <3>2, <3>4 DEF Caller
  <2>3. QED
    BY <2>1, <2>2
<1>7. /\ GoodCollector(f) /\ DOMAIN f.symbols = DOMAIN d.symbols
      /\ \A x : FromProject(f.symbols, x) <=> FromProject(d.symbols, x) \/ (x = s /\ Declares(o.roles))
  <2>1. CASE ~Declares(o.roles)
    BY <1>3, <2>1 DEF Flagged
  <2>2. CASE Declares(o.roles)
    <3> DEFINE F == d.symbols[s].flags \cup {"FromProject"}
               new == [d.symbols EXCEPT ![s].flags = F]
    <3>1. f = [d EXCEPT !.symbols = new]
      BY <1>5, <2>2 DEF Flagged, SetFlag
    <3>2. GoodSymbols(d.symbols) /\ F \in SUBSET Flag
      BY <1>3, <1>5 DEF GoodCollector, GoodSymbols, Flag
    <3>3. /\ GoodSymbols(new) /\ DOMAIN new = DOMAIN d.symbols
          /\ \A x : FromProject(new, x) <=> IF x = s THEN "FromProject" \in F ELSE FromProject(d.symbols, x)
      <4> HIDE DEF F, s
      <4>1. new = WithFlags(d.symbols, s, F)
        BY DEF WithFlags
      <4> HIDE DEF new
      <4>2. QED
        BY <1>5, <3>2, <4>1, FlagsSet
    <3>4. "FromProject" \in F
      OBVIOUS
    <3> HIDE DEF new, F
    <3>5. f = [ids |-> d.ids, symbols |-> new]
      BY <1>3, <3>1 DEF GoodCollector
    <3>6. GoodCollector(f) /\ f.symbols = new
      BY <1>3, <3>3, <3>5 DEF GoodCollector
    <3>7. QED
      BY <2>2, <3>3, <3>4, <3>6
  <2>3. QED
    BY <2>1, <2>2
<1> HIDE DEF f, s
<1>8. \A x : FromProject(f.symbols, x) <=> FromProject(c0.symbols, x) \/ (x = s /\ Declares(o.roles))
  BY <1>2, <1>3, <1>7
<1>9. QED
  BY <1>2, <1>3, <1>4, <1>5, <1>6, <1>7, <1>8 DEF f, s

\* The index after an occurrence and its relations, field by field.
LEMMA WithOccurrenceFields ==
  ASSUME ShapeInv, NEW o, NEW s, NEW caller, NEW relations, NEW cs, WithOccurrence(o, s, caller, relations, cs)
  PROVE  index' = [main |-> index.main, files |-> index.files \cup NewlyIndexed({o.loc.cf}),
                   rows |-> [index.rows EXCEPT !["reference"] = @ \cup {Reference(o.loc, s, caller, DeclFlags(o))}],
                   symbols |-> cs[Len(relations)].symbols,
                   baseOfs |-> index.baseOfs \cup Related(s, relations, cs, "BaseOf"),
                   overrides |-> index.overrides \cup Related(s, relations, cs, "OverrideOf"),
                   refargs |-> index.refargs]
<1> DEFINE symbols == cs[Len(relations)].symbols
           r == Reference(o.loc, s, caller, DeclFlags(o))
           rows == [index.rows EXCEPT !["reference"] = @ \cup {r}]
           B == Related(s, relations, cs, "BaseOf")
           O == Related(s, relations, cs, "OverrideOf")
           a == WithReference(o.loc.cf, symbols, r)
           b == [a EXCEPT !.baseOfs = @ \cup B]
<1>1. index' = [b EXCEPT !.overrides = @ \cup O]
  BY DEF WithOccurrence
<1>2. a = [main |-> index.main, files |-> index.files \cup NewlyIndexed({o.loc.cf}), rows |-> rows,
           symbols |-> symbols, baseOfs |-> index.baseOfs, overrides |-> index.overrides, refargs |-> index.refargs]
  BY WithReferenceFields
<1>3. b = [a EXCEPT !.baseOfs = @ \cup B]
  OBVIOUS
<1> HIDE DEF symbols, r, rows, B, O, a, b
<1>4. b = [main |-> index.main, files |-> index.files \cup NewlyIndexed({o.loc.cf}), rows |-> rows,
           symbols |-> symbols, baseOfs |-> index.baseOfs \cup B, overrides |-> index.overrides,
           refargs |-> index.refargs]
  BY <1>2, <1>3
<1>5. index' = [main |-> index.main, files |-> index.files \cup NewlyIndexed({o.loc.cf}), rows |-> rows,
                symbols |-> symbols, baseOfs |-> index.baseOfs \cup B, overrides |-> index.overrides \cup O,
                refargs |-> index.refargs]
  BY <1>1, <1>4
<1>6. QED
  BY <1>5 DEF symbols, r, rows, B, O

\* handleDeclOccurrence
LEMMA DeclOccurrenceKeepsInv ==
  ASSUME IndInv, NEW o \in U.decls, DeclOccurrence(o)
  PROVE  IndInv'
<1> DEFINE cf == o.loc.cf
           s == U.decl[o.decl].usr
<1>1. Callback(cf) /\ macroIds' = macroIds /\ moduleIds' = moduleIds /\ phase = "indexing"
  BY DEF DeclOccurrence, Callback
<1>2. unit \in DOMAIN Unit /\ ShapeInv /\ SymbolsInv
  BY <1>1 DEF IndInv, ControlInv
<1>3. o.decl \in DOMAIN U.decl /\ cf \in DOMAIN U.file
      /\ Relations(o) \in Seq([role : {"BaseOf", "OverrideOf"}, decl : DOMAIN U.decl])
  BY <1>2, UnitFacts
<1>4. GoodCollector(Collector) /\ Collector.symbols = index.symbols /\ Collector.ids = declIds
  BY <1>1, <1>2 DEF SymbolsInv, Collector
<1>5. CASE ~Answer(cf) /\ UNCHANGED <<declIds, index>>
  BY <1>1, <1>3, <1>5, NothingNoted DEF symbolCaches
<1>6. CASE /\ Answer(cf) /\ NotASymbol(Collector, o.decl)
           /\ declIds' = Collect(Collector, o.decl).ids
           /\ index' = [index EXCEPT !.files = @ \cup NewlyIndexed({cf})]
  <2> DEFINE d == o.decl
             c == Collect(Collector, d)
  <2>1. d \notin DOMAIN declIds /\ U.decl[d].usr = NoSymbol
    BY <1>4, <1>6 DEF NotASymbol
  <2>2. Processed(Collector, d) = {d}
    BY <1>2, <1>3, <2>1, ProcessedEquation DEF Ends
  <2>3. GoodCollector(c) /\ DOMAIN c.ids = DOMAIN declIds \cup {d}
    BY <1>2, <1>3, <1>4, <2>2, CollectFacts
  <2> HIDE DEF c, d
  <2>4. /\ DOMAIN c.ids \subseteq DOMAIN U.decl
        /\ \A x \in DOMAIN c.ids : c.ids[x] = U.decl[x].usr /\ c.ids[x] \in DOMAIN index.symbols \cup {NoSymbol}
    BY <1>4, <2>1, <2>3 DEF GoodCollector
  <2>5. GoodCollector([ids |-> c.ids, symbols |-> index.symbols])
    BY <1>4, <2>4 DEF GoodCollector
  <2>6. QED
    BY <1>1, <1>3, <1>6, <2>5, NoSymbolNoted DEF c, d
<1>7. CASE /\ Answer(cf) /\ ~NotASymbol(Collector, o.decl)
           /\ \E c \in {Collect(Collector, o.decl)} : \E d \in {WithCaller(c, o)} :
                \E cs \in {Collectors(Flagged(d, o), Relations(o))} :
                  WithOccurrence(o, IdOf(c, o.decl), Caller(c, d, o), Relations(o), cs)
  <2>1. PICK c \in {Collect(Collector, o.decl)} : \E d \in {WithCaller(c, o)} :
                \E cs \in {Collectors(Flagged(d, o), Relations(o))} :
                  WithOccurrence(o, IdOf(c, o.decl), Caller(c, d, o), Relations(o), cs)
    BY <1>7
  <2>2. PICK d \in {WithCaller(c, o)} : \E cs \in {Collectors(Flagged(d, o), Relations(o))} :
                  WithOccurrence(o, IdOf(c, o.decl), Caller(c, d, o), Relations(o), cs)
    BY <2>1
  <2> DEFINE f == Flagged(d, o)
             rel == Relations(o)
             cs == Collectors(f, rel)
             last == cs[Len(rel)]
             caller == Caller(c, d, o)
             B == Related(s, rel, cs, "BaseOf")
             O == Related(s, rel, cs, "OverrideOf")
  <2>3. WithOccurrence(o, IdOf(c, o.decl), caller, rel, cs)
    BY <2>2
  <2>4. c = Collect(Collector, o.decl) /\ d = WithCaller(c, o)
    BY <2>1, <2>2
  <2>5. /\ IdOf(c, o.decl) = s /\ s \in DOMAIN f.symbols /\ caller \in DOMAIN f.symbols \cup {NoSymbol}
        /\ GoodCollector(f) /\ DOMAIN index.symbols \subseteq DOMAIN f.symbols
        /\ \A x : FromProject(f.symbols, x) <=> FromProject(index.symbols, x) \/ (x = s /\ Declares(o.roles))
    BY <1>2, <1>4, <1>7, <2>4, OccurrenceFacts
  <2> HIDE DEF f, caller, s
  <2>6. /\ GoodCollector(last) /\ DOMAIN f.symbols \subseteq DOMAIN last.symbols
        /\ \A x : FromProject(last.symbols, x) <=> FromProject(f.symbols, x)
        /\ B \subseteq (DOMAIN last.symbols) \X (DOMAIN last.symbols)
        /\ O \subseteq (DOMAIN last.symbols) \X (DOMAIN last.symbols)
    <3> HIDE DEF rel
    <3>1. rel \in Seq([role : {"BaseOf", "OverrideOf"}, decl : DOMAIN U.decl])
      BY <1>3 DEF rel
    <3>2. QED
      BY <1>2, <2>5, <3>1, CollectorsFacts
  <2>7. /\ declIds' = last.ids
        /\ index' = [main |-> index.main, files |-> index.files \cup NewlyIndexed({cf}),
                     rows |-> [index.rows EXCEPT !["reference"] = @ \cup {Reference(o.loc, s, caller, DeclFlags(o))}],
                     symbols |-> last.symbols, baseOfs |-> index.baseOfs \cup B,
                     overrides |-> index.overrides \cup O, refargs |-> index.refargs]
    <3>1. declIds' = last.ids
      BY <2>3 DEF WithOccurrence
    <3>2. WithOccurrence(o, s, caller, rel, cs)
      BY <2>3, <2>5
    <3>3. QED
      BY <1>2, <3>1, <3>2, WithOccurrenceFields
  <2> HIDE DEF last, cs, rel, B, O
  <2>8. Declares(DeclFlags(o)) <=> Declares(o.roles)
    BY DEF Declares, DeclFlags, ReferenceFlags
  <2>9. GoodCollector([ids |-> declIds', symbols |-> last.symbols])
    <3>1. last = [ids |-> last.ids, symbols |-> last.symbols]
      BY <2>6 DEF GoodCollector
    <3>2. QED
      BY <2>6, <2>7, <3>1
  <2>10. /\ DOMAIN macroIds' \subseteq DOMAIN U.macro
         /\ \A m \in DOMAIN macroIds' : macroIds'[m] \in DOMAIN last.symbols \ {NoSymbol}
         /\ DOMAIN moduleIds' \subseteq DOMAIN U.module
         /\ \A m \in DOMAIN moduleIds' : moduleIds'[m] \in DOMAIN last.symbols \ {NoSymbol}
    BY <1>1, <1>2, <2>5, <2>6 DEF SymbolsInv
  <2>11. /\ DOMAIN index.symbols \subseteq DOMAIN last.symbols /\ s \in DOMAIN last.symbols
         /\ caller \in DOMAIN last.symbols \cup {NoSymbol}
         /\ \A x : FromProject(last.symbols, x)
                     <=> FromProject(index.symbols, x) \/ (x = s /\ Declares(DeclFlags(o)))
    BY <2>5, <2>6, <2>8
  <2>12. QED
    BY <1>1, <1>3, <1>7, <2>6, <2>7, <2>9, <2>10, <2>11, ReferenceNoted
<1>8. QED
  BY <1>5, <1>6, <1>7 DEF DeclOccurrence

\* Only the reference and its file are new, no relations.
LEMMA ReferenceOnly ==
  ASSUME ShapeInv, NEW cf, NEW symbols, NEW r, index' = WithReference(cf, symbols, r)
  PROVE  index' = [main |-> index.main, files |-> index.files \cup NewlyIndexed({cf}),
                   rows |-> [index.rows EXCEPT !["reference"] = @ \cup {r}], symbols |-> symbols,
                   baseOfs |-> index.baseOfs \cup {}, overrides |-> index.overrides \cup {},
                   refargs |-> index.refargs]
<1>1. index.baseOfs \cup {} = index.baseOfs /\ index.overrides \cup {} = index.overrides
  OBVIOUS
<1>2. QED
  BY <1>1, WithReferenceFields

\* A good symbol knows its id.
LEMMA IdFound ==
  ASSUME NEW symbols, GoodSymbols(symbols), NEW s \in DOMAIN symbols
  PROVE  symbols[s].id = s
BY DEF GoodSymbols

\* The symbols s of a macro or a module: those that are known, or one more.
LEMMA SymbolNoted ==
  ASSUME NEW old, GoodSymbols(old), NEW s, s # NoSymbol, NEW name, NEW kind, NEW symbols,
         \/ s \in DOMAIN old /\ symbols = Over(old, [x \in {s} |-> BlankSymbol])
         \/ symbols = Named(old, s, name, kind)
  PROVE  /\ GoodSymbols(symbols) /\ DOMAIN symbols = DOMAIN old \cup {s}
         /\ symbols[s].id = s /\ \A x : FromProject(symbols, x) <=> FromProject(old, x)
<1>1. CASE s \in DOMAIN old /\ symbols = Over(old, [x \in {s} |-> BlankSymbol])
  <2>1. DOMAIN symbols = DOMAIN old /\ symbols = [x \in DOMAIN old |-> old[x]]
    BY <1>1 DEF Over
  <2>2. symbols = old
    <3>1. old = [x \in DOMAIN old |-> old[x]]
      BY DEF GoodSymbols
    <3>2. QED
      BY <2>1, <3>1, Zenon
  <2>3. old[s].id = s
    BY <1>1 DEF GoodSymbols
  <2>4. QED
    BY <1>1, <2>2, <2>3
<1>2. CASE symbols = Named(old, s, name, kind)
  <2>1. /\ GoodSymbols(symbols) /\ DOMAIN symbols = DOMAIN old \cup {s}
        /\ \A x : FromProject(symbols, x) <=> FromProject(old, x)
    BY <1>2, NamedFacts
  <2>2. symbols[s].id = s
    BY <2>1, IdFound
  <2>3. QED
    BY <2>1, <2>2
<1>3. QED
  BY <1>1, <1>2

\* The collector's declarations stay as good with more symbols.
LEMMA MoreSymbols ==
  ASSUME NEW c, GoodCollector(c), NEW symbols, GoodSymbols(symbols), DOMAIN c.symbols \subseteq DOMAIN symbols
  PROVE  GoodCollector([ids |-> c.ids, symbols |-> symbols])
BY DEF GoodCollector

\* handleMacroOccurrence
LEMMA MacroOccurrenceKeepsInv ==
  ASSUME IndInv, NEW o \in U.macros, MacroOccurrence(o)
  PROVE  IndInv'
<1> DEFINE cf == o.loc.cf
           M == U.macro[o.macro]
           ids == Over(macroIds, [m \in {o.macro} |-> M.usr])
           s == ids[o.macro]
           symbols == IF o.macro \in DOMAIN macroIds
                        THEN Over(index.symbols, [x \in {s} |-> BlankSymbol])
                        ELSE Named(index.symbols, s, M.name, "Macro")
           F == (symbols[s].flags \ {"FunctionLike"}) \cup (M.props \cap {"FunctionLike"})
                  \cup (IF Declares(o.roles) THEN {"FromProject"} ELSE {})
           new == [symbols EXCEPT ![s].flags = F]
           roles == o.roles \cap {"Declaration", "Definition"}
<1>1. Callback(cf) /\ declIds' = declIds /\ moduleIds' = moduleIds /\ phase = "indexing"
  BY DEF MacroOccurrence, Callback
<1>2. unit \in DOMAIN Unit /\ ShapeInv /\ SymbolsInv
  BY <1>1 DEF IndInv, ControlInv
<1>3. o.macro \in DOMAIN U.macro /\ cf \in DOMAIN U.file
  BY <1>2, UnitFacts
<1>4. GoodCollector(Collector) /\ Collector.symbols = index.symbols /\ Collector.ids = declIds
      /\ GoodSymbols(index.symbols)
  BY <1>1, <1>2 DEF SymbolsInv, Collector, GoodCollector
<1>5. CASE ~Answer(cf) /\ UNCHANGED <<macroIds, index>>
  BY <1>1, <1>3, <1>5, NothingNoted DEF symbolCaches
<1>6. CASE index' = [index EXCEPT !.files = @ \cup NewlyIndexed({cf})] /\ UNCHANGED macroIds
  <2>1. GoodCollector([ids |-> declIds', symbols |-> index.symbols])
    BY <1>1, <1>4 DEF GoodCollector
  <2>2. QED
    BY <1>1, <1>3, <1>6, <2>1, NoSymbolNoted
<1>7. CASE /\ Answer(cf) /\ M.usr # NoSymbol /\ macroIds' = ids
           /\ index' = WithReference(cf, new, Reference(o.loc, symbols[s].id, NoSymbol, roles))
  <2>1. /\ DOMAIN ids = DOMAIN macroIds \cup {o.macro} /\ \A m \in DOMAIN macroIds : ids[m] = macroIds[m]
        /\ s = IF o.macro \in DOMAIN macroIds THEN macroIds[o.macro] ELSE M.usr
    <3>1. ids = Over(macroIds, [m \in {o.macro} |-> M.usr])
      OBVIOUS
    <3> HIDE DEF ids, M
    <3>2. QED
      BY <3>1 DEF Over
  <2> HIDE DEF ids, M, cf, s
  <2>2. s # NoSymbol /\ (o.macro \in DOMAIN macroIds => s \in DOMAIN index.symbols)
    BY <1>1, <1>2, <1>7, <2>1 DEF SymbolsInv
  <2>3. /\ GoodSymbols(symbols) /\ DOMAIN symbols = DOMAIN index.symbols \cup {s} /\ symbols[s].id = s
        /\ \A x : FromProject(symbols, x) <=> FromProject(index.symbols, x)
    <3>1. \/ s \in DOMAIN index.symbols /\ symbols = Over(index.symbols, [x \in {s} |-> BlankSymbol])
          \/ symbols = Named(index.symbols, s, M.name, "Macro")
      BY <2>2
    <3> HIDE DEF symbols
    <3>2. QED
      BY <1>4, <2>2, <3>1, SymbolNoted
  <2>4. new = WithFlags(symbols, s, F)
    BY DEF WithFlags
  <2>5. F \subseteq Flag /\ ("FromProject" \in F <=> FromProject(symbols, s) \/ Declares(o.roles))
    <3> HIDE DEF symbols
    <3>1. symbols[s].flags \subseteq Flag
      BY <2>3 DEF GoodSymbols
    <3>2. "FromProject" \in symbols[s].flags <=> FromProject(symbols, s)
      BY <2>3 DEF FromProject
    <3>3. QED
      BY <3>1, <3>2 DEF Flag
  <2> HIDE DEF symbols, F, new
  <2>6. /\ GoodSymbols(new) /\ DOMAIN new = DOMAIN symbols
        /\ \A x : FromProject(new, x) <=> IF x = s THEN "FromProject" \in F ELSE FromProject(symbols, x)
    <3>1. s \in DOMAIN symbols /\ F \in SUBSET Flag /\ GoodSymbols(symbols)
      BY <2>3, <2>5
    <3>2. QED
      BY <2>4, <3>1, FlagsSet
  <2>7. Declares(roles) <=> Declares(o.roles)
    BY DEF Declares
  <2> HIDE DEF roles
  <2>8. \A x : FromProject(new, x) <=> FromProject(index.symbols, x) \/ (x = s /\ Declares(roles))
    BY <2>3, <2>5, <2>6, <2>7
  <2>9. DOMAIN index.symbols \subseteq DOMAIN new /\ s \in DOMAIN new
    BY <2>3, <2>6
  <2>10. index' = [main |-> index.main, files |-> index.files \cup NewlyIndexed({cf}),
                   rows |-> [index.rows EXCEPT !["reference"] = @ \cup {Reference(o.loc, s, NoSymbol, roles)}],
                   symbols |-> new, baseOfs |-> index.baseOfs \cup {}, overrides |-> index.overrides \cup {},
                   refargs |-> index.refargs]
    BY <1>2, <1>7, <2>3, ReferenceOnly
  <2>11. GoodCollector([ids |-> declIds', symbols |-> new])
    BY <1>1, <1>4, <2>6, <2>9, MoreSymbols
  <2>12. /\ DOMAIN macroIds' \subseteq DOMAIN U.macro
         /\ \A m \in DOMAIN macroIds' : macroIds'[m] \in DOMAIN new \ {NoSymbol}
    BY <1>1, <1>2, <1>3, <1>7, <2>1, <2>2, <2>9 DEF SymbolsInv, s
  <2>13. /\ DOMAIN moduleIds' \subseteq DOMAIN U.module
         /\ \A m \in DOMAIN moduleIds' : moduleIds'[m] \in DOMAIN new \ {NoSymbol}
    BY <1>1, <1>2, <2>9 DEF SymbolsInv
  <2>14. {} \in SUBSET ((DOMAIN new) \X (DOMAIN new)) /\ NoSymbol \in DOMAIN new \cup {NoSymbol}
    OBVIOUS
  <2>15. QED
    BY <1>1, <1>3, <1>7, <2>8, <2>9, <2>10, <2>11, <2>12, <2>13, <2>14, ReferenceNoted DEF cf
<1>8. QED
  BY <1>5, <1>6, <1>7 DEF MacroOccurrence

\* handleModuleOccurrence
LEMMA ModuleOccurrenceKeepsInv ==
  ASSUME IndInv, NEW o \in U.modules, ModuleOccurrence(o)
  PROVE  IndInv'
<1> DEFINE cf == o.loc.cf
           M == U.module[o.module]
           ids == Over(moduleIds, [m \in {o.module} |-> M.usr])
           s == ids[o.module]
           symbols == IF o.module \in DOMAIN moduleIds
                        THEN Over(index.symbols, [x \in {s} |-> BlankSymbol])
                        ELSE Named(index.symbols, s, M.name, "Module")
<1>1. Callback(cf) /\ declIds' = declIds /\ macroIds' = macroIds /\ phase = "indexing"
  BY DEF ModuleOccurrence, Callback
<1>2. unit \in DOMAIN Unit /\ ShapeInv /\ SymbolsInv
  BY <1>1 DEF IndInv, ControlInv
<1>3. o.module \in DOMAIN U.module /\ cf \in DOMAIN U.file
  BY <1>2, UnitFacts
<1>4. GoodCollector(Collector) /\ Collector.symbols = index.symbols /\ Collector.ids = declIds
      /\ GoodSymbols(index.symbols)
  BY <1>1, <1>2 DEF SymbolsInv, Collector, GoodCollector
<1>5. CASE ~Answer(cf) /\ UNCHANGED <<moduleIds, index>>
  BY <1>1, <1>3, <1>5, NothingNoted DEF symbolCaches
<1>6. CASE index' = [index EXCEPT !.files = @ \cup NewlyIndexed({cf})] /\ UNCHANGED moduleIds
  <2>1. GoodCollector([ids |-> declIds', symbols |-> index.symbols])
    BY <1>1, <1>4 DEF GoodCollector
  <2>2. QED
    BY <1>1, <1>3, <1>6, <2>1, NoSymbolNoted
<1>7. CASE /\ Answer(cf) /\ M.usr # NoSymbol /\ moduleIds' = ids
           /\ index' = WithReference(cf, symbols, Reference(o.loc, symbols[s].id, NoSymbol, {}))
  <2>1. /\ DOMAIN ids = DOMAIN moduleIds \cup {o.module} /\ \A m \in DOMAIN moduleIds : ids[m] = moduleIds[m]
        /\ s = IF o.module \in DOMAIN moduleIds THEN moduleIds[o.module] ELSE M.usr
    <3>1. ids = Over(moduleIds, [m \in {o.module} |-> M.usr])
      OBVIOUS
    <3> HIDE DEF ids, M
    <3>2. QED
      BY <3>1 DEF Over
  <2> HIDE DEF ids, M, cf, s
  <2>2. s # NoSymbol /\ (o.module \in DOMAIN moduleIds => s \in DOMAIN index.symbols)
    BY <1>1, <1>2, <1>7, <2>1 DEF SymbolsInv
  <2>3. /\ GoodSymbols(symbols) /\ DOMAIN symbols = DOMAIN index.symbols \cup {s} /\ symbols[s].id = s
        /\ \A x : FromProject(symbols, x) <=> FromProject(index.symbols, x)
    <3>1. \/ s \in DOMAIN index.symbols /\ symbols = Over(index.symbols, [x \in {s} |-> BlankSymbol])
          \/ symbols = Named(index.symbols, s, M.name, "Module")
      BY <2>2
    <3> HIDE DEF symbols
    <3>2. QED
      BY <1>4, <2>2, <3>1, SymbolNoted
  <2> HIDE DEF symbols
  <2>4. ~Declares({})
    BY DEF Declares
  <2>5. /\ DOMAIN index.symbols \subseteq DOMAIN symbols /\ s \in DOMAIN symbols
        /\ \A x : FromProject(symbols, x) <=> FromProject(index.symbols, x) \/ (x = s /\ Declares({}))
    BY <2>3, <2>4
  <2>6. index' = [main |-> index.main, files |-> index.files \cup NewlyIndexed({cf}),
                  rows |-> [index.rows EXCEPT !["reference"] = @ \cup {Reference(o.loc, s, NoSymbol, {})}],
                  symbols |-> symbols, baseOfs |-> index.baseOfs \cup {}, overrides |-> index.overrides \cup {},
                  refargs |-> index.refargs]
    BY <1>2, <1>7, <2>3, ReferenceOnly
  <2>7. GoodCollector([ids |-> declIds', symbols |-> symbols])
    BY <1>1, <1>4, <2>3, <2>5, MoreSymbols
  <2>8. /\ DOMAIN moduleIds' \subseteq DOMAIN U.module
        /\ \A m \in DOMAIN moduleIds' : moduleIds'[m] \in DOMAIN symbols \ {NoSymbol}
    BY <1>1, <1>2, <1>3, <1>7, <2>1, <2>2, <2>5 DEF SymbolsInv, s
  <2>9. /\ DOMAIN macroIds' \subseteq DOMAIN U.macro
        /\ \A m \in DOMAIN macroIds' : macroIds'[m] \in DOMAIN symbols \ {NoSymbol}
    BY <1>1, <1>2, <2>5 DEF SymbolsInv
  <2>10. {} \in SUBSET ((DOMAIN symbols) \X (DOMAIN symbols)) /\ NoSymbol \in DOMAIN symbols \cup {NoSymbol}
    OBVIOUS
  <2>11. QED
    BY <1>1, <1>3, <1>7, <2>5, <2>6, <2>7, <2>8, <2>9, <2>10, ReferenceNoted DEF cf
<1>8. QED
  BY <1>5, <1>6, <1>7 DEF ModuleOccurrence

\* HandleDiagnostic
LEMMA DiagnoseKeepsInv ==
  ASSUME IndInv, NEW d \in U.diagnostics, Diagnose(d)
  PROVE  IndInv'
<1> DEFINE cf == d.loc.cf
           row == [file |-> FileIdOf(cf), key |-> <<Position(d.loc), d.message>>,
                   symbol |-> NoSymbol, to |-> NoSymbol]
           D == IF Answer(cf) /\ FileIdOf(cf) # NoFile THEN {row} ELSE {}
           new == NewlyIndexed({cf})
           a == [index EXCEPT !.files = @ \cup new]
<1>1. Callback(cf) /\ UNCHANGED symbolCaches /\ phase = "indexing"
      /\ index' = [a EXCEPT !.rows["diagnostic"] = @ \cup D]
  BY DEF Diagnose, Callback
<1>2. unit \in DOMAIN Unit /\ ShapeInv /\ SymbolsInv /\ FilesInv
  BY <1>1 DEF IndInv, ControlInv
<1>3. cf \in DOMAIN U.file
  BY <1>2, UnitFacts
<1>4. /\ phase' = phase /\ unit' = unit /\ U' = U /\ ControlInv'
      /\ index'.files = index.files \cup new => FilesInv'
  BY <1>1, <1>3, CallbackFacts
<1>5. \A r \in D : r.file \in index.files \cup new
  <2>1. \A r \in D : Answer(cf) /\ r.file = FileIdOf(cf)
    OBVIOUS
  <2>2. Answer(cf) => FileIdOf(cf) \in index.files \cup new
    BY <1>1, <1>2, <1>3, IndexedFacts
  <2>3. QED
    BY <2>1, <2>2
<1>0. a = [index EXCEPT !.files = @ \cup new]
  OBVIOUS
<1> HIDE DEF cf, row, D, new, a
<1>6. a = [main |-> index.main, files |-> index.files \cup new, rows |-> index.rows, symbols |-> index.symbols,
           baseOfs |-> index.baseOfs, overrides |-> index.overrides, refargs |-> index.refargs]
  BY <1>0, <1>2 DEF ShapeInv
<1>7. index' = [main |-> index.main, files |-> index.files \cup new,
                rows |-> [index.rows EXCEPT !["diagnostic"] = @ \cup D], symbols |-> index.symbols,
                baseOfs |-> index.baseOfs, overrides |-> index.overrides, refargs |-> index.refargs]
  BY <1>1, <1>6
<1>8. /\ index'.files = index.files \cup new /\ index'.symbols = index.symbols
      /\ index'.baseOfs = index.baseOfs /\ index'.overrides = index.overrides /\ index'.refargs = index.refargs
      /\ index'.rows = [index.rows EXCEPT !["diagnostic"] = @ \cup D] /\ index'.main = index.main
  BY <1>7
<1>9. /\ index'.rows["diagnostic"] = index.rows["diagnostic"] \cup D
      /\ \A k \in Kind \ {"diagnostic"} : index'.rows[k] = index.rows[k]
      /\ index'.rows = [k \in Kind |-> index'.rows[k]]
      /\ "reference" \in Kind \ {"diagnostic"} /\ "declaration" \in Kind \ {"diagnostic"}
  BY <1>2, <1>8 DEF ShapeInv, Kind
<1>10. ShapeInv'
  BY <1>2, <1>7, <1>8, <1>9 DEF ShapeInv
<1>11. IndexIsWellFormed'
  BY <1>5, <1>8, <1>9 DEF IndInv, IndexIsWellFormed, WellFormed
<1>12. FromProjectMeansDeclared'
  BY <1>4, <1>8, <1>9 DEF IndInv, FromProjectMeansDeclared
<1>13. SymbolsInv'
  BY <1>1, <1>2, <1>4, <1>8, SymbolsKept DEF SymbolsInv, Collector, symbolCaches
<1>14. QED
  BY <1>4, <1>8, <1>10, <1>11, <1>12, <1>13 DEF IndInv

-----------------------------------------------------------------------------
(* The end of a unit.                                                      *)

\* Header guards are marked and nothing else changes.
LEMMA GuardsFacts ==
  ASSUME NEW symbols, GoodSymbols(symbols), NEW new, new = WithHeaderGuards(symbols)
  PROVE  /\ GoodSymbols(new) /\ DOMAIN new = DOMAIN symbols
         /\ \A x : FromProject(new, x) <=> FromProject(symbols, x)
<1> DEFINE known == {m \in DOMAIN macroIds : U.macro[m].current}
           Flags(s) ==
             IF \E m \in known : macroIds[m] = s /\ "guard" \in U.macro[m].props
               THEN symbols[s].flags \cup {"HeaderGuard"}
               ELSE symbols[s].flags
<1>1. new = [s \in DOMAIN symbols |-> [symbols[s] EXCEPT !.flags = Flags(s)]]
  BY DEF WithHeaderGuards
<1>2. \A s \in DOMAIN symbols : /\ symbols[s].flags \subseteq Flag => Flags(s) \subseteq Flag
                                /\ "FromProject" \in Flags(s) <=> "FromProject" \in symbols[s].flags
  BY DEF Flag
<1> HIDE DEF Flags
<1>3. DOMAIN new = DOMAIN symbols /\ new = [s \in DOMAIN new |-> new[s]]
      /\ \A s \in DOMAIN symbols : new[s] = [symbols[s] EXCEPT !.flags = Flags(s)]
  BY <1>1
<1>4. ASSUME NEW s \in DOMAIN symbols
      PROVE  /\ new[s] = [id |-> s, name |-> new[s].name, kind |-> new[s].kind,
                          parent |-> new[s].parent, flags |-> new[s].flags]
             /\ new[s].parent \in DOMAIN symbols \cup {NoSymbol} /\ new[s].flags = Flags(s)
             /\ symbols[s].flags \subseteq Flag
  BY <1>3 DEF GoodSymbols
<1>5. GoodSymbols(new)
  <2>1. \A s \in DOMAIN new : /\ new[s] = [id |-> s, name |-> new[s].name, kind |-> new[s].kind,
                                           parent |-> new[s].parent, flags |-> new[s].flags]
                              /\ new[s].parent \in DOMAIN new \cup {NoSymbol} /\ new[s].flags \subseteq Flag
    <3> SUFFICES ASSUME NEW s \in DOMAIN symbols
                 PROVE  /\ new[s] = [id |-> s, name |-> new[s].name, kind |-> new[s].kind,
                                     parent |-> new[s].parent, flags |-> new[s].flags]
                        /\ new[s].parent \in DOMAIN new \cup {NoSymbol} /\ new[s].flags \subseteq Flag
      BY <1>3
    <3>1. new[s].flags \subseteq Flag
      BY <1>2, <1>4
    <3>2. new[s].parent \in DOMAIN new \cup {NoSymbol}
      BY <1>3, <1>4
    <3>3. QED
      BY <1>4, <3>1, <3>2
  <2>2. new = [s \in DOMAIN new |-> new[s]]
    BY <1>3
  <2>3. QED
    BY <2>1, <2>2 DEF GoodSymbols
<1>6. \A x : FromProject(new, x) <=> FromProject(symbols, x)
  BY <1>2, <1>3, <1>4 DEF FromProject
<1>7. QED
  BY <1>3, <1>5, <1>6

\* Redeclarations are in files that clang knows and of symbols of the index.
LEMMA RangesFacts ==
  ASSUME unit \in DOMAIN Unit, GoodCollector(Collector), NEW symbols, GoodSymbols(symbols)
  PROVE  \A x \in Ranges(symbols) : /\ x.range.begin.cf \in DOMAIN U.file /\ x.range.end.cf \in DOMAIN U.file
                                    /\ x.symbol.id \in DOMAIN symbols
<1> DEFINE known == {d \in DOMAIN declIds : declIds[d] \in DOMAIN symbols}
           Of(d) == {[range |-> r, symbol |-> symbols[declIds[d]]] : r \in U.decl[d].redecls}
<1> SUFFICES ASSUME NEW x \in Ranges(symbols)
             PROVE  /\ x.range.begin.cf \in DOMAIN U.file /\ x.range.end.cf \in DOMAIN U.file
                    /\ x.symbol.id \in DOMAIN symbols
  OBVIOUS
<1>1. x \in UNION {Of(d) : d \in known}
  BY DEF Ranges
<1>2. PICK d \in known : x \in Of(d)
  BY <1>1
<1>3. PICK r \in U.decl[d].redecls : x = [range |-> r, symbol |-> symbols[declIds[d]]]
  BY <1>2
<1>4. d \in DOMAIN U.decl /\ declIds[d] \in DOMAIN symbols
  BY <1>2 DEF GoodCollector, Collector
<1>5. symbols[declIds[d]].id = declIds[d]
  BY <1>4, IdFound
<1>6. x.range = r /\ x.symbol = symbols[declIds[d]]
  BY <1>3
<1>7. QED
  BY <1>4, <1>5, <1>6, UnitFacts

\* What markImplicitReferences does to r.
Marked(refs, symbols, r) ==
  LET E == {q \in refs : SameLocation(q, r) /\ Explicit(q)}
  IN IF r \in E \ Primary(E, symbols) THEN [r EXCEPT !.flags = @ \cup {"Implicit"}] ELSE r

\* The fields of a reference.
IsReference(r) == r = [file |-> r.file, key |-> r.key, symbol |-> r.symbol, to |-> r.to, flags |-> r.flags]

\* Only flags of r change.
LEMMA MarkedFacts ==
  ASSUME NEW refs, NEW symbols, NEW r, IsReference(r), NEW m, m = Marked(refs, symbols, r)
  PROVE  /\ IsReference(m) /\ m.file = r.file /\ m.key = r.key /\ m.symbol = r.symbol /\ m.to = r.to
         /\ Declares(m.flags) <=> Declares(r.flags)
<1>1. CASE m = r
  BY <1>1
<1>2. CASE m = [r EXCEPT !.flags = @ \cup {"Implicit"}]
  <2>1. m = [file |-> r.file, key |-> r.key, symbol |-> r.symbol, to |-> r.to, flags |-> r.flags \cup {"Implicit"}]
    BY <1>2 DEF IsReference
  <2>2. /\ m.file = r.file /\ m.key = r.key /\ m.symbol = r.symbol /\ m.to = r.to
        /\ m.flags = r.flags \cup {"Implicit"}
    BY <2>1
  <2>3. IsReference(m)
    BY <2>1, <2>2 DEF IsReference
  <2>4. Declares(m.flags) <=> Declares(r.flags)
    BY <2>2 DEF Declares
  <2>5. QED
    BY <2>2, <2>3, <2>4
<1>3. QED
  BY <1>1, <1>2 DEF Marked

\* What finish makes of the index.
LEMMA FinishFacts ==
  ASSUME ShapeInv, Finish
  PROVE  LET symbols == WithHeaderGuards(index.symbols)
             ends == {x.range.end.cf : x \in Ranges(symbols)}
             asked == {i.cf : i \in U.inclusions} \cup {k.cf : k \in U.calls} \cup ends
             located == {x.range.begin.cf : x \in {y \in Ranges(symbols) : Answer(y.range.end.cf)}}
         IN /\ \E refs \in SortAndRemoveDuplicates(index.rows["reference"]) :
                 index'.rows["reference"] = {Marked(refs, symbols, r) : r \in refs}
            /\ index'.rows["include"] = Includes /\ index'.rows["declaration"] = Declarations(symbols)
            /\ index'.rows["diagnostic"] = index.rows["diagnostic"]
            /\ index'.rows = [k \in Kind |-> index'.rows[k]]
            /\ index' = [main |-> index'.main, files |-> index'.files, rows |-> index'.rows,
                         symbols |-> index'.symbols, baseOfs |-> index'.baseOfs,
                         overrides |-> index'.overrides, refargs |-> index'.refargs]
            /\ index'.files = index.files \cup NewlyIndexed(asked) /\ index'.symbols = symbols
            /\ index'.baseOfs = index.baseOfs /\ index'.overrides = index.overrides /\ index'.refargs = RefArgs
            /\ AskAbout(asked, located) /\ phase = "indexing" /\ phase' = "finished"
            /\ UNCHANGED <<unit, accepted, symbolCaches, started, callbacks>>
<1> DEFINE symbols == WithHeaderGuards(index.symbols)
           ends == {x.range.end.cf : x \in Ranges(symbols)}
           asked == {i.cf : i \in U.inclusions} \cup {k.cf : k \in U.calls} \cup ends
           located == {x.range.begin.cf : x \in {y \in Ranges(symbols) : Answer(y.range.end.cf)}}
           includes == Includes
           declarations == Declarations(symbols)
           refargs == RefArgs
           new == NewlyIndexed(asked)
<1>1. /\ AskAbout(asked, located) /\ phase = "indexing" /\ phase' = "finished"
      /\ UNCHANGED <<unit, accepted, symbolCaches, started, callbacks>>
  BY DEF Finish
<1>2. PICK refs \in SortAndRemoveDuplicates(index.rows["reference"]) :
             index' = [index EXCEPT
               !.files = @ \cup new,
               !.symbols = symbols,
               !.rows = [@ EXCEPT !["include"] = includes,
                                  !["reference"] = MarkImplicitReferences(refs, symbols),
                                  !["declaration"] = declarations],
               !.refargs = refargs]
  BY DEF Finish
<1> DEFINE references == MarkImplicitReferences(refs, symbols)
           a == [index EXCEPT !.files = @ \cup new]
           b == [a EXCEPT !.symbols = symbols]
           rows == [index.rows EXCEPT !["include"] = includes, !["reference"] = references,
                                      !["declaration"] = declarations]
           c == [b EXCEPT !.rows = [@ EXCEPT !["include"] = includes, !["reference"] = references,
                                             !["declaration"] = declarations]]
<1>3. references = {Marked(refs, symbols, r) : r \in refs}
  BY DEF MarkImplicitReferences, Marked
<1>4. a = [index EXCEPT !.files = @ \cup new] /\ b = [a EXCEPT !.symbols = symbols]
      /\ index' = [c EXCEPT !.refargs = refargs]
      /\ c = [b EXCEPT !.rows = [@ EXCEPT !["include"] = includes, !["reference"] = references,
                                          !["declaration"] = declarations]]
      /\ rows = [index.rows EXCEPT !["include"] = includes, !["reference"] = references,
                                   !["declaration"] = declarations]
  BY <1>2
<1> HIDE DEF symbols, new, includes, declarations, refargs, references, a, b, c, rows
<1>5. a = [main |-> index.main, files |-> index.files \cup new, rows |-> index.rows, symbols |-> index.symbols,
           baseOfs |-> index.baseOfs, overrides |-> index.overrides, refargs |-> index.refargs]
  BY <1>4 DEF ShapeInv
<1>6. b = [main |-> index.main, files |-> index.files \cup new, rows |-> index.rows, symbols |-> symbols,
           baseOfs |-> index.baseOfs, overrides |-> index.overrides, refargs |-> index.refargs]
  BY <1>4, <1>5
<1>7. c = [main |-> index.main, files |-> index.files \cup new, rows |-> rows, symbols |-> symbols,
           baseOfs |-> index.baseOfs, overrides |-> index.overrides, refargs |-> index.refargs]
  BY <1>4, <1>6
<1>8. index' = [main |-> index.main, files |-> index.files \cup new, rows |-> rows, symbols |-> symbols,
                baseOfs |-> index.baseOfs, overrides |-> index.overrides, refargs |-> refargs]
  BY <1>4, <1>7
<1>9. /\ index'.main = index.main /\ index'.files = index.files \cup new /\ index'.rows = rows
      /\ index'.symbols = symbols /\ index'.baseOfs = index.baseOfs /\ index'.overrides = index.overrides
      /\ index'.refargs = refargs
  BY <1>8
<1>10. /\ rows["include"] = includes /\ rows["reference"] = references /\ rows["declaration"] = declarations
       /\ rows["diagnostic"] = index.rows["diagnostic"] /\ rows = [k \in Kind |-> rows[k]]
  BY <1>4 DEF ShapeInv, Kind
<1>11. index' = [main |-> index'.main, files |-> index'.files, rows |-> index'.rows,
                 symbols |-> index'.symbols, baseOfs |-> index'.baseOfs,
                 overrides |-> index'.overrides, refargs |-> index'.refargs]
  BY <1>8, <1>9
<1>12. QED
  BY <1>1, <1>3, <1>9, <1>10, <1>11 DEF symbols, new, includes, declarations, refargs

\* The references that are left are some of those there were.
LEMMA KeptReferences ==
  ASSUME NEW refs, NEW K \in SortAndRemoveDuplicates(refs)
  PROVE  /\ K \subseteq refs
         /\ \A r \in refs : \E k \in K : SameReference(r, k) /\ (r.to # NoSymbol => k.to # NoSymbol)
         /\ \A a, b \in K : SameReference(a, b) => a = b
<1> DEFINE first == {r \in refs : r.to # NoSymbol \/ \A q \in refs : SameReference(q, r) => q.to = NoSymbol}
<1>1. /\ K \in SUBSET first /\ \A r \in first : \E k \in K : SameReference(r, k)
      /\ \A a, b \in K : SameReference(a, b) => a = b
  BY DEF SortAndRemoveDuplicates
<1>2. first \subseteq refs
  OBVIOUS
<1>3. ASSUME NEW r \in refs
      PROVE  \E k \in K : SameReference(r, k) /\ (r.to # NoSymbol => k.to # NoSymbol)
  <2>1. CASE r.to # NoSymbol
    <3>1. r \in first
      BY <2>1
    <3>2. PICK k \in K : SameReference(r, k)
      BY <1>1, <3>1
    <3>3. k.to # NoSymbol \/ \A q \in refs : SameReference(q, k) => q.to = NoSymbol
      BY <1>1
    <3>4. QED
      BY <2>1, <3>2, <3>3
  <2>2. CASE r.to = NoSymbol /\ r \in first
    BY <1>1, <2>2
  <2>3. CASE r.to = NoSymbol /\ r \notin first
    <3>1. PICK q \in refs : SameReference(q, r) /\ q.to # NoSymbol
      BY <2>3
    <3>2. q \in first
      BY <3>1
    <3>3. PICK k \in K : SameReference(q, k)
      BY <1>1, <3>2
    <3>4. SameReference(r, k)
      BY <3>1, <3>3 DEF SameReference, SameLocation
    <3>5. QED
      BY <2>3, <3>4
  <2>4. QED
    BY <2>1, <2>2, <2>3
<1>4. QED
  BY <1>1, <1>2, <1>3

\* Indexer::finish
LEMMA FinishKeepsInv ==
  ASSUME IndInv, Finish
  PROVE  IndInv'
<1> DEFINE symbols == WithHeaderGuards(index.symbols)
           ends == {x.range.end.cf : x \in Ranges(symbols)}
           asked == {i.cf : i \in U.inclusions} \cup {k.cf : k \in U.calls} \cup ends
           located == {x.range.begin.cf : x \in {y \in Ranges(symbols) : Answer(y.range.end.cf)}}
<1>1. /\ index'.rows["include"] = Includes /\ index'.rows["declaration"] = Declarations(symbols)
      /\ index'.rows["diagnostic"] = index.rows["diagnostic"]
      /\ index'.rows = [k \in Kind |-> index'.rows[k]]
      /\ index' = [main |-> index'.main, files |-> index'.files, rows |-> index'.rows,
                   symbols |-> index'.symbols, baseOfs |-> index'.baseOfs,
                   overrides |-> index'.overrides, refargs |-> index'.refargs]
      /\ index'.files = index.files \cup NewlyIndexed(asked) /\ index'.symbols = symbols
      /\ index'.baseOfs = index.baseOfs /\ index'.overrides = index.overrides /\ index'.refargs = RefArgs
      /\ AskAbout(asked, located) /\ phase = "indexing" /\ phase' = "finished"
      /\ UNCHANGED <<unit, accepted, symbolCaches, started, callbacks>>
  BY FinishFacts DEF IndInv
<1>2. PICK refs \in SortAndRemoveDuplicates(index.rows["reference"]) :
             index'.rows["reference"] = {Marked(refs, symbols, r) : r \in refs}
  BY FinishFacts DEF IndInv
<1>3. /\ unit \in DOMAIN Unit /\ ShapeInv /\ SymbolsInv /\ FilesInv /\ phase # "idle"
      /\ IndexIsWellFormed /\ FromProjectMeansDeclared
  BY <1>1 DEF IndInv, ControlInv
<1>4. GoodCollector(Collector) /\ GoodSymbols(index.symbols) /\ Collector = [ids |-> declIds, symbols |-> index.symbols]
  BY <1>3 DEF SymbolsInv, Collector, GoodCollector
<1>5. /\ GoodSymbols(symbols) /\ DOMAIN symbols = DOMAIN index.symbols
      /\ \A x : FromProject(symbols, x) <=> FromProject(index.symbols, x)
  BY <1>4, GuardsFacts
<1> HIDE DEF symbols
<1>6. \A x \in Ranges(symbols) : /\ x.range.begin.cf \in DOMAIN U.file /\ x.range.end.cf \in DOMAIN U.file
                                 /\ x.symbol.id \in DOMAIN symbols
  BY <1>3, <1>4, <1>5, RangesFacts
<1>7. asked \subseteq DOMAIN U.file /\ located \subseteq DOMAIN U.file
  BY <1>3, <1>6, UnitFacts
<1>8. FilesInv'
  BY <1>1, <1>3, <1>7, AskFacts
<1>9. ControlInv'
  BY <1>1 DEF IndInv, ControlInv
<1>10. SymbolsInv'
  <2>1. declIds' = declIds /\ macroIds' = macroIds /\ moduleIds' = moduleIds /\ unit' = unit
    BY <1>1 DEF symbolCaches
  <2>2. GoodCollector([ids |-> declIds', symbols |-> index'.symbols])
    <3>1. Collector.ids = declIds /\ Collector.symbols = index.symbols
      BY DEF Collector
    <3>2. QED
      BY <1>1, <1>4, <1>5, <2>1, <3>1, MoreSymbols
  <2>3. QED
    BY <1>1, <1>3, <1>5, <2>1, <2>2, SymbolsKept DEF SymbolsInv
<1>11. \A cf \in asked : Answer(cf) => FileIdOf(cf) \in index'.files
  BY <1>1, <1>3, <1>7, IndexedFacts
<1>12. \A r \in refs : r \in index.rows["reference"] /\ IsReference(r)
  <2>1. refs \subseteq index.rows["reference"]
    BY <1>2, KeptReferences
  <2>2. \A r \in index.rows["reference"] : IsReference(r)
    BY <1>3 DEF ShapeInv, IsReference
  <2>3. QED
    BY <2>1, <2>2
<1>13. ASSUME NEW m \in index'.rows["reference"]
       PROVE  /\ IsReference(m)
              /\ \E r \in index.rows["reference"] :
                   /\ m.file = r.file /\ m.symbol = r.symbol /\ m.to = r.to
                   /\ Declares(m.flags) <=> Declares(r.flags)
  <2>1. PICK r \in refs : m = Marked(refs, symbols, r)
    BY <1>2, <1>13
  <2>2. QED
    BY <1>12, <2>1, MarkedFacts
<1>14. ShapeInv'
  BY <1>1, <1>13 DEF ShapeInv, IsReference
<1>15. \A i \in Includes : i.file \in index'.files
  <2>1. \A i \in U.inclusions : i.cf \in asked
    OBVIOUS
  <2> HIDE DEF asked
  <2>2. QED
    BY <1>11, <2>1 DEF Includes
<1>16. \A r \in Declarations(symbols) : r.file \in index'.files /\ r.symbol \in DOMAIN symbols
  <2>1. \A x \in Ranges(symbols) : x.range.end.cf \in asked
    OBVIOUS
  <2> HIDE DEF asked
  <2> SUFFICES ASSUME NEW r \in Declarations(symbols)
               PROVE  r.file \in index'.files /\ r.symbol \in DOMAIN symbols
    OBVIOUS
  <2>2. PICK x \in Ranges(symbols) : /\ Answer(x.range.end.cf)
                                     /\ r.file = FileIdOf(x.range.end.cf) /\ r.symbol = x.symbol.id
    BY DEF Declarations
  <2>3. QED
    BY <1>6, <1>11, <2>1, <2>2
<1>17. \A r \in RefArgs : r.file \in index'.files
  <2>1. \A k \in U.calls : k.cf \in asked
    OBVIOUS
  <2> HIDE DEF asked
  <2> SUFFICES ASSUME NEW r \in RefArgs
               PROVE  r.file \in index'.files
    OBVIOUS
  <2>2. PICK k \in U.calls : Answer(k.cf) /\ r.file = FileIdOf(k.cf)
    BY DEF RefArgs
  <2>3. QED
    BY <1>11, <2>1, <2>2
<1>18. \A r \in index'.rows["reference"] : /\ r.file \in index'.files /\ r.symbol \in DOMAIN symbols
                                           /\ r.to \in DOMAIN symbols \cup {NoSymbol}
  <2>1. \A r \in index.rows["reference"] : /\ r.file \in index'.files /\ r.symbol \in DOMAIN symbols
                                           /\ r.to \in DOMAIN symbols \cup {NoSymbol}
    BY <1>1, <1>3, <1>5 DEF IndexIsWellFormed, WellFormed, Kind
  <2>2. QED
    BY <1>13, <2>1
<1>19. \A r \in index'.rows["diagnostic"] : r.file \in index'.files
  BY <1>1, <1>3 DEF IndexIsWellFormed, WellFormed, Kind
<1>20. IndexIsWellFormed'
  <2>1. index'.baseOfs \cup index'.overrides \subseteq (DOMAIN index'.symbols) \X (DOMAIN index'.symbols)
    BY <1>1, <1>3, <1>5 DEF IndexIsWellFormed, WellFormed
  <2> HIDE DEF asked, located, ends
  <2>2. \A k \in Kind : \A r \in index'.rows[k] : r.file \in index'.files
    BY <1>1, <1>15, <1>16, <1>18, <1>19 DEF Kind
  <2>3. \A k \in {"reference", "declaration"} : \A r \in index'.rows[k] : r.symbol \in DOMAIN index'.symbols
    BY <1>1, <1>16, <1>18
  <2>4. QED
    BY <1>1, <1>17, <1>18, <2>1, <2>2, <2>3 DEF IndexIsWellFormed, WellFormed
<1>21. FromProjectMeansDeclared'
  <2>1. ASSUME NEW m \in index'.rows["reference"], Declares(m.flags)
        PROVE  "FromProject" \in index'.symbols[m.symbol].flags
    <3>1. PICK r \in index.rows["reference"] : m.symbol = r.symbol /\ Declares(r.flags)
      BY <1>13, <2>1
    <3>2. FromProject(index.symbols, r.symbol)
      BY <1>3, <3>1 DEF FromProject, FromProjectMeansDeclared, IndexIsWellFormed, WellFormed
    <3>3. FromProject(symbols, m.symbol)
      BY <1>5, <3>1, <3>2
    <3>4. QED
      BY <1>1, <3>3 DEF FromProject
  <2>2. phase' # "indexing"
    BY <1>1
  <2>3. QED
    BY <2>1, <2>2 DEF FromProjectMeansDeclared
<1>22. QED
  BY <1>8, <1>9, <1>10, <1>14, <1>20, <1>21 DEF IndInv

\* The index is taken away.
LEMMA TakeIndexKeepsInv ==
  ASSUME IndInv, TakeIndex
  PROVE  IndInv'
<1>1. phase' = "idle" /\ index' = NewIndex(NoFile) /\ unit' = unit /\ started' = started /\ callbacks' = callbacks
  BY DEF TakeIndex
<1>2. ShapeInv' /\ IndexIsWellFormed' /\ FromProjectMeansDeclared' /\ index'.files = {}
  BY <1>1, NewIndexFacts
<1>3. ControlInv' /\ FilesInv' /\ SymbolsInv'
  BY <1>1, <1>2 DEF IndInv, ControlInv, FilesInv, SymbolsInv
<1>4. QED
  BY <1>2, <1>3 DEF IndInv

\* Every step keeps the invariant.
LEMMA NextKeepsInv == IndInv /\ [Next]_vars => IndInv'
<1> SUFFICES ASSUME IndInv, [Next]_vars
             PROVE  IndInv'
  OBVIOUS
<1>1. CASE \E u \in DOMAIN Unit : Initialize(u)
  BY <1>1, InitializeKeepsInv
<1>2. CASE \E o \in U.decls : DeclOccurrence(o)
  BY <1>2, DeclOccurrenceKeepsInv
<1>3. CASE \E o \in U.macros : MacroOccurrence(o)
  BY <1>3, MacroOccurrenceKeepsInv
<1>4. CASE \E o \in U.modules : ModuleOccurrence(o)
  BY <1>4, ModuleOccurrenceKeepsInv
<1>5. CASE \E d \in U.diagnostics : Diagnose(d)
  BY <1>5, DiagnoseKeepsInv
<1>6. CASE Finish
  BY <1>6, FinishKeepsInv
<1>7. CASE TakeIndex
  BY <1>7, TakeIndexKeepsInv
<1>8. CASE UNCHANGED vars
  <2>1. /\ phase' = phase /\ unit' = unit /\ accepted' = accepted /\ fileIds' = fileIds /\ answers' = answers
        /\ declIds' = declIds /\ macroIds' = macroIds /\ moduleIds' = moduleIds /\ index' = index
        /\ started' = started /\ callbacks' = callbacks
    BY <1>8 DEF vars
  <2>2. ControlInv' /\ ShapeInv' /\ IndexIsWellFormed' /\ FromProjectMeansDeclared'
    BY <2>1 DEF IndInv, ControlInv, ShapeInv, IndexIsWellFormed, FromProjectMeansDeclared
  <2>3. U' = U /\ Collector' = Collector
    BY <2>1 DEF U, Collector
  <2>4. FilesInv'
    BY <2>1, <2>3 DEF IndInv, FilesInv
  <2>5. SymbolsInv'
    BY <2>1, <2>3 DEF IndInv, SymbolsInv, GoodCollector
  <2>6. QED
    BY <2>2, <2>4, <2>5 DEF IndInv
<1>9. QED
  BY <1>1, <1>2, <1>3, <1>4, <1>5, <1>6, <1>7, <1>8 DEF Next, Done

\* The invariant of the Indexer.
THEOREM IndexerInvariant == Spec => []IndInv
BY InitHasInv, NextKeepsInv, PTL DEF Spec

\* An index is always what feed takes for granted.
THEOREM IndexIsAlwaysWellFormed == Spec => []IndexIsWellFormed
<1>1. IndInv => IndexIsWellFormed
  BY DEF IndInv
<1>2. QED
  BY <1>1, IndexerInvariant, PTL

\* The caches always know what belongs to the unit that is indexed, and no more.
THEOREM CachesAlwaysAgree == Spec => []CachesAgree
<1>1. ASSUME IndInv, phase # "idle"
      PROVE  /\ \A s \in DOMAIN index.symbols :
                  /\ index.symbols[s].id = s
                  /\ index.symbols[s].parent \in DOMAIN index.symbols \cup {NoSymbol}
             /\ \A d \in DOMAIN declIds : declIds[d] = U.decl[d].usr
             /\ {declIds[d] : d \in DOMAIN declIds} \subseteq DOMAIN index.symbols \cup {NoSymbol}
             /\ {macroIds[m] : m \in DOMAIN macroIds} \cup {moduleIds[m] : m \in DOMAIN moduleIds}
                  \subseteq DOMAIN index.symbols \ {NoSymbol}
             /\ \A cf \in DOMAIN answers : answers[cf] <=> U.file[cf] \in index.files
  <2>1. SymbolsInv /\ FilesInv
    BY <1>1 DEF IndInv
  <2>2. GoodCollector([ids |-> declIds, symbols |-> index.symbols]) /\ GoodSymbols(index.symbols)
    BY <1>1, <2>1 DEF SymbolsInv, Collector, GoodCollector
  <2>3. \A s \in DOMAIN index.symbols :
          index.symbols[s].id = s /\ index.symbols[s].parent \in DOMAIN index.symbols \cup {NoSymbol}
    BY <2>2, IdFound DEF GoodSymbols
  <2>4. \A d \in DOMAIN declIds : declIds[d] = U.decl[d].usr /\ declIds[d] \in DOMAIN index.symbols \cup {NoSymbol}
    BY <2>2 DEF GoodCollector
  <2>5. {macroIds[m] : m \in DOMAIN macroIds} \cup {moduleIds[m] : m \in DOMAIN moduleIds}
          \subseteq DOMAIN index.symbols \ {NoSymbol}
    BY <1>1, <2>1 DEF SymbolsInv
  <2>6. \A cf \in DOMAIN answers : answers[cf] <=> U.file[cf] \in index.files
    BY <1>1, <2>1 DEF FilesInv
  <2>7. QED
    BY <2>3, <2>4, <2>5, <2>6
<1>2. IndInv => CachesAgree
  BY <1>1 DEF CachesAgree
<1>3. QED
  BY <1>2, IndexerInvariant, PTL

\* "From project" is always what the references of the unit say.
THEOREM FromProjectAlwaysMeansDeclared == Spec => []FromProjectMeansDeclared
<1>1. IndInv => FromProjectMeansDeclared
  BY DEF IndInv
<1>2. QED
  BY <1>1, IndexerInvariant, PTL

\* Every variable always has its type.
THEOREM TypeCorrect == Spec => []TypeOK
<1>1. ASSUME IndInv
      PROVE  TypeOK
  <2>1. ControlInv /\ FilesInv /\ SymbolsInv
    BY <1>1 DEF IndInv
  <2>2. phase # "idle" =>
          /\ DOMAIN answers \subseteq DOMAIN fileIds
          /\ DOMAIN fileIds \subseteq DOMAIN U.file
          /\ DOMAIN declIds \subseteq DOMAIN U.decl
          /\ DOMAIN macroIds \subseteq DOMAIN U.macro
          /\ DOMAIN moduleIds \subseteq DOMAIN U.module
    BY <2>1 DEF FilesInv, SymbolsInv, GoodCollector, Collector
  <2>3. \A s \in DOMAIN index.symbols : index.symbols[s].flags \subseteq Flag
    <3>1. CASE phase = "idle"
      <4>1. index.symbols = EmptyFunction
        BY <2>1, <3>1 DEF ControlInv, NewIndex
      <4>2. QED
        BY <4>1 DEF EmptyFunction
    <3>2. CASE phase # "idle"
      BY <2>1, <3>2 DEF SymbolsInv, GoodCollector, GoodSymbols, Collector
    <3>3. QED
      BY <3>1, <3>2
  <2>4. QED
    BY <2>1, <2>2, <2>3 DEF TypeOK, ControlInv, FilesInv
<1>2. QED
  BY <1>1, IndexerInvariant, PTL

-----------------------------------------------------------------------------
(* What finish keeps.                                                      *)

\* Only finish ends the callbacks of a unit.
LEMMA OnlyFinish ==
  ASSUME [Next]_vars, Finishes
  PROVE  Finish
<1>1. phase = "indexing" /\ phase' = "finished"
  BY DEF Finishes
<1>2. ~UNCHANGED vars
  BY <1>1 DEF vars
<1>3. \A u \in DOMAIN Unit : ~Initialize(u)
  BY <1>1 DEF Initialize, NewUnit
<1>4. \A cf : ~Callback(cf)
  BY <1>1 DEF Callback
<1>5. ~TakeIndex /\ ~Done
  BY <1>1 DEF TakeIndex, Done
<1>6. QED
  BY <1>2, <1>3, <1>4, <1>5 DEF Next, DeclOccurrence, MacroOccurrence, ModuleOccurrence, Diagnose

\* No symbol is lost at any location, and no caller.
THEOREM ReferencesAlwaysSurviveFinish == Spec => ReferencesSurviveFinish
<1>1. ASSUME IndInv, [Next]_vars, Finishes
      PROVE  \A r \in index.rows["reference"] :
               \E k \in index'.rows["reference"] :
                 /\ SameReference(k, r)
                 /\ (r.to # NoSymbol => k.to # NoSymbol)
                 /\ \A q \in index'.rows["reference"] : SameReference(q, r) => q = k
  <2> DEFINE symbols == WithHeaderGuards(index.symbols)
  <2>1. Finish /\ ShapeInv
    BY <1>1, OnlyFinish DEF IndInv
  <2>2. PICK refs \in SortAndRemoveDuplicates(index.rows["reference"]) :
               index'.rows["reference"] = {Marked(refs, symbols, r) : r \in refs}
    BY <2>1, FinishFacts
  <2> HIDE DEF symbols
  <2>3. /\ refs \subseteq index.rows["reference"]
        /\ \A r \in index.rows["reference"] :
             \E k \in refs : SameReference(r, k) /\ (r.to # NoSymbol => k.to # NoSymbol)
        /\ \A a, b \in refs : SameReference(a, b) => a = b
    BY <2>2, KeptReferences
  <2>4. \A r \in refs : IsReference(r)
    BY <2>1, <2>3 DEF ShapeInv, IsReference
  <2>5. \A r \in refs : SameReference(Marked(refs, symbols, r), r) /\ Marked(refs, symbols, r).to = r.to
    BY <2>4, MarkedFacts DEF SameReference, SameLocation
  <2>6. SUFFICES ASSUME NEW r \in index.rows["reference"]
                 PROVE  \E k \in index'.rows["reference"] :
                          /\ SameReference(k, r)
                          /\ (r.to # NoSymbol => k.to # NoSymbol)
                          /\ \A q \in index'.rows["reference"] : SameReference(q, r) => q = k
    OBVIOUS
  <2>7. PICK e \in refs : SameReference(r, e) /\ (r.to # NoSymbol => e.to # NoSymbol)
    BY <2>3
  <2> DEFINE k == Marked(refs, symbols, e)
  <2>8. SameReference(k, r) /\ (r.to # NoSymbol => k.to # NoSymbol) /\ k \in index'.rows["reference"]
    BY <2>2, <2>5, <2>7 DEF SameReference, SameLocation
  <2>9. ASSUME NEW q \in index'.rows["reference"], SameReference(q, r)
        PROVE  q = k
    <3>1. PICK x \in refs : q = Marked(refs, symbols, x)
      BY <2>2
    <3>2. SameReference(x, e)
      BY <2>5, <2>7, <2>9, <3>1 DEF SameReference, SameLocation
    <3>3. QED
      BY <2>3, <3>1, <3>2
  <2> HIDE DEF k
  <2>10. QED
    BY <2>8, <2>9
<1>2. IndInv /\ [Next]_vars =>
        (Finishes =>
           \A r \in index.rows["reference"] :
             \E k \in index'.rows["reference"] :
               /\ SameReference(k, r)
               /\ (r.to # NoSymbol => k.to # NoSymbol)
               /\ \A q \in index'.rows["reference"] : SameReference(q, r) => q = k)
  BY <1>1
<1>3. QED
  BY <1>2, IndexerInvariant, PTL DEF Spec, ReferencesSurviveFinish

\* Of the references at a location at least one stays explicit.
LEMMA PrimaryFacts ==
  ASSUME NEW E, E # {}, NEW symbols
  PROVE  Primary(E, symbols) \subseteq E /\ Primary(E, symbols) # {}
<1> DEFINE OfRole(role) == {r \in E : role \in r.flags}
           OfKind(kinds) == {r \in E : symbols[r.symbol].kind \in kinds}
           written == {r \in E : symbols[r.symbol].name \in Spelling(r)}
           constructors == OfKind({"Constructor"})
           definitions == OfRole("Definition")
           declarations == OfRole("Declaration")
           classes == OfKind({"Class", "Struct"})
           fields == OfKind({"Field"})
           n == Cardinality(E)
           rest == IF n = 2 /\ Cardinality(constructors) = 1 /\ Cardinality(classes) = 1
                     THEN constructors
                   ELSE IF n = 2 /\ Cardinality(constructors) = 1 /\ Cardinality(fields) = 1
                     THEN E \ constructors
                   ELSE IF Cardinality(written) = 1 THEN written ELSE E
<1>1. \A S : Cardinality(S) = 1 => S # {}
  BY FS_EmptySet
<1>2. Primary(E, symbols)
        = CASE n <= 1 -> E
            [] n > 1 /\ Cardinality(definitions) = 1 -> definitions
            [] n > 1 /\ definitions = {} /\ Cardinality(declarations) = 1 -> declarations
            [] OTHER -> rest
  BY DEF Primary
<1>3. definitions \subseteq E /\ declarations \subseteq E /\ constructors \subseteq E /\ written \subseteq E
  OBVIOUS
<1> HIDE DEF definitions, declarations, constructors, classes, fields, written
<1>4. n = 2 /\ Cardinality(constructors) = 1 => E \ constructors # {}
  <2> SUFFICES ASSUME n = 2, Cardinality(constructors) = 1, E \ constructors = {}
               PROVE  FALSE
    OBVIOUS
  <2>1. constructors = E
    BY <1>3
  <2>2. QED
    BY <2>1
<1>5. rest \subseteq E /\ rest # {}
  <2>1. CASE rest = constructors /\ Cardinality(constructors) = 1
    BY <1>1, <1>3, <2>1
  <2>2. CASE rest = E \ constructors /\ n = 2 /\ Cardinality(constructors) = 1
    BY <1>4, <2>2
  <2>3. CASE rest = written /\ Cardinality(written) = 1
    BY <1>1, <1>3, <2>3
  <2>4. CASE rest = E
    BY <2>4
  <2>5. QED
    BY <2>1, <2>2, <2>3, <2>4
<1> HIDE DEF rest, n
<1>6. \/ Primary(E, symbols) = E \/ Primary(E, symbols) = rest
      \/ Primary(E, symbols) = definitions /\ Cardinality(definitions) = 1
      \/ Primary(E, symbols) = declarations /\ Cardinality(declarations) = 1
  BY <1>2
<1>7. QED
  BY <1>1, <1>3, <1>5, <1>6

\* A location where every reference was explicit keeps one that is.
THEOREM LocationsAlwaysKeepAPrimary == Spec => LocationsKeepAPrimary
<1>1. ASSUME IndInv, [Next]_vars, Finishes
      PROVE  \A r \in index.rows["reference"] :
               (\A q \in index.rows["reference"] : SameLocation(q, r) => Explicit(q)) =>
                 \E k \in index'.rows["reference"] : SameLocation(k, r) /\ Explicit(k)
  <2> DEFINE symbols == WithHeaderGuards(index.symbols)
  <2>1. Finish /\ ShapeInv
    BY <1>1, OnlyFinish DEF IndInv
  <2>2. PICK refs \in SortAndRemoveDuplicates(index.rows["reference"]) :
               index'.rows["reference"] = {Marked(refs, symbols, r) : r \in refs}
    BY <2>1, FinishFacts
  <2> HIDE DEF symbols
  <2>3. /\ refs \subseteq index.rows["reference"]
        /\ \A r \in index.rows["reference"] : \E k \in refs : SameReference(r, k)
    BY <2>2, KeptReferences
  <2>4. SUFFICES ASSUME NEW r \in index.rows["reference"],
                        \A q \in index.rows["reference"] : SameLocation(q, r) => Explicit(q)
                 PROVE  \E k \in index'.rows["reference"] : SameLocation(k, r) /\ Explicit(k)
    OBVIOUS
  <2> DEFINE At(x) == {q \in refs : SameLocation(q, x) /\ Explicit(q)}
  <2>5. PICK e \in refs : SameReference(r, e)
    BY <2>3
  <2>6. e \in At(r)
    BY <2>3, <2>4, <2>5 DEF SameReference, SameLocation
  <2>7. PICK p \in Primary(At(r), symbols) : p \in At(r)
    BY <2>6, PrimaryFacts
  <2>8. At(p) = At(r)
    BY <2>7 DEF SameLocation
  <2>9. Marked(refs, symbols, p) = p
    BY <2>7, <2>8 DEF Marked
  <2>10. p \in index'.rows["reference"]
    BY <2>2, <2>7, <2>9
  <2>11. QED
    BY <2>7, <2>10
<1>2. IndInv /\ [Next]_vars =>
        (Finishes =>
           \A r \in index.rows["reference"] :
             (\A q \in index.rows["reference"] : SameLocation(q, r) => Explicit(q)) =>
               \E k \in index'.rows["reference"] : SameLocation(k, r) /\ Explicit(k))
  BY <1>1
<1>3. QED
  BY <1>2, IndexerInvariant, PTL DEF Spec, LocationsKeepAPrimary

=============================================================================
