----------------------------- MODULE MCIndexer ------------------------------
(***************************************************************************)
(* Indexer on two units.  In unit "a", file 2 is a header that the main    *)
(* file 1 includes twice, as "h" and "h2", and 3 a system header.  Unit    *)
(* "b" uses the addresses and the clang::FileIDs of "a" for other things.  *)
(***************************************************************************)
EXTENDS Indexer

At(cf, column) == [cf |-> cf, line |-> 1, column |-> column]
Range3(begin, end, definition) == [begin |-> begin, end |-> end, definition |-> definition]

D(usr, scope, class, kind, name, props, redecls) ==
  [usr |-> usr, scope |-> scope, class |-> class, kind |-> kind, name |-> name,
   props |-> props, redecls |-> redecls]

O(decl, loc, roles, function, relations) ==
  [decl |-> decl, loc |-> loc, roles |-> roles, function |-> function,
   relations |-> relations, unwritten |-> FALSE]

RangesOfF == {Range3(At("h", 3), At("h", 4), FALSE), Range3(At("h", 5), At("m", 6), TRUE)}

DeclsOfA == [d \in 1 .. 9 |->
  CASE d = 1 -> D(11, NoDecl, "Namespace", "Namespace", <<>>, {}, {})
    [] d = 2 -> D(NoSymbol, 1, "LinkageSpec", "Unknown", <<>>, {}, {})
    [] d = 3 -> D(12, 2, "CXXRecord", "Class", <<"C">>, {"Final"},
                  {Range3(At("h", 1), At("h", 4), TRUE)})
    [] d = 4 -> D(13, 3, "CXXConstructor", "Constructor", <<"C">>, {"Private", "implicit"},
                  {Range3(At("h", 1), At("h", 1), FALSE)})
    \* a function, and its definition
    [] d = 5 -> D(14, 1, "Function", "Function", <<"f">>, {}, RangesOfF)
    [] d = 6 -> D(14, 1, "Function", "Function", <<"f">>, {"Inline"}, RangesOfF)
    \* without usr
    [] d = 7 -> D(NoSymbol, 6, "Var", "Variable", <<"v">>, {"Const"}, {Range3(At("m", 7), At("m", 7), TRUE)})
    \* a field that is initialized where the constructor of its class is
    [] d = 8 -> D(15, 3, "Field", "Field", <<"a">>, {"Const"}, {Range3(At("h", 3), At("h", 3), TRUE)})
    \* a base class outside of the project
    [] d = 9 -> D(16, 7, "CXXRecord", "Struct", <<"B">>, {}, {Range3(At("s", 1), At("s", 2), TRUE)})]

UnitA == [
  main |-> "m",
  file |-> [cf \in {"m", "h", "h2", "s", "x"} |->
              CASE cf = "m" -> 1 [] cf \in {"h", "h2"} -> 2 [] cf = "s" -> 3 [] cf = "x" -> NoFile],
  decl |-> DeclsOfA,
  macro |-> [k \in {1, 2} |->
    CASE k = 1 -> [usr |-> 17, name |-> <<"GUARD">>, props |-> {"guard"}, current |-> TRUE]
      [] k = 2 -> [usr |-> NoSymbol, name |-> <<"M">>, props |-> {}, current |-> TRUE]],
  module |-> [k \in {1} |-> [usr |-> 18, name |-> <<"mod">>]],
  decls |-> {
    O(3, At("h", 1), {"Definition"}, NoDecl, <<>>),
    O(9, At("h", 2), {"Reference"}, NoDecl, <<[role |-> "ChildOf", decl |-> 1], [role |-> "BaseOf", decl |-> 3]>>),
    O(4, At("m", 5), {"Call"}, 6, <<[role |-> "OverrideOf", decl |-> 7]>>),
    O(3, At("m", 5), {"Reference"}, NoDecl, <<>>),
    O(8, At("m", 5), {"Write"}, NoDecl, <<>>),
    O(5, At("h", 3), {"Declaration"}, NoDecl, <<>>),
    O(5, At("h2", 3), {"Reference"}, 5, <<[role |-> "OverrideOf", decl |-> 8]>>),
    O(4, At("h2", 3), {"Declaration"}, NoDecl, <<>>),
    O(7, At("m", 4), {"Read"}, 7, <<>>),
    O(6, At("x", 1), {"Call"}, NoDecl, <<>>)},
  macros |-> {
    [macro |-> 1, loc |-> At("h", 0), roles |-> {"Definition"}],
    [macro |-> 2, loc |-> At("m", 1), roles |-> {"Reference"}]},
  modules |-> {[module |-> 1, loc |-> At("m", 2)]},
  diagnostics |-> {[loc |-> At("s", 1), message |-> "unused"], [loc |-> At("x", 1), message |-> "unused"]},
  inclusions |-> {[cf |-> "m", line |-> 1, to |-> 2], [cf |-> "h", line |-> 1, to |-> 3],
                  [cf |-> "m", line |-> 2, to |-> NoFile]},
  calls |-> {[cf |-> "m", callee |-> "direct", arguments |-> {[line |-> 1, column |-> 6, type |-> "T&"], [line |-> 1, column |-> 7, type |-> "T"]}],
             [cf |-> "s", callee |-> "operator", arguments |-> {[line |-> 1, column |-> 1, type |-> "T&"]}]},
  token |-> {[file |-> 1, at |-> At("m", 5), name |-> <<"a">>]}]

DeclsOfB == [d \in 1 .. 3 |->
  CASE d = 1 -> D(21, NoDecl, "CXXRecord", "Struct", <<>>, {}, {Range3(At("m", 1), At("m", 2), TRUE)})
    [] d = 2 -> D(22, 1, "Field", "Field", <<"a">>, {}, {Range3(At("m", 2), At("m", 2), FALSE)})
    [] d = 3 -> D(23, 2, "CXXRecord", "Class", <<>>, {"lambda"}, {Range3(At("s", 2), At("s", 2), TRUE)})]

UnitB == [
  main |-> "m",
  file |-> [cf \in {"m", "h", "s"} |-> CASE cf = "m" -> 4 [] cf = "h" -> 3 [] cf = "s" -> 2],
  decl |-> DeclsOfB,
  macro |-> [k \in {1} |-> [usr |-> 24, name |-> <<"N">>, props |-> {"FunctionLike"}, current |-> TRUE]],
  module |-> [k \in {1} |-> [usr |-> 25, name |-> <<"other">>]],
  decls |-> {
    O(1, At("m", 1), {"Definition"}, NoDecl, <<>>),
    O(2, At("m", 1), {"Declaration"}, NoDecl, <<>>),
    \* beyond MaxColumn
    O(2, At("m", 9), {"Write"}, NoDecl, <<>>),
    O(2, [At("m", 0) EXCEPT !.line = 2], {"Read"}, NoDecl, <<>>),
    O(3, At("m", 8), {"Reference"}, NoDecl, <<>>),
    O(3, At("s", 2), {"Definition"}, NoDecl, <<>>)},
  macros |-> {[macro |-> 1, loc |-> At("h", 1), roles |-> {"Definition"}]},
  modules |-> {[module |-> 1, loc |-> At("m", 2)]},
  diagnostics |-> {[loc |-> At("s", 1), message |-> "shadow"]},
  inclusions |-> {[cf |-> "m", line |-> 1, to |-> 3]},
  calls |-> {},
  token |-> {}]

MCUnit == [u \in {"a", "b"} |-> IF u = "a" THEN UnitA ELSE UnitB]
=============================================================================
