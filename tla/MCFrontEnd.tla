----------------------------- MODULE MCFrontEnd -----------------------------
(***************************************************************************)
(* Small programs for the front end.  Each holds java.lang.Object and      *)
(* java.lang.String, and one unit that varies, among others that it names. *)
(***************************************************************************)
EXTENDS FrontEnd, TLC

MCIds ==
  {"java", "lang", "Object", "String", "p", "q", "A", "B", "I", "T", "a", "b", "t", "i", "n",
   "y", "o", "z", "r", "f", "v", "s", "w", "x", "k", "m", "g", "c", "length"}
MCNames == {"a", "b", "t", "i", "n", "y", "o", "z", "r", "x"}
MCRequired == {ObjectClass, StringClass}

-----------------------------------------------------------------------------
(* Declarations. *)

Star(name)   == [name |-> name, star |-> TRUE]
Single(name) == [name |-> name, star |-> FALSE]
JavaLang     == Star(<<"java", "lang">>)

Unit(package, imports, class, uses, members) ==
  [package |-> package, imports |-> Append(imports, JavaLang), class |-> class, uses |-> uses,
   kind |-> "class", mods |-> {}, extends |-> 0, interfaces |-> << >>, members |-> members]

Use(n)    == [kind |-> "ref", use |-> n]
Byte      == [kind |-> "byte"]
Par(name, type) == [name |-> name, type |-> type]
Field(name, mods, type, init) ==
  [kind |-> "field", name |-> name, mods |-> mods, type |-> type, params |-> << >>,
   init |-> init, body |-> << >>]
Method(name, mods, type, params, body) ==
  [kind |-> "method", name |-> name, mods |-> mods, type |-> type, params |-> params,
   init |-> NoTree, body |-> body]
Ctor(params, body) ==
  [kind |-> "ctor", name |-> "", mods |-> {"public"}, type |-> VoidType, params |-> params,
   init |-> NoTree, body |-> body]
Default == Ctor(<< >>, << >>)

Object_ == Unit(<<"java", "lang">>, << >>, "Object", << >>, <<Default>>)
String_ == Unit(<<"java", "lang">>, << >>, "String", << >>, <<Default>>)

-----------------------------------------------------------------------------
(* Statements and expressions. *)

Do(e)     == [s |-> "expr", expr |-> e]
Return(e) == [s |-> "return", expr |-> e]
Local(name, type, init) == [s |-> "local", name |-> name, type |-> type, init |-> init]
Block(body)  == [s |-> "block", body |-> body]
If(c, then, else) == [s |-> "if", cond |-> c, then |-> then, else |-> else]
While(c, body)    == [s |-> "while", cond |-> c, body |-> body]
For(init, c, update, body) ==
  [s |-> "for", init |-> init, cond |-> c, update |-> update, body |-> body]

Lit(type)  == [op |-> "literal", type |-> type]
This       == [op |-> "this"]
N(id)      == [op |-> "name", id |-> id]
Get(of, id) == [op |-> "field", of |-> of, id |-> id]
Call(on, id, args) == [op |-> "call", on |-> on, id |-> id, args |-> args]
NewRef(name)  == [kind |-> "ref", name |-> name]
New(name, args) == [op |-> "new", type |-> NewRef(name), args |-> args]
NewArray(type, size) == [op |-> "newArray", type |-> ArrayOf(type), size |-> size]
Index(array, index) == [op |-> "index", array |-> array, index |-> index]
Cast(type, e) == [op |-> "cast", type |-> type, value |-> e]
Set(l, r)  == [op |-> "assign", lhs |-> l, rhs |-> r]
Bin(kind, l, r) == [op |-> "bin", kind |-> kind, lhs |-> l, rhs |-> r]
InstanceOf(l, type) == [op |-> "instanceof", lhs |-> l, type |-> type]
Un(kind, r) == [op |-> "un", kind |-> kind, rhs |-> r]

One  == Lit(IntType)
Yes  == Lit(BooleanType)
Null == Lit(NullType)
Text == Lit(StringType)

-----------------------------------------------------------------------------
(* Linking: files of two packages, some with a type's name, that import and  *)
(* name one another's types in a method's parameter.                         *)

ImportLists ==
  {<< >>, <<Star(<<"p">>)>>, <<Single(<<"p", "A">>)>>, <<Star(<<"p">>), Star(<<"q">>)>>,
   <<Star(<<"q">>), Single(<<"q", "A">>)>>, <<Single(<<"q", "A">>), Star(<<"p">>)>>}
Naming(package, imports, class, name) ==
  Unit(package, imports, class, <<name>>,
       <<Ctor(<<Par("x", Use(1))>>, << >>)>>)
Others(homes, classes) ==
  {Unit(package, << >>, class, << >>, <<Default>>) : package \in homes, class \in classes}
Linking ==
  UNION {{<<Naming(package, imports, class, name), one, other, Object_, String_>>,
          <<other, one, Naming(package, imports, class, name), Object_, String_>>} :
     package \in {<< >>, <<"p">>}, imports \in ImportLists, class \in {"A", "B"},
     name \in {<<"A">>, <<"p", "A">>},
     one \in Others({<<"p">>}, {"A", "p"}), other \in Others({<<"q">>, <<"p", "A">>}, {"A"})}

-----------------------------------------------------------------------------
(* The classes that the other programs use:
     package p; class A { protected int f; public int v; public static int s;
                          protected static int w; protected int k(int n);
                          public static int c(); }
     package p; interface I { boolean g(int n); }
     package p; class B extends A implements I { B(int n); A r; int m(A a); }   *)

ClassA ==
  Unit(<<"p">>, << >>, "A", << >>,
    <<Default, Field("f", {}, IntType, NoTree), Field("v", {"public"}, IntType, NoTree),
      Field("s", {"public", "static"}, IntType, NoTree),
      Field("w", {"static"}, IntType, NoTree),
      Method("k", {}, IntType, <<Par("n", IntType)>>, <<Return(N("n"))>>),
      Method("c", {"public", "static"}, IntType, << >>, <<Return(N("s"))>>)>>)
InterfaceI ==
  [Unit(<<"p">>, << >>, "I", << >>,
     <<Method("g", {"public", "abstract"}, BooleanType, <<Par("n", IntType)>>, << >>)>>)
   EXCEPT !.kind = "interface"]
ClassB ==
  [Unit(<<"p">>, << >>, "B", << <<"A">>, <<"I">> >>,
     <<Ctor(<<Par("n", IntType)>>, << >>),
       Field("r", {"public"}, Use(1), NoTree),
       Method("m", {"public"}, IntType, <<Par("a", Use(1))>>, <<Return(Get(N("a"), "f"))>>),
       Method("g", {"public"}, BooleanType, <<Par("n", IntType)>>, <<Return(Yes)>>)>>)
   EXCEPT !.extends = 1, !.interfaces = <<2>>]
Library == <<Object_, String_, ClassA, InterfaceI, ClassB>>

\* The unit that varies: its type names are its own, A, B, I and String.
T(package, extends, members) ==
  [Unit(package, IF package = <<"p">> THEN << >> ELSE <<Star(<<"p">>)>>, "T",
        << <<"T">>, <<"A">>, <<"B">>, <<"I">>, <<"String">>, <<"Object">> >>, members)
   EXCEPT !.extends = extends]
Parameters ==
  <<Par("t", Use(1)), Par("a", Use(2)), Par("b", Use(3)), Par("i", Use(4)), Par("z", Use(5)),
    Par("n", IntType), Par("y", Byte), Par("o", BooleanType), Par("x", ArrayOf(Use(2)))>>
\* T's superclass.
None == 0
OfA  == 2
OfB  == 3
With(unit_) == <<unit_>> \o Library
Test(mods, type, params, body) == Method("x", mods, type, params, body)

-----------------------------------------------------------------------------
(* Operators: one with each pair of operands. *)

Numbers   == {N("n"), N("y"), N("o"), N("z"), Null}
Operands_ == {N(id) : id \in {"a", "b", "i", "z", "n", "x"}} \cup {Null, Text}
CastTypes == {NewRef(<<"A">>), NewRef(<<"I">>), NewRef(<<"T">>), ArrayOf(NewRef(<<"B">>))}
Operations ==
  {Bin(kind, l, r) : kind \in {"add", "compare", "logic"}, l \in Numbers, r \in Numbers}
  \cup {Bin("equal", l, r) : l \in Operands_, r \in Operands_}
  \cup {Set(N(id), r) : id \in {"a", "i", "z", "n", "y", "x"}, r \in Operands_ \cup {N("y"), One}}
  \cup {Cast(type, e) : type \in CastTypes, e \in Operands_}
  \cup {Cast(Byte, e) : e \in Operands_ \ {Null}}
  \cup {InstanceOf(e, type) : e \in Operands_, type \in CastTypes}
  \cup {Un(kind, e) : kind \in {"minus", "not"}, e \in Numbers}
  \cup {Index(N("x"), e) : e \in Numbers} \cup {NewArray(Byte, e) : e \in Numbers}
Operators ==
  {With(T(<<"p">>, None, <<Default, Test({"public", "static"}, VoidType, Parameters, <<Do(e)>>)>>))
     : e \in Operations}

-----------------------------------------------------------------------------
(* Names: in methods and in initializers, static or not, of a class of this  *)
(* package or another, that is a subclass or not.                            *)

Fields_ == {"f", "v", "s", "w", "i", "o"}
InitExpressions ==
  {N(id) : id \in Fields_ \cup {"A"}} \cup {Get(This, id) : id \in {"f", "v", "i"}}
  \cup {Get(N("A"), id) : id \in {"f", "w"}} \cup {Get(N("T"), id) : id \in {"i", "s"}}
  \cup {Set(e, One) : e \in {N("i"), N("v"), Get(This, "i")}}
  \cup {This, Bin("add", N("i"), N("o")), Bin("add", Set(N("i"), One), N("i")),
        Get(Get(N("p"), "A"), "s")}
NameExpressions ==
  InitExpressions \cup {N("p"), N("t")}
  \cup {Get(N(q), id) : q \in {"a", "t"}, id \in Fields_}
  \cup {Get(Get(N("p"), "A"), "w"), Get(N("A"), "s"), Get(N("T"), "o")}
  \cup {Get(Get(N("b"), "r"), id) : id \in {"v", "f"}}
  \cup {Set(e, One) : e \in {N("a"), Get(N("x"), "length")}}
  \cup {Get(N("x"), "length"), Get(N("z"), "length")}

\* The fields i and o come before and after a field with the initializer e; a
\* method between them has a parameter of the name of one of them.
Before(e, mods) ==
  <<Default, Field("i", {"public"}, IntType, NoTree),
    Test({"public"}, VoidType, <<Par("o", BooleanType)>>, <<Do(N("o"))>>),
    Field("o", {"public", "static"}, IntType, NoTree), Field("y", mods, IntType, e)>>
After(e, mods) ==
  <<Default, Field("y", mods, IntType, e), Field("i", {"public"}, IntType, NoTree)>>
InMethod_(e, mods) ==
  <<Default, Field("i", {"public"}, IntType, NoTree),
    Field("o", {"public", "static"}, IntType, NoTree),
    Test(mods, VoidType, Parameters, <<Do(e)>>)>>
MethodsWith(e) == {InMethod_(e, {"public"}), InMethod_(e, {"public", "static"})}
InitsWith(e) ==
  {Before(e, mods) : mods \in {{"public"}, {"public", "static"}}} \cup {After(e, {"public"})}
Naming_(place, members) == With(T(place[1], place[2], members))
NamesPrograms ==
  {Naming_(place, members) :
     place \in {<<<<"p">>, None>>, <<<<"q">>, OfA>>},
     members \in UNION ({MethodsWith(e) : e \in NameExpressions}
                        \cup {InitsWith(e) : e \in InitExpressions})}
  \cup {Naming_(<<<<"q">>, None>>, InMethod_(e, {"public"})) : e \in NameExpressions}

\* Fields declared again: v and s by B, with another type, and perhaps by T,
\* which is a subclass of A or of B.
Again(type) ==
  <<Field("v", {"public"}, type, NoTree), Field("s", {"public", "static"}, type, NoTree)>>
HidingB == [ClassB EXCEPT !.members = @ \o Again(BooleanType)]
HidingExpressions ==
  {N(id) : id \in {"v", "s"}} \cup {Get(N(class), "s") : class \in {"A", "B", "T"}}
  \cup {Get(e, "v") : e \in {This, N("a"), N("b"), N("t"), Get(N("b"), "r")}}
  \cup {Set(Get(N("b"), "v"), Yes), Set(N("v"), One), Bin("add", Get(N("a"), "v"), Get(N("t"), "v"))}
HidingPrograms ==
  {<<T(package, extends,
       <<Ctor(<< >>, <<Do(One)>>)>> \o own \o <<Test({"public"}, VoidType, Parameters, <<Do(e)>>)>>)>>
   \o <<Object_, String_, ClassA, InterfaceI, HidingB>> :
     package \in {<<"p">>, <<"q">>}, extends \in {OfA, OfB},
     own \in {<< >>, Again(Byte)}, e \in HidingExpressions}

-----------------------------------------------------------------------------
(* Calls: T declares some of the overloads of m, and perhaps inherits k and c *)
(* from A, and m(A) from B.                                                  *)

Overload(type) == Method("m", {"public"}, IntType, <<Par("n", type)>>, <<Return(One)>>)
Overloads ==
  {<<Overload(Use(2)), Overload(Use(3))>>, <<Overload(Use(2)), Overload(Use(4))>>,
   <<Overload(IntType), Overload(Byte)>>, <<Overload(Use(3)), Overload(Use(6))>>}
OverloadedCalls ==
  {Call(This, "m", <<e>>) : e \in {N("a"), N("b"), N("i"), N("n"), N("y"), Null, New(<<"A">>, << >>)}}
CallExpressions ==
  {Call(N("b"), "m", <<e>>) : e \in {N("a"), N("b")}}
  \cup {Call(on, "k", <<N("n")>>) : on \in {NoTree, This, N("a"), N("t"), N("b"), N("T")}}
  \cup {Call(on, "c", << >>) : on \in {NoTree, N("A"), N("a"), N("T"), Get(N("p"), "A")}}
  \cup {Call(N("i"), "g", <<e>>) : e \in {N("n"), N("y")}}
  \cup {New(<<"B">>, <<e>>) : e \in {One, N("y"), N("a")}}
  \cup {New(<<"I">>, << >>), New(<<"T">>, <<N("b")>>), New(<<"T">>, << >>), New(<<"q", "T">>, << >>)}
Caller(package, extends, mods, e, overloads) ==
  With(T(package, extends,
         <<Ctor(<< >>, <<Do(One)>>), Ctor(<<Par("b", Use(3))>>, <<Do(One)>>),
           Test(mods, VoidType, Parameters, <<Do(e)>>)>> \o overloads))
OverloadPrograms ==
  {Caller(<<"p">>, extends, {"public"}, e, overloads) :
     extends \in {None, OfB}, e \in OverloadedCalls, overloads \in Overloads}
CallPrograms ==
  OverloadPrograms \cup
  {Caller(place[1], place[2], mods, e, << >>) :
     place \in {<<<<"p">>, None>>, <<<<"q">>, None>>, <<<<"q">>, OfA>>, <<<<"q">>, OfB>>},
     mods \in {{"public"}, {"public", "static"}}, e \in CallExpressions}

-----------------------------------------------------------------------------
(* Statements: declarations of n in and around blocks, beside a field n.     *)

DeclareN == Local("n", IntType, One)
UseN     == Do(Set(N("n"), One))
First ==
  {DeclareN, UseN, Block(<<DeclareN>>), Block(<< >>),
   If(Yes, Block(<<DeclareN, UseN>>), <<UseN>>), If(N("n"), UseN, <<Block(<<DeclareN>>)>>),
   If(Yes, Return(N("n")), << >>),
   While(Yes, Block(<<DeclareN, Block(<<UseN>>)>>)), While(N("o"), UseN),
   For(<<DeclareN>>, Bin("compare", N("n"), One), <<UseN>>, UseN),
   For(<< >>, NoTree, <<UseN>>, Block(<<DeclareN>>)),
   For(<<Local("y", Byte, N("n"))>>, Yes, << >>, Block(<<DeclareN, Local("z", Use(3), Text)>>))}
Last_ ==
  {DeclareN, UseN, Return(N("n")), Return(NoTree), Return(Text), Local("n", IntType, N("n")),
   Local("t", Use(1), This), Local("a", Use(2), New(<<"T">>, << >>)), Local("y", Byte, N("n"))}
Statements(fields, result, body) ==
  <<Unit(<< >>, << >>, "T", << <<"T">>, <<"Object">>, <<"String">> >>,
         <<Default>> \o fields \o <<Test({"public"}, result, <<Par("o", BooleanType)>>, body)>>),
    Object_, String_>>
StatementPrograms ==
  UNION {{Statements(fields, VoidType, <<one, other>>) : one \in First, other \in Last_ \cup {Block(<<DeclareN>>)}}
         \cup {Statements(fields, IntType, <<one, Return(e)>>) : one \in First, e \in {N("n"), NoTree, Text}}
         : fields \in {<< >>, <<Field("n", {"public"}, IntType, NoTree)>>}}

MCPrograms ==
  Linking \cup Operators \cup NamesPrograms \cup HidingPrograms \cup CallPrograms
  \cup StatementPrograms
=============================================================================
