--------------------------- MODULE MCCompilation ---------------------------
(***************************************************************************)
(* Programs for the back end, on words of 16 bits.                         *)
(***************************************************************************)
EXTENDS Compilation

Java_ == INSTANCE JavaMeaning

MCWordSize == 65536
MCMaxArguments == 4
MCCell(address) == address
MCMeaning(p) == Java_!Meaning(p)

Class(name, fields, statics, methods, vector) ==
  [name |-> name, fields |-> fields, statics |-> statics, methods |-> methods, vector |-> vector]
Program(classes, methods, body) ==
  [classes |-> classes, entry |-> "A.test",
   methods |-> ("A.test" :> Method("static", << >>, Block(body), 0)) @@ methods]

Static(params, body)      == Method("static", params, Block(body), 0)
Instance(params, body, k) == Method("instance", params, Block(body), k)
Constructor(params, body) == Method("constructor", params, Block(body), 0)

Arrays == Class("java.util.Arrays", << >>, << >>, << >>, << >>)
Output == Class("java.io.OutputStream", << >>, << >>, <<"java.io.OutputStream.nativeWrite">>, << >>)

\* java.io.OutputStream.nativeWrite(e);
Write_(e) == Invoke("java.io.OutputStream.nativeWrite", <<e>>)
Say(n)    == ExprStmt(Write_(Literal(n)))

\* int A.tell(int x) { nativeWrite(x); return x; }
Tell(e)    == Invoke("A.tell", <<e>>)
TellMethod == Static(<<"x">>, <<ExprStmt(Write_(Param("x"))), ReturnStmt(Param("x"))>>)
Told(n)    == Tell(Literal(n))
Natives    == ("java.io.OutputStream.nativeWrite" :> NativeWrite)

\* A class A with tell and more methods.
Talking(methods, statics, body) ==
  Program(<<Arrays, Output, Class("A", << >>, statics, <<"A.test", "A.tell">> \o SetToSeq(DOMAIN methods), << >>)>>,
          ("A.tell" :> TellMethod) @@ Natives @@ methods, body)

Plus(l, r)  == Binary(l, "+", r)
Minus(l, r) == Binary(l, "-", r)
Times(l, r) == Binary(l, "*", r)
Less(l, r)  == Binary(l, "<", r)
Is(l, r)    == Binary(l, "==", r)
And_(l, r)  == Binary(l, "&&", r)
Or_(l, r)   == Binary(l, "||", r)
Set(l, r)   == ExprStmt(Assign(l, r))
X == Local("x")
Y == Local("y")
A == Local("a")
I == Local("i")
-----------------------------------------------------------------------------
(***************************************************************************)
(* Operators, on operands at the edges of the words.                       *)
(***************************************************************************)
Pairs == <<<<7, -2>>, <<-7, 2>>, <<-7, -2>>, <<32767, 1>>, <<0, 5>>, <<-32768, 2>>, <<3, 3>>>>

Arith(op) ==
  Talking("A.f" :> Static(<<"p", "q">>, <<ReturnStmt(Binary(Param("p"), op, Param("q")))>>), << >>,
          [k \in DOMAIN Pairs |->
             ExprStmt(Tell(Invoke("A.f", <<Literal(Pairs[k][1]), Literal(Pairs[k][2])>>)))]
          \o <<ReturnStmt(Invoke("A.f", <<Literal(300), Literal(200)>>))>>)

Compare(op) ==
  Talking("A.f" :> Static(<<"p", "q">>,
                          <<If(Binary(Param("p"), op, Param("q")), ReturnStmt(Literal(1)), NoNode),
                            ReturnStmt(Unary("-", Literal(1)))>>), << >>,
          [k \in DOMAIN Pairs |->
             ExprStmt(Tell(Invoke("A.f", <<Literal(Pairs[k][1]), Literal(Pairs[k][2])>>)))]
          \o <<ReturnStmt(Literal(0))>>)

Operators == {Arith(op) : op \in {"+", "-", "*", "/", "%"}}
             \cup {Compare(op) : op \in {"==", "!=", "<", ">", "<=", ">="}}

\* The value a comparison leaves; & and | evaluate both operands, && and || do not.
Booleans ==
  Talking(<< >>, << >>,
    <<If(And_(Is(Told(1), Literal(2)), Is(Told(2), Literal(2))), Say(20), Say(21)),
      If(And_(Is(Told(3), Literal(3)), Is(Told(4), Literal(4))), Say(22), Say(23)),
      If(Or_(Is(Told(5), Literal(5)), Is(Told(6), Literal(6))), Say(24), Say(25)),
      If(Or_(Is(Told(7), Literal(8)), Unary("!", Is(Told(8), Literal(8)))), Say(26), Say(27)),
      If(Binary(Is(Told(9), Literal(2)), "&", Is(Told(10), Literal(10))), Say(28), Say(29)),
      If(Binary(Is(Told(11), Literal(11)), "|", Is(Told(12), Literal(1))), Say(30), Say(31)),
      Decl("x", And_(Or_(Is(Told(13), Literal(1)), Is(Told(14), Literal(14))),
                     Unary("!", And_(Is(Told(15), Literal(15)), Is(Told(16), Literal(1)))))),
      If(X, ReturnStmt(Literal(1)), ReturnStmt(Literal(2)))>>)

\* The right operand changes what the left one was read from.
Sides ==
  Talking("A.bump" :> Static(<<"n">>, <<Set(StaticField("A.s"), Plus(StaticField("A.s"), Param("n"))),
                                        ReturnStmt(StaticField("A.s"))>>),
          <<<<"A.s", Literal(10)>>>>,
    <<Decl("x", Literal(1)), Decl("y", Literal(0)),
      Set(Y, Plus(Plus(X, Assign(X, Literal(5))), X)),
      Set(Y, Plus(Y, Minus(StaticField("A.s"),
                           Times(Invoke("A.bump", <<Literal(3)>>), Invoke("A.bump", <<StaticField("A.s")>>))))),
      Set(X, Assign(Y, Minus(Y, Literal(1)))),
      ReturnStmt(Binary(Plus(X, Y), "%", Literal(97)))>>)
-----------------------------------------------------------------------------
(***************************************************************************)
(* Calls, loops, recursion.                                                *)
(***************************************************************************)
Arguments ==
  Talking("A.f" :> Static(<<"p", "q", "r">>,
                          <<ReturnStmt(Minus(Times(Param("p"), Literal(100)),
                                             Minus(Times(Param("q"), Literal(10)), Param("r"))))>>),
          << >>,
    <<ReturnStmt(Invoke("A.f", <<Told(4), Invoke("A.f", <<Told(1), Told(2), Told(3)>>), Plus(Told(5), Told(6))>>))>>)

Factorial ==
  Talking("A.fact" :> Static(<<"n">>,
                             <<If(Less(Param("n"), Literal(2)), ReturnStmt(Literal(1)),
                                  ReturnStmt(Times(Invoke("A.fact", <<Minus(Param("n"), Literal(1))>>), Param("n"))))>>),
          << >>, <<ReturnStmt(Invoke("A.fact", <<Literal(5)>>))>>)

\* A void method that returns early or not at all, in a loop.
Loops ==
  Talking("A.odd" :> Static(<<"n">>,
                            <<If(Is(Binary(Param("n"), "%", Literal(2)), Literal(0)), ReturnStmt(NoNode), NoNode),
                              ExprStmt(Tell(Param("n"))), Set(Param("n"), Literal(0))>>),
          << >>,
    <<Decl("x", Literal(0)),
      For(Decl("i", Literal(0)), Less(I, Literal(4)), Set(I, Plus(I, Literal(1))),
          Block(<<ExprStmt(Invoke("A.odd", <<I>>)), Set(X, Plus(X, I))>>)),
      While(Less(Literal(3), X), Block(<<Set(X, Minus(X, Literal(2))), ExprStmt(Tell(X))>>)),
      While(Less(X, Literal(0)), Say(99)),
      NullStmt, ReturnStmt(X)>>)
-----------------------------------------------------------------------------
(***************************************************************************)
(* Arrays.                                                                 *)
(***************************************************************************)
Squares ==
  Talking(<< >>, << >>,
    <<Decl("a", NewArray(Literal(3))), Decl("x", Element(A, Literal(2))),
      For(Decl("i", Literal(0)), Less(I, LengthOf(A)), Set(I, Plus(I, Literal(1))),
          Set(Element(A, I), Times(Plus(I, Literal(3)), I))),
      ReturnStmt(Plus(X, Plus(Element(A, Literal(1)), Element(A, Literal(2)))))>>)

\* Two names of one array; an element as an index; an assignment as a value.
Elements ==
  Talking(<< >>, << >>,
    <<Decl("a", NewArray(Literal(2))), Decl("b", A),
      Set(Element(Local("b"), Literal(1)), Literal(1)),
      ExprStmt(Tell(Assign(Element(A, Element(A, Literal(1))), Plus(Element(A, Literal(1)), Literal(7))))),
      ReturnStmt(Element(Local("b"), Minus(LengthOf(A), Literal(1))))>>)

Access(array, index) ==
  Talking(<< >>, << >>,
    <<Decl("a", array), Decl("x", Literal(1)), Say(1),
      ExprStmt(Assign(X, Element(A, index))), Say(2), ReturnStmt(X)>>)

Exceptions ==
  {Access(NewArray(Literal(2)), Literal(2)), Access(NewArray(Literal(2)), Literal(-1)),
   Access(NewArray(Literal(2)), Literal(1)), Access(NewArray(Literal(0)), Literal(0)),
   Access(Literal(0), Literal(0)), Access(NewArray(Literal(-1)), Literal(0)),
   Talking(<< >>, << >>, <<Say(1), ReturnStmt(Binary(Literal(1), "/", Told(0)))>>),
   Talking(<< >>, << >>, <<Say(1), ReturnStmt(Binary(Literal(1), "%", Told(0)))>>),
   Talking(<< >>, << >>, <<Decl("a", Literal(0)), ReturnStmt(LengthOf(A))>>),
   Talking(<< >>, << >>, <<Decl("a", NewArray(Literal(1))), Set(Element(A, Literal(1)), Literal(5)), Say(1)>>)}
-----------------------------------------------------------------------------
(***************************************************************************)
(* Objects: B has an x of 3, a y the constructor sets and a next.  C        *)
(* overrides B.get: the dispatch vector builder gives B.get and C.get       *)
(* different colours, and C objects are asked for C.get and for methods     *)
(* that C does not override.  The constructors have one parameter at most.  *)
(***************************************************************************)
B == Class("B", <<Literal(3), NoNode, NoNode>>, <<<<"B.count", Literal(0)>>>>,
           <<"B.B", "B.get", "B.both", "B.scaled">>, <<"B.scaled", "B.get", "B.both">>)
C == Class("C", <<Literal(3), NoNode, NoNode, Plus(Literal(2), Literal(2))>>, << >>,
           <<"C.C", "C.get">>, <<"B.scaled", "C.get", "B.get", "B.both">>)

ObjectMethods ==
  ("B.B"    :> Constructor(<<"v">>, <<Set(OwnField(1), Param("v")),
                                      Set(StaticField("B.count"), Plus(StaticField("B.count"), Literal(1)))>>)) @@
  ("B.scaled" :> Instance(<<"k">>, <<ReturnStmt(Plus(Times(OwnField(0), Param("k")), OwnField(1)))>>, 1)) @@
  ("B.get"  :> Instance(<< >>, <<ReturnStmt(Invoke("B.scaled", <<Literal(10)>>))>>, 3)) @@
  ("B.both" :> Instance(<<"k">>, <<ReturnStmt(Plus(Times(Invoke("B.get", << >>), Param("k")),
                                                   InvokeOn(This, "B.get", << >>)))>>, 4)) @@
  ("C.C"    :> Constructor(<< >>, <<Set(OwnField(1), OwnField(3)), Set(FieldOf(This, 2), This)>>)) @@
  ("C.get"  :> [Instance(<< >>, <<ReturnStmt(Minus(FieldOf(OwnField(2), 1), OwnField(0)))>>, 2)
                EXCEPT !.overrides = {"B.get"}])

WithObjects(classes, body) ==
  Program(classes \o <<Class("A", << >>, << >>, <<"A.test", "A.tell">>, << >>)>>,
          ("A.tell" :> TellMethod) @@ Natives @@ ObjectMethods, body)

Objects ==
  {WithObjects(classes,
     <<Decl("x", NewObject("B", "B.B", <<Told(7)>>)), Decl("y", NewObject("C", "C.C", << >>)),
       Set(FieldOf(X, 2), Y), Set(FieldOf(FieldOf(X, 2), 0), Literal(1)),
       ExprStmt(Tell(InvokeOn(X, "B.get", << >>))), ExprStmt(Tell(InvokeOn(Y, "C.get", << >>))),
       ExprStmt(Tell(InvokeOn(X, "B.both", <<Literal(2)>>))), Set(X, Y),
       ExprStmt(Tell(InvokeOn(FieldOf(X, 2), "B.scaled", <<Told(2)>>))),
       If(Is(X, Y), ReturnStmt(StaticField("B.count")), NoNode)>>) :
     classes \in {<<Output, B, C>>, <<C, B, Output>>}}

\* Static fields read those initialised before them, and call.
Statics ==
  Program(<<Class("D", << >>, <<<<"D.a", Literal(6)>>, <<"D.b", Plus(StaticField("D.a"), StaticField("A.c"))>>>>,
                  << >>, << >>),
            Output,
            Class("A", << >>, <<<<"A.c", Told(5)>>, <<"A.d", NoNode>>,
                                <<"A.e", Times(StaticField("D.b"), Plus(StaticField("A.c"), StaticField("A.d")))>>>>,
                  <<"A.test", "A.tell">>, << >>)>>,
          ("A.tell" :> TellMethod) @@ Natives, <<ReturnStmt(StaticField("A.e"))>>)

MCPrograms ==
  Operators \cup Exceptions \cup Objects
  \cup {Booleans, Sides, Arguments, Factorial, Loops, Squares, Elements, Statics}

\* class P { int p, q; P(int v, int w) { p = v; q = w; } }, and new P(1, 2).p
ConstructorPrograms ==
  {Program(<<Class("P", <<NoNode, NoNode>>, << >>, <<"P.P">>, << >>),
             Class("A", << >>, << >>, <<"A.test">>, << >>)>>,
           ("P.P" :> Constructor(<<"v", "w">>, <<Set(OwnField(0), Param("v")), Set(OwnField(1), Param("w"))>>)),
           <<Decl("x", NewObject("P", "P.P", <<Literal(1), Literal(2)>>)), ReturnStmt(FieldOf(X, 0))>>)}
=============================================================================
