--------------------------- MODULE MCReachability ---------------------------
(***************************************************************************)
(* The reachability checks on the graphs the builder makes of every method *)
(* body of a bounded shape, compared with the Java rules read off the      *)
(* statements themselves.                                                  *)
(***************************************************************************)
EXTENDS MethodBodies

MCWordSize == 2^4
MCLocals == {"x"}

-----------------------------------------------------------------------------
(***************************************************************************)
(* The methods, listed so that each has a number.                          *)
(***************************************************************************)
\* Op applied to each element of s and each of t.
Combine(Op(_, _), s, t) ==
  [k \in 1..Len(s) * Len(t) |->
     Op(s[((k - 1) \div Len(t)) + 1], t[((k - 1) % Len(t)) + 1])]

Each(Op(_), s) == [k \in DOMAIN s |-> Op(s[k])]

Unknown == <<Name("p")>>
Conditions == <<Unknown, <<Bool(TRUE)>>, <<Bool(FALSE)>>>>

Effect == ExprStmt(<<Name("x"), Num(1), Assign>>)
Return == ReturnStmt(<<Name("x")>>)
Leaves == <<Effect, Return, Block(<< >>)>>

If(s)        == IfStmt(Unknown, s)
IfElse(s, t) == IfElseStmt(Unknown, s, t)
For(c, s)    == ForStmt(Effect, c, NullStmt, s)
Pair(s, t)   == Block(<<s, t>>)

OneDeep ==
  Leaves \o Each(If, Leaves) \o Combine(IfElse, Leaves, Leaves)
         \o Combine(WhileStmt, Conditions, Leaves) \o Combine(For, Conditions, Leaves)
         \o Combine(Pair, Leaves, Leaves)

TwoDeep ==
  Each(If, OneDeep) \o Combine(IfElse, OneDeep, <<Effect, Return>>)
     \o Combine(WhileStmt, Conditions, OneDeep) \o Combine(For, Conditions, OneDeep)
     \o Combine(Pair, OneDeep, Leaves)

\* Loop conditions over the words -8..7, with carries and truncation among them.
Equation(e, f, op) == <<e \o f \o <<BinOp(op)>>>>
MinusOne == <<Num(7), UnOp("Minus"), Num(1), BinOp("Minus")>>
Logic(a, b) == Each(LAMBDA op : <<Bool(a), Bool(b), BinOp(op), UnOp("Not")>>,
                    <<"And", "Or", "BitWiseAnd", "BitWiseOr">>)
FiveAndThree(op) == <<Num(5), Num(3), BinOp(op)>>
Arithmetic ==
  Equation(<<Num(7), Num(1), BinOp("Plus")>>, MinusOne, "Equal")
  \o Equation(<<Num(7), Num(1), BinOp("Plus")>>, MinusOne, "NotEqual")
  \o Equation(FiveAndThree("Minus"), <<Num(2)>>, "Equal")
  \o Equation(FiveAndThree("Minus"), <<Num(6)>>, "NotEqual")
  \o Equation(FiveAndThree("Multiply"), <<Num(1), UnOp("Minus")>>, "Equal")
  \o Equation(FiveAndThree("Modulo"), <<Num(2)>>, "Equal")
  \o Equation(<<Num(5), UnOp("Minus"), Num(3), BinOp("Modulo")>>, <<Num(2), UnOp("Minus")>>, "Equal")
  \o Equation(FiveAndThree("Divide"), <<Num(1)>>, "Equal")
  \o Logic(TRUE, TRUE) \o Logic(TRUE, FALSE) \o Logic(FALSE, FALSE)
  \o Equation(<<Num(-3), UnOp("Minus")>>, <<Num(3)>>, "Equal")
  \o <<<<Num(1), Num(2), BinOp("LessThan")>>, <<Bool(TRUE), Name("p"), BinOp("Or")>>,
       <<NullLit, NullLit, BinOp("Equal")>>, <<Name("p"), NullLit, BinOp("Equal")>>>>

Once(s) == <<s>>
Twice(s, t) == <<s, t>>

Bodies ==
  <<<< >>>> \o Each(Once, OneDeep) \o Each(Once, TwoDeep) \o Combine(Twice, OneDeep, Leaves)
       \o Each(LAMBDA c : <<WhileStmt(c, Effect)>>, Arithmetic)

Simple  == {Sentinel, NullStmt} \cup Range(Leaves)
Shallow == Range(OneDeep) \cup {WhileStmt(c, Effect) : c \in Range(Arithmetic)}

MCStatements == Simple \cup Shallow \cup Range(TwoDeep)
MCDepth == [s \in MCStatements |-> IF s \in Simple THEN 0 ELSE IF s \in Shallow THEN 1 ELSE 2]

Graphs == Each(LAMBDA b : BuildCFG(b, TRUE), Bodies) \o Each(LAMBDA b : BuildCFG(b, FALSE), Bodies)

MCCFGs == Range(Graphs)
=============================================================================
