---------------------------- MODULE MethodBodies ----------------------------
(***************************************************************************)
(* The static checks on a method body from its statements to the verdict:  *)
(* the builder makes the control flow graph, reachabilityAnalysis.cpp      *)
(* searches it.  The verdict is compared with the Java rules for           *)
(* unreachable statements (JLS 14.20), read off the statements themselves, *)
(* and the folding of loop conditions with Java's constant expressions     *)
(* (JLS 15.28), which those rules rest on.                                 *)
(***************************************************************************)
EXTENDS ReachabilityAnalysis, CFGBuilder

\* A body is what stands between the braces of a method; its graph has been
\* built without bringing the compiler down.
ASSUME GraphsAreBuilt ==
  \A g \in CFGs : /\ g.body \in Seq(Statements \ {Sentinel})
                  /\ g.nonVoid \in BOOLEAN
                  /\ g = BuildCFG(g.body, g.nonVoid)
                  /\ ~g.crashed
-----------------------------------------------------------------------------
(***************************************************************************)
(* Java's own constant expressions: literals but null under operators,     *)
(* signed words, quotients and remainders rounded towards zero, every      *)
(* operator defined.  An expression is read as a tree from its last node.  *)
(* Strings and casts are left out: an expression with one is taken for not *)
(* constant here, and exempt from what is said of the rules below.         *)
(***************************************************************************)
Java == INSTANCE Arithmetic

Number(n) == [type |-> "num", val |-> Java!Signed(Java!Word(n))]

\* Null has a type, and no constant value.
NullValue == [type |-> "null"]

\* How many nodes the operand that ends with node k of e consists of, given
\* the sizes of those that end earlier.
SizeAt(size, e, k) ==
  IF k = 0 THEN 0
  ELSE CASE e[k].tok = "binop" -> 1 + size[k - 1] + size[k - 1 - size[k - 1]]
         [] e[k].tok = "unop"  -> 1 + size[k - 1]
         [] OTHER -> 1

OperandSizes(e) == LET size[k \in 0..Len(e)] == SizeAt(size, e, k) IN size

\* The last node of the left operand of a binary operator; the right one ends
\* in front of the operator.
LeftOperand(e, k) == k - 1 - OperandSizes(e)[k - 1]

OnTruths(op, a, b) ==
  CASE op \in {"And", "BitWiseAnd"} -> Truth(a /\ b)
    [] op \in {"Or", "BitWiseOr"}   -> Truth(a \/ b)
    [] op = "Equal"    -> Truth(a = b)
    [] op = "NotEqual" -> Truth(a # b)
    [] OTHER -> NotConstant

OnNumbers(op, a, b) ==
  CASE op = "Equal"    -> Truth(a = b)
    [] op = "NotEqual" -> Truth(a # b)
    [] op = "LessThan"           -> Truth(a < b)
    [] op = "LessThanOrEqual"    -> Truth(a <= b)
    [] op = "GreaterThan"        -> Truth(a > b)
    [] op = "GreaterThanOrEqual" -> Truth(a >= b)
    [] op = "Plus"     -> Number(a + b)
    [] op = "Minus"    -> Number(a - b)
    [] op = "Multiply" -> Number(a * b)
    [] op = "Divide" /\ b # 0 -> Number(Java!Quotient(a, b))
    [] op = "Modulo" /\ b # 0 -> Number(Java!Remainder(a, b))
    [] OTHER -> NotConstant

JavaBinOp(op, a, b) ==
  CASE a.type = "bool" /\ b.type = "bool" -> OnTruths(op, a.val, b.val)
    [] a.type = "num" /\ b.type = "num"   -> OnNumbers(op, a.val, b.val)
    [] OTHER -> NotConstant

JavaUnOp(op, a) ==
  CASE op = "Not" /\ a.type = "bool"  -> Truth(~a.val)
    [] op = "Minus" /\ a.type = "num" -> Number(-a.val)
    [] OTHER -> NotConstant

\* The value of the operand that ends with node k, given those that end earlier.
ValueAt(value, e, k) ==
  CASE e[k].tok = "num"   -> Number(e[k].val)
    [] e[k].tok = "bool"  -> Truth(e[k].truth)
    [] e[k].tok = "null"  -> NullValue
    [] e[k].tok = "binop" -> JavaBinOp(e[k].op, value[LeftOperand(e, k)], value[k - 1])
    [] e[k].tok = "unop"  -> JavaUnOp(e[k].op, value[k - 1])
    [] OTHER -> NotConstant

JavaValues(e) == LET value[k \in DOMAIN e] == ValueAt(value, e, k) IN value

\* Of literals and operators only.
OnlyLiterals(e) == \A k \in DOMAIN e : e[k].tok \in {"num", "bool", "null", "binop", "unop"}

JavaValue(e) == IF e # NoExpr /\ OnlyLiterals(e) THEN JavaValues(e)[Len(e)] ELSE NotConstant

\* The operands are of types the operator takes, as far as they are constant.
FitsUnOp(op, a) == a.type \in {"none", IF op = "Not" THEN "bool" ELSE "num"}
FitsBinOp(op, a, b) ==
  LET Both(type) == {a.type, b.type} \subseteq {"none", type}
  IN  CASE op \in {"And", "Or", "BitWiseAnd", "BitWiseOr"} -> Both("bool")
        [] op \in {"Equal", "NotEqual"} -> Both("bool") \/ Both("num") \/ Both("null")
        [] OTHER -> Both("num")

\* What the parse tree visitor makes of a condition, in a method that has passed
\* the type resolver.  (A character is a number.)
IsTypedExpr(e) ==
  /\ e \in Seq(Range(e)) /\ e # NoExpr
  /\ OnlyLiterals(e) =>
       /\ \A k \in DOMAIN e :
            /\ e[k].tok = "num"  => e[k].val \in Int
            /\ e[k].tok = "bool" => e[k].truth \in BOOLEAN
            /\ e[k].tok = "unop" => k > 1 /\ FitsUnOp(e[k].op, JavaValues(e)[k - 1])
            /\ e[k].tok = "binop" =>
                 /\ LeftOperand(e, k) > 0
                 /\ FitsBinOp(e[k].op, JavaValues(e)[LeftOperand(e, k)], JavaValues(e)[k - 1])
       /\ JavaValue(e).type \in {"bool", "none"}

ASSUME ConditionsAssumption ==
  \A s \in Statements :
    s.kind \in {"while", "for"} => s.cond = NoExpr \/ IsTypedExpr(s.cond)

\* The values of the operands of e's operators op.
Operands(e, op) ==
  {<<JavaValues(e)[LeftOperand(e, k)], JavaValues(e)[k - 1]>> :
     k \in {j \in DOMAIN e : e[j].tok = "binop" /\ e[j].op \in op}}

\* The folder's remainder is unsigned.
NoNegativeRemainders(e) ==
  \A operands \in Operands(e, {"Modulo"}) :
    \A v \in Range(operands) : v.type = "num" => v.val >= 0

\* The folder takes null for false.
NoNullsCompared(e) ==
  \A operands \in Operands(e, {"Equal", "NotEqual"}) : Range(operands) # {NullValue}

\* A loop condition the folder takes for constant is constant in Java and has
\* the value Java gives it, unless it takes the remainder of a negative number
\* or compares null with null.
FoldingAgreesWithJava ==
  \A n \in cfg.nodes :
    LET s == cfg.stmt[n]
    IN  /\ s.kind \in {"while", "for"}
        /\ OnlyLiterals(s.cond) => NoNegativeRemainders(s.cond) /\ NoNullsCompared(s.cond)
        => \A b \in BOOLEAN : FoldsTo(s.cond, b) => JavaValue(s.cond) = Truth(b)
-----------------------------------------------------------------------------
(***************************************************************************)
(* The Java rules, each from the answers for the statements inside.        *)
(***************************************************************************)
\* The condition is constantly b; a for statement without one goes on for ever.
Constantly(cond, b) == IF cond = NoExpr THEN b ELSE JavaValue(cond) = Truth(b)

Completes(completes, s) ==
  CASE s.kind = "return" -> FALSE
    [] s.kind = "block"  -> \A k \in DOMAIN s.stmts : completes[s.stmts[k]]
    [] s.kind = "ifElse" -> completes[s.body] \/ completes[s.else]
    [] s.kind \in {"while", "for"} -> ~Constantly(s.cond, TRUE)
    [] OTHER -> TRUE

CompletesNormally[s \in Statements] == Completes(CompletesNormally, s)

\* Some statement inside s cannot be reached although s can.
HoldsUnreachable(holds, s) ==
  CASE s.kind = "block" ->
         \E k \in DOMAIN s.stmts :
           \/ holds[s.stmts[k]]
           \/ k < Len(s.stmts) /\ ~CompletesNormally[s.stmts[k]]
    [] s.kind = "if"     -> holds[s.body]
    [] s.kind = "ifElse" -> holds[s.body] \/ holds[s.else]
    [] s.kind \in {"while", "for"} -> Constantly(s.cond, FALSE) \/ holds[s.body]
    [] OTHER -> FALSE

SomethingUnreachable[s \in Statements] == HoldsUnreachable(SomethingUnreachable, s)

\* Some for statement inside s has a body that never comes back to its update
\* clause.  Java does not mind; the builder gives the clause a node.
CutsOffUpdate(cuts, s) ==
  CASE s.kind = "block" -> \E k \in DOMAIN s.stmts : cuts[s.stmts[k]]
    [] s.kind \in {"if", "while"} -> cuts[s.body]
    [] s.kind = "ifElse" -> cuts[s.body] \/ cuts[s.else]
    [] s.kind = "for"    -> ~CompletesNormally[s.body] \/ cuts[s.body]
    [] OTHER -> FALSE

UpdateCutOff[s \in Statements] == CutsOffUpdate(UpdateCutOff, s)

\* A condition the folder decides as Java does: it has a variable, which Java
\* cannot take for constant (the language has no final ones), or it is made of
\* numbers and truth values by the operators the folder knows.
\* That leaves out what the code gets wrong: a comparison or a quotient counts as
\* unknown although it is constant, null equals null although it is no constant,
\* and the remainder of a negative number is that of the unsigned word.
FoldedBinOps == {"And", "Or", "BitWiseAnd", "BitWiseOr", "Equal", "NotEqual",
                 "Plus", "Minus", "Multiply", "Modulo"}
FoldedUnOps == {"Not", "Minus"}

MadeOfFolded(e) ==
  \A k \in DOMAIN e :
    \/ e[k].tok \in {"num", "bool"}
    \/ e[k].tok = "binop" /\ e[k].op \in FoldedBinOps
    \/ e[k].tok = "unop" /\ e[k].op \in FoldedUnOps

NonZeroDivisors(e) == \A operands \in Operands(e, {"Modulo"}) : operands[2] # Number(0)

KnownToFolder(e) ==
  \/ \E k \in DOMAIN e : e[k].tok \in {"name", "assign"}
  \/ /\ MadeOfFolded(e) /\ NoNegativeRemainders(e) /\ NonZeroDivisors(e)

\* So is every condition of a loop inside s.
Knows(knows, s) ==
  /\ s.kind \in {"while", "for"} => s.cond # NoExpr /\ KnownToFolder(s.cond)
  /\ \A t \in Parts(s) : knows[t]

KnownConditions[s \in Statements] == Knows(KnownConditions, s)

\* The verdict on a method whose conditions are such follows from its statements
\* by the Java rules, the update clause of a for statement counted as one of
\* them: graph, folding and search together neither miss an unreachable statement
\* nor invent one.
AgreesWithStatements ==
  pc = "done" /\ (\A k \in DOMAIN cfg.body : KnownConditions[cfg.body[k]]) =>
    LET body == Block(cfg.body)
    IN  result = IF \/ HoldsUnreachable(SomethingUnreachable, body)
                    \/ CutsOffUpdate(UpdateCutOff, body)
                 THEN "unreachable"
                 ELSE IF cfg.nonVoid /\ Completes(CompletesNormally, body)
                 THEN "noReturn" ELSE "ok"
=============================================================================
