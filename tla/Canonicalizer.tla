---------------------------- MODULE Canonicalizer ----------------------------
(***************************************************************************)
(* codeGen/canonicalizer.cpp: calls and statements are taken out of        *)
(* expressions.  Lowering an expression gives the statements to run before *)
(* it and what is left of it.                                              *)
(***************************************************************************)
EXTENDS TIR

Lowered(stmts, expr) == [stmts |-> stmts, expr |-> expr]
Pure(expr)           == Lowered(<< >>, expr)

RECURSIVE LowerExpr(_, _), LowerStmt(_, _)

\* Mutant: the left operand is evaluated where it stands, behind what the right does.
LeftInPlace(e, n) ==
  LET left == LowerExpr(e.left, n \o "l")  right == LowerExpr(e.right, n \o "r")
  IN  Lowered(left.stmts \o right.stmts, BinOp(e.op, left.expr, right.expr))

\* What the right operand does may change the left one: it is saved.
LowerBinOp(e, n) ==
  LET left == LowerExpr(e.left, n \o "l")  right == LowerExpr(e.right, n \o "r")
      temp == Temp("temp" \o n)
  IN  Lowered(left.stmts \o <<Move(temp, left.expr)>> \o right.stmts, BinOp(e.op, temp, right.expr))

\* Mutant: an ESeq stays where it is.
KeepESeq(e, n) == Pure(e)

LowerESeq(e, n) ==
  LET expr == LowerExpr(e.expr, n \o "e")
  IN  Lowered(LowerStmt(e.stmt, n \o "s") \o expr.stmts, expr.expr)

LowerCall(e, n) ==
  LET temp(k) == Temp("canon_call_arg" \o n \o "a" \o ToString(k))
      argument(k) == LET arg == LowerExpr(e.args[k], n \o "a" \o ToString(k))
                     IN  arg.stmts \o <<Move(temp(k), arg.expr)>>
      target == IF e.target.kind = "Name" THEN Pure(e.target) ELSE LowerExpr(e.target, n \o "t")
  IN  Lowered(FlattenSeq([k \in DOMAIN e.args |-> argument(k)]) \o target.stmts
              \o <<CallStmt(CallOf(target.expr, [k \in DOMAIN e.args |-> temp(k)]))>>,
              Temp(kAbstractReturn))

LowerExpr(e, n) ==
  CASE e.kind = "BinOp" -> LowerBinOp(e, n)
    [] e.kind = "Call"  -> LowerCall(e, n)
    [] e.kind = "ESeq"  -> LowerESeq(e, n)
    [] e.kind = "Mem"   -> LET address == LowerExpr(e.address, n \o "m")
                           IN  Lowered(address.stmts, Mem(address.expr))
    [] OTHER            -> Pure(e)

LowerSeq(stmts, n) == FlattenSeq([k \in DOMAIN stmts |-> LowerStmt(stmts[k], n \o "." \o ToString(k))])

\* The address is saved before the source runs.
LowerMove(s, n) ==
  LET source == LowerExpr(s.source, n \o "v")
  IN  IF s.target.kind = "Temp"
      THEN source.stmts \o <<Move(s.target, source.expr)>>
      ELSE LET address == LowerExpr(s.target.address, n \o "m")
               temp    == Temp("move_target" \o n)
           IN  address.stmts \o <<Move(temp, address.expr)>>
               \o source.stmts \o <<Move(Mem(temp), source.expr)>>

\* The value of an expression statement is dropped.
LowerStmt(s, n) ==
  CASE s.kind = "Seq"    -> LowerSeq(s.stmts, n)
    [] s.kind = "Exp"    -> LowerExpr(s.expr, n).stmts
    [] s.kind = "CJump"  -> LET condition == LowerExpr(s.condition, n \o "c")
                            IN  condition.stmts \o <<[s EXCEPT !.condition = condition.expr]>>
    [] s.kind = "Move"   -> LowerMove(s, n)
    [] s.kind = "Return" -> LET value == LowerExpr(s.ret, n \o "x")
                            IN  value.stmts \o <<Return(value.expr)>>
    [] OTHER             -> <<s>>

\* A static field's initialiser becomes the statements that assign it.
canonicalizeCompUnit(unit) ==
  [functions |-> [k \in DOMAIN unit.functions |->
                    LET f == unit.functions[k] IN <<f[1], LowerStmt(f[2], f[1])>>],
   fields    |-> [k \in DOMAIN unit.fields |->
                    LET f == unit.fields[k] IN <<f[1], LowerMove(Move(Global(f[1]), f[2]), f[1])>>],
   start     |-> [k \in DOMAIN unit.start |-> LowerStmt(unit.start[k], "start" \o ToString(k))]]
=============================================================================
