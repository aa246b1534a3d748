------------------------- MODULE InstructionSelector -------------------------
(***************************************************************************)
(* codeGen/instructionSelector.cpp: one tile per node of the canonical IR, *)
(* its result in the register it is asked for.  New virtual registers are  *)
(* named by the position n of the node.                                    *)
(***************************************************************************)
EXTENDS TIR, X86

CONSTANT MaxArguments   \* bound: arguments of a call, this included

RECURSIVE selectExpr(_, _, _)

Comparisons == {"EQ", "NEQ", "LT", "GT", "LEQ", "GEQ"}
SetFlag(op, reg) ==
  CASE op = "EQ" -> SetZ(reg) [] op = "NEQ" -> SetNZ(reg) [] op = "LT" -> SetL(reg)
    [] op = "GT" -> SetG(reg) [] op = "LEQ" -> SetLE(reg) [] op = "GEQ" -> SetGE(reg)

\* Mutant: the divisor is in a register that allocation loads spilled ones into.
DivisionByECX(l, r) ==
  <<CmpConst(r, 0), To(Je(0), "__exception"), Mov("ecx", r), Mov("eax", l), Cdq, IDiv("ecx")>>

\* The divisor is looked at first; quotient in eax, remainder in edx.
Division(l, r) ==
  <<CmpConst(r, 0), To(Je(0), "__exception"), Mov("eax", l), Cdq, IDiv(r)>>

Operate(op, l, r, reg) ==
  CASE op = "ADD" -> <<Lea(reg, l, r)>>
    [] op = "SUB" -> <<Sub(l, r), Mov(reg, l)>>
    [] op = "MUL" -> <<Mov("eax", l), IMul(r), Mov(reg, "eax")>>
    [] op = "DIV" -> Division(l, r) \o <<Mov(reg, "eax")>>
    [] op = "MOD" -> Division(l, r) \o <<Mov(reg, "edx")>>
    [] op = "AND" -> <<And(l, r), Mov(reg, l)>>
    [] op = "OR"  -> <<Or(l, r), Mov(reg, l)>>
    [] op \in Comparisons -> <<Cmp(l, r), SetFlag(op, "eax"), MovZX(reg, "eax")>>

\* Above ebp: the caller's ebp, the return address, the arguments.
ArgumentOffset(n) == (n + 2) * 4

selectTemp(e, reg) ==
  IF e.name = kAbstractReturn THEN <<Mov(reg, "eax")>>
  ELSE IF \E k \in 0..MaxArguments : e.name = kAbstractArg(k)
  THEN <<LoadAboveEBP(reg, ArgumentOffset(CHOOSE k \in 0..MaxArguments : e.name = kAbstractArg(k)))>>
  ELSE IF e.isGlobal THEN <<LoadStatic(reg, e.name)>>
  ELSE <<Mov(reg, "%_" \o e.name)>>

selectExpr(e, reg, n) ==
  CASE e.kind = "BinOp" ->
         LET l == "%l" \o n  r == "%r" \o n
         IN  selectExpr(e.left, l, n \o "l") \o selectExpr(e.right, r, n \o "r") \o Operate(e.op, l, r, reg)
    [] e.kind = "Const" -> <<MovConst(reg, e.value)>>
    [] e.kind = "Mem"   -> selectExpr(e.address, "%m" \o n, n \o "m") \o <<MovFromMem(reg, "%m" \o n)>>
    [] e.kind = "Name"  -> <<MovLabel(reg, e.name)>>
    [] e.kind = "Temp"  -> selectTemp(e, reg)

\* The last argument is pushed first.
PushArguments(args, n) ==
  FlattenSeq(Reverse([k \in DOMAIN args |->
                        LET reg == "%a" \o ToString(k) \o n
                        IN  selectExpr(args[k], reg, n \o "a" \o ToString(k)) \o <<Push(reg)>>]))

\* Functions of the runtime that take their argument in eax.
InEAX == {"__malloc", "NATIVEjava.io.OutputStream.nativeWrite"}

\* Mutant: the arguments stay on the stack.
LeaveArguments(args) == << >>

DropArguments(args) == <<AddESP(Len(args))>>

selectCall(call, n) ==
  IF call.target.kind = "Name" /\ call.target.name \in InEAX
  THEN selectExpr(call.args[1], "eax", n) \o <<Call(call.target.name)>>
  ELSE PushArguments(call.args, n)
       \o (IF call.target.kind = "Name" THEN <<Call(call.target.name)>>
           ELSE selectExpr(call.target, "%t" \o n, n \o "t") \o <<CallRegister("%t" \o n)>>)
       \o DropArguments(call.args)

selectMove(s, n) ==
  IF s.target.kind = "Mem"
  THEN selectExpr(s.source, "%s" \o n, n \o "s") \o selectExpr(s.target.address, "%d" \o n, n \o "d")
       \o <<MovToMem("%d" \o n, "%s" \o n)>>
  ELSE IF s.target.isGlobal
  THEN selectExpr(s.source, "%s" \o n, n \o "s") \o <<StoreStatic(s.target.name, "%s" \o n)>>
  ELSE selectExpr(s.source, "%_" \o s.target.name, n \o "s")

\* A conditional jump goes on with the next statement when it is not taken:
\* its false label is not looked at.
selectStmt(s, n) ==
  CASE s.kind = "CJump"    -> selectExpr(s.condition, "%c" \o n, n \o "c")
                              \o <<Test("%c" \o n, "%c" \o n), To(JNZ(0), s.trueLabel)>>
    [] s.kind = "Jump"     -> <<To(Jmp(0), s.target.name)>>
    [] s.kind = "CallStmt" -> selectCall(s.call, n)
    [] s.kind = "Label"    -> <<To(Label, s.name)>>
    [] s.kind = "Move"     -> selectMove(s, n)
    [] s.kind = "Return"   -> selectExpr(s.ret, "eax", n) \o <<Ret>>

selectTile(stmts, n) ==
  FlattenSeq([k \in DOMAIN stmts |-> selectStmt(stmts[k], n \o "." \o ToString(k))])
=============================================================================
