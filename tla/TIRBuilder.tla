----------------------------- MODULE TIRBuilder -----------------------------
(***************************************************************************)
(* tir/TIRBuilder.cpp: from a class to a compilation unit,                 *)
(*   [functions |-> <<name, body>> in order, fields |-> <<name, value>> of *)
(*    the static fields in order, start |-> statements that fill vectors]. *)
(* A condition jumps when it does not hold: the code behind it is what     *)
(* runs when it does.                                                      *)
(***************************************************************************)
EXTENDS ExprIRConverter

RECURSIVE buildStmt(_, _, _)

buildBlock(program, s, n) ==
  Sequence([k \in DOMAIN s.stmts |-> buildStmt(program, s.stmts[k], n \o "." \o ToString(k))])

LeaveUnless(program, condition, out, stay, n) ==
  CJump(makeNegate(evaluateList(program, condition, n \o "c")), out, stay)

buildIfStmt(program, s, n) ==
  LET lt == "if_true" \o n  lf == "if_false" \o n  le == "if_end" \o n
      body == buildStmt(program, s.body, n \o "t")
  IN  IF s.elseBody = NoNode
      THEN Sequence(<<LeaveUnless(program, s.condition, le, lt, n), LabelAt(lt), body, LabelAt(le)>>)
      ELSE Sequence(<<LeaveUnless(program, s.condition, lf, lt, n), LabelAt(lt), body, Jump(le),
                  LabelAt(lf), buildStmt(program, s.elseBody, n \o "f"), LabelAt(le)>>)

buildWhileStmt(program, s, n) ==
  LET ls == "while_init" \o n  lt == "while_true" \o n  le == "while_end" \o n
  IN  Sequence(<<LabelAt(ls), LeaveUnless(program, s.condition, le, lt, n), LabelAt(lt),
             buildStmt(program, s.body, n \o "b"), Jump(ls), LabelAt(le)>>)

\* A for statement without a condition crashes the compiler: programs have one.
buildForStmt(program, s, n) ==
  LET ls == "for_init" \o n  lt == "for_true" \o n  le == "for_end" \o n
  IN  Sequence(<<buildStmt(program, s.init, n \o "i"), LabelAt(ls),
             LeaveUnless(program, s.condition, le, lt, n), LabelAt(lt),
             buildStmt(program, s.body, n \o "b"), buildStmt(program, s.update, n \o "u"),
             Jump(ls), LabelAt(le)>>)

buildVarDecl(program, name, init, n) ==
  Move(Temp("Local" \o name), IF init = NoNode THEN Const(0) ELSE evaluateList(program, init, n))

buildStmt(program, s, n) ==
  CASE s.node = "Block"    -> buildBlock(program, s, n)
    [] s.node = "If"       -> buildIfStmt(program, s, n)
    [] s.node = "While"    -> buildWhileStmt(program, s, n)
    [] s.node = "For"      -> buildForStmt(program, s, n)
    [] s.node = "Return"   -> Return(IF s.expr = NoNode THEN Const(0) ELSE evaluateList(program, s.expr, n))
    [] s.node = "ExprStmt" -> Exp(evaluateList(program, s.expr, n))
    [] s.node = "Decl"     -> buildVarDecl(program, s.name, s.init, n)
    [] s.node \in {"Null", "none"} -> Nothing
-----------------------------------------------------------------------------
\* Argument 0 is this, in a static method too.
ReceiveArguments(params) ==
  <<Move(Temp("this"), Temp(kAbstractArg(0)))>>
  \o [k \in DOMAIN params |-> Move(Temp("Param" \o params[k]), Temp(kAbstractArg(k)))]

buildMethodDecl(program, name) ==
  LET method == program.methods[name]
  IN  <<name, Sequence(ReceiveArguments(method.params)
                   \o buildBlock(program, method.body, name).stmts
                   \o <<Return(Const(0))>>)>>

buildFieldDecl(program, field) ==
  <<field[1], IF field[2] = NoNode THEN Const(0) ELSE evaluateList(program, field[2], field[1])>>

\* The word of a class's vector that belongs to a method.
FillSlot(program, class, name) ==
  Move(Mem(BinOp("ADD", Global(ClassLabel(class.name)),
                 BinOp("MUL", Const(program.methods[name].slot), Const(4)))),
       Name(MethodLabel(name, program.methods[name])))

\* Up to the largest colour of the class's methods.
VectorSize(program, class) ==
  IF class.vector = << >> THEN 0
  ELSE Max({program.methods[m].slot : m \in Range(class.vector)}) + 1

buildProgram(program, class) ==
  LET declared == SelectSeq(class.methods, LAMBDA m : ~program.methods[m].native)
      vector   == <<ClassLabel(class.name), makeMalloc(Const(Offset(VectorSize(program, class))))>>
  IN  [functions |-> [k \in DOMAIN declared |-> buildMethodDecl(program, declared[k])],
       fields    |-> Append([k \in DOMAIN class.statics |-> buildFieldDecl(program, class.statics[k])],
                            vector),
       start     |-> [k \in DOMAIN class.vector |-> FillSlot(program, class, class.vector[k])]]
=============================================================================
