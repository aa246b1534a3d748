--------------------------- MODULE ExprIRConverter ---------------------------
(***************************************************************************)
(* codeGen/exprIRConverter.cpp: from an expression in reverse Polish       *)
(* notation to IR, on the stack of staticCheck/evaluator.hpp.  Generated   *)
(* names are made unique by the position n they are generated at, where    *)
(* the code counts.                                                        *)
(***************************************************************************)
EXTENDS Ast, TIR

RECURSIVE Converted(_, _, _, _)

Offset(k) == 4 * (k + 1)   \* of a field in an object: the vector comes first

ClassLabel(class) == "CLASS." \o class
ArraysLabel       == ClassLabel("java.util.Arrays")

MethodLabel(name, method) == IF method.native THEN "NATIVE" \o name ELSE name

ThisField(f) == Mem(BinOp("ADD", Temp("this"), Const(Offset(f))))

\* A method name, a type and the field of another object wait for their operator.
mapValue(e) ==
  CASE e.node = "Literal"     -> Const(e.value)
    [] e.node = "This"        -> Temp("this")
    [] e.node \in {"Local", "Param"} -> Temp(e.node \o e.name)
    [] e.node = "StaticField" -> Global(e.name)
    [] e.node = "OwnField"    -> ThisField(e.field)
    [] OTHER                  -> [kind |-> "TempTIR", deferred |-> e]

BinOps == [i \in {"+", "-", "*", "/", "%", "&", "|", "==", "!=", "<", ">", "<=", ">="} |->
             CASE i = "+" -> "ADD" [] i = "-" -> "SUB" [] i = "*" -> "MUL" [] i = "/" -> "DIV"
               [] i = "%" -> "MOD" [] i = "&" -> "AND" [] i = "|" -> "OR" [] i = "==" -> "EQ"
               [] i = "!=" -> "NEQ" [] i = "<" -> "LT" [] i = ">" -> "GT" [] i = "<=" -> "LEQ"
               [] i = ">=" -> "GEQ"]

\* Mutant: the two labels are taken for each other.
LabelsSwapped(t, decides, decided, other, lhs, rhs) ==
  ESeq(Sequence(<<Move(Temp(t), lhs), CJump(decides, other, decided), LabelAt(other),
                  Move(Temp(t), rhs), LabelAt(decided)>>), Temp(t))

\* The result is in a temporary that holds lhs, unless lhs does not decide.
ShortCircuit(t, decides, decided, other, lhs, rhs) ==
  ESeq(Sequence(<<Move(Temp(t), lhs), CJump(decides, decided, other), LabelAt(other),
                  Move(Temp(t), rhs), LabelAt(decided)>>), Temp(t))

evalBinOp(op, lhs, rhs, n) ==
  LET true == "sc_true" \o n  false == "sc_false" \o n
  IN  CASE op = "&&" -> ShortCircuit("t_and" \o n, makeNegate(Temp("t_and" \o n)), false, true, lhs, rhs)
        [] op = "||" -> ShortCircuit("t_or" \o n, Temp("t_or" \o n), true, false, lhs, rhs)
        [] OTHER -> BinOp(BinOps[op], lhs, rhs)

evalUnOp(op, rhs) ==
  CASE op = "+" -> rhs
    [] op = "-" -> BinOp("SUB", Const(0), rhs)
    [] op = "!" -> makeNegate(rhs)

\* error: __exception(); where execution goes on if the check before passes.
OrException(error, goOn) == <<LabelAt(error), Exp(makeException), LabelAt(goOn)>>

NotNullCheck(array, value, n) ==
  <<Move(Temp(array), value),
    CJump(BinOp("NEQ", Temp(array), Const(0)), "not_null" \o n, "error" \o n)>>
  \o OrException("error" \o n, "not_null" \o n)

\* The length is the word in front of the vector an array points to.
Length(array) == Mem(BinOp("SUB", Temp(array), Const(4)))

evalFieldAccess(lhs, field, n) ==
  CASE field.deferred.node = "MethodName" ->
         [kind |-> "TempTIR", deferred |-> field.deferred, parent |-> lhs]
    [] field.deferred.node = "LengthName" ->
         ESeq(Sequence(NotNullCheck("array" \o n, lhs, n)), Length("array" \o n))
    [] field.deferred.node = "MemberName" ->
         Mem(BinOp("ADD", lhs, Const(Offset(field.deferred.field))))

\* A static method gets a this of 0, a native one none.
StaticCall(label, method, args) ==
  makeExpr(Name(label), IF method.native THEN Nothing ELSE Const(0), args)

\* The vector's word at the slot of the method the name was resolved to.
VirtualCall(this, method, args) ==
  makeExpr(Mem(BinOp("ADD", Mem(Temp(this)), BinOp("MUL", Const(method.slot), Const(4)))),
           IF method.native THEN Nothing ELSE Temp(this), args)

evalMethodInvocation(program, callee, args, n) ==
  LET name   == callee.deferred.method
      method == program.methods[name]
  IN  IF method.kind = "static" THEN StaticCall(MethodLabel(name, method), method, args)
      ELSE IF "parent" \in DOMAIN callee
      THEN ESeq(Move(Temp("this" \o n), callee.parent), VirtualCall("this" \o n, method, args))
      ELSE VirtualCall("this", method, args)

\* The initialiser of a field; one without is zero.
InitialValue(program, f, n) ==
  IF f = NoNode THEN Const(0) ELSE Converted(program, Rpn(f), n, FALSE)

\* The constructor's arguments are not turned round.  Initialisers of fields have
\* a converter of their own (inner is true), which itself has none: it throws on
\* a new object (1447-1450).
evalNewObject(program, type, args, n, inner) ==
  LET obj    == Temp("obj_ref" \o n)
      class  == CHOOSE c \in Range(program.classes) : c.name = type.deferred.class
      fields == [k \in DOMAIN class.fields |->
                   Move(Mem(BinOp("ADD", obj, Const(4 * k))),
                        InitialValue(program, class.fields[k], n \o "f" \o ToString(k)))]
      object == ESeq(Sequence(<<Move(obj, makeMalloc(Const(Offset(Len(fields))))),
                                Move(Mem(obj), Global(ClassLabel(class.name)))>>
                              \o fields
                              \o <<Exp(CallOf(Name(type.deferred.method), <<obj>> \o args))>>), obj)
  IN  CASE inner -> object

\* The elements start at the first word behind the vector: a loop zeroes them.
ZeroElements(array, iter, size, n) ==
  <<Move(iter, Const(0)),
    LabelAt("start_loop" \o n),
    Move(iter, BinOp("ADD", iter, Const(4))),
    CJump(BinOp("GT", iter, BinOp("MUL", Const(4), size)), "exit_loop" \o n, "dummy" \o n),
    LabelAt("dummy" \o n),
    Move(Mem(BinOp("ADD", iter, BinOp("ADD", array, Const(4)))), Const(0)),
    Jump("start_loop" \o n),
    LabelAt("exit_loop" \o n)>>

\* Length, vector and elements; the array is the address of the vector.
evalNewArray(value, n) ==
  LET size  == Temp("size" \o n)
      array == Temp("array" \o n)
  IN  ESeq(Sequence(<<Move(size, value),
                      CJump(BinOp("GEQ", size, Const(0)), "not_negative" \o n, "error" \o n)>>
                   \o OrException("error" \o n, "not_negative" \o n)
                   \o <<Move(array, makeMalloc(BinOp("ADD", BinOp("MUL", Const(4), size), Const(8)))),
                        Move(Mem(array), size),
                        Move(Mem(BinOp("ADD", array, Const(4))), Global(ArraysLabel))>>
                   \o ZeroElements(array, Temp("iter" \o n), size, n)),
           BinOp("ADD", array, Const(4)))

OutOfBounds(array, index) ==
  BinOp("OR", BinOp("LT", Temp(index), Const(0)), BinOp("GEQ", Temp(index), Length(array)))

\* Out of bounds goes back to the exception of the check for null.
evalArrayAccess(value, position, n) ==
  LET array == "array" \o n
      index == "index" \o n
  IN  ESeq(Sequence(NotNullCheck(array, value, n)
                   \o <<Move(Temp(index), position),
                        CJump(OutOfBounds(array, index), "error" \o n, "still_in_bounds" \o n),
                        LabelAt("still_in_bounds" \o n)>>),
           Mem(BinOp("ADD", Temp(array), BinOp("ADD", Const(4), BinOp("MUL", Const(4), Temp(index))))))

\* What the target has to do first, the value, and then the assignment.
evalAssignment(lhs, rhs, n) ==
  LET source == Temp("assign_src" \o n)
      target == IF lhs.kind = "ESeq" THEN lhs.expr ELSE lhs
      first  == IF lhs.kind = "ESeq" THEN lhs.stmt.stmts ELSE << >>
  IN  ESeq(Sequence(first \o <<Move(source, rhs), Move(target, source)>>), source)
-----------------------------------------------------------------------------
(***************************************************************************)
(* Evaluator::evaluateList: a stack, its top last.                         *)
(***************************************************************************)
Below(stack, k) == stack[Len(stack) - k]
Pushed(stack, count, e) == Append(SubSeq(stack, 1, Len(stack) - count), e)

\* The arguments in the order they come off the stack.
Popped(stack, count) == [k \in 1..count |-> Below(stack, k - 1)]

\* One node of the list.
Apply(program, stack, e, n, inner) ==
  LET top    == Below(stack, 0)
      second == Below(stack, 1)
      args   == Popped(stack, e.count)
      callee == Below(stack, e.count)
  IN  CASE e.node = "Unary"  -> Pushed(stack, 1, evalUnOp(e.op, top))
        [] e.node = "Binary" -> Pushed(stack, 2, evalBinOp(e.op, second, top, n))
        [] e.node = "Operation" ->
             (CASE e.op = "FieldAccess"   -> Pushed(stack, 2, evalFieldAccess(second, top, n))
                [] e.op = "ArrayAccess"   -> Pushed(stack, 2, evalArrayAccess(second, top, n))
                [] e.op = "ArrayCreation" -> Pushed(stack, 2, evalNewArray(top, n))
                [] e.op = "Assignment"    -> Pushed(stack, 2, evalAssignment(second, top, n))
                [] e.op = "MethodInvocation" ->
                     Pushed(stack, e.count + 1, evalMethodInvocation(program, callee, args, n))
                [] e.op = "ClassCreation" ->
                     Pushed(stack, e.count + 1, evalNewObject(program, callee, args, n, inner)))
        [] OTHER -> Append(stack, mapValue(e))

Converted(program, nodes, n, inner) ==
  LET step(stack, k) == Apply(program, stack, nodes[k], n \o "." \o ToString(k), inner)
  IN  FoldLeftDomain(step, << >>, nodes)[1]

evaluateList(program, e, n) == Converted(program, Rpn(e), n, TRUE)
=============================================================================
