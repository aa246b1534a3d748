---------------------------- MODULE JavaMeaning ----------------------------
(***************************************************************************)
(* What a program means, after the Java language: operands and arguments   *)
(* from left to right, then the operation.  A state is                     *)
(*                                                                         *)
(*   [status, value, this, locals, heap, statics, out]                     *)
(*                                                                         *)
(* status being "running", "returned" (from the method) or "exception",    *)
(* and value the value of the expression last evaluated, a word.  An       *)
(* object is a place in the heap, with its class and its words: fields, or *)
(* elements.  No object is place 0.                                        *)
(***************************************************************************)
EXTENDS Ast, Arithmetic, Functions, TLC

Runs(s)       == s.status = "running"
Valued(s, v)  == [s EXCEPT !.value = v]
Exception(s)  == [s EXCEPT !.status = "exception"]

\* What comes next does not run behind a return or an exception.
Then(s, Next(_)) == IF Runs(s) THEN Next(s) ELSE s
Require(s, condition, Next(_)) ==
  IF ~Runs(s) THEN s ELSE IF condition THEN Next(s) ELSE Exception(s)

Operated(op, x, y) ==
  CASE op = "+"  -> Word(x + y)
    [] op = "-"  -> Word(x - y)
    [] op = "*"  -> Word(Signed(x) * Signed(y))
    [] op = "/"  -> Word(Quotient(Signed(x), Signed(y)))
    [] op = "%"  -> Word(Remainder(Signed(x), Signed(y)))
    [] op = "&"  -> Flag(x = 1 /\ y = 1)
    [] op = "|"  -> Flag(x = 1 \/ y = 1)
    [] op = "==" -> Flag(x = y)
    [] op = "!=" -> Flag(x # y)
    [] op = "<"  -> Flag(Signed(x) < Signed(y))
    [] op = ">"  -> Flag(Signed(x) > Signed(y))
    [] op = "<=" -> Flag(Signed(x) <= Signed(y))
    [] op = ">=" -> Flag(Signed(x) >= Signed(y))

New(class, words, s) ==
  [s EXCEPT !.heap = Append(@, [class |-> class, words |-> words]), !.value = Len(s.heap) + 1]

Zeros(n) == [k \in 1..n |-> 0]

RECURSIVE Eval(_, _, _), EvalAll(_, _, _), Exec(_, _, _), Repeat(_, _, _, _)

\* The values of expressions, in order; Next gets the state and the values.
EvalAll(p, es, s) ==
  LET one(acc, e) == LET t == Then(acc.s, LAMBDA u : Eval(p, e, u))
                     IN  [s |-> t, values |-> Append(acc.values, t.value)]
  IN  FoldLeft(one, [s |-> s, values |-> << >>], es)

EvalBoth(p, l, r, s, Next(_, _, _)) ==
  LET both == EvalAll(p, <<l, r>>, s)
  IN  Then(both.s, LAMBDA t : Next(t, both.values[1], both.values[2]))

EvalBinary(p, e, s) ==
  CASE e.op = "&&" -> Then(Eval(p, e.left, s), LAMBDA t : IF t.value = 0 THEN t ELSE Eval(p, e.right, t))
    [] e.op = "||" -> Then(Eval(p, e.left, s), LAMBDA t : IF t.value = 1 THEN t ELSE Eval(p, e.right, t))
    [] OTHER -> EvalBoth(p, e.left, e.right, s,
                  LAMBDA t, x, y : Require(t, e.op \in {"/", "%"} => y # 0,
                                           LAMBDA u : Valued(u, Operated(e.op, x, y))))

\* A void method has the value 0.
CallMethod(p, name, this, args, s) ==
  LET method == p.methods[name]
      body   == Exec(p, method.body,
                     [s EXCEPT !.this = this, !.value = 0,
                               !.locals = [v \in Range(method.params) |->
                                             args[CHOOSE k \in DOMAIN args : method.params[k] = v]]])
  IN  IF method.native THEN [s EXCEPT !.out = Append(@, args[1] % 256)]
      ELSE [body EXCEPT !.this = s.this, !.locals = s.locals,
                        !.status = IF @ = "returned" THEN "running" ELSE @]

\* The method of the object's class that overrides the one the name means.
Overriding(p, name, this, s) ==
  LET class == CHOOSE c \in Range(p.classes) : c.name = s.heap[this].class
      Overrides(m) == name \in p.methods[m].overrides
      overriding == {m \in Range(class.vector) : m = name \/ Overrides(m)}
  IN  CHOOSE m \in overriding : \A k \in overriding : m \notin p.methods[k].overrides

EvalInvoke(p, e, s) ==
  LET static   == p.methods[e.method].kind = "static"
      receiver == IF static \/ e.object = NoNode THEN Valued(s, s.this) ELSE Eval(p, e.object, s)
  IN  Then(receiver, LAMBDA t :
        LET args == EvalAll(p, e.args, t)
        IN  Then(args.s, LAMBDA u :
              CallMethod(p, IF static THEN e.method ELSE Overriding(p, e.method, t.value, u),
                         t.value, args.values, u)))

EvalNewObject(p, e, s) ==
  LET class == CHOOSE c \in Range(p.classes) : c.name = e.class
      args  == EvalAll(p, e.args, s)
      init(t, k) ==
        IF class.fields[k] = NoNode THEN t
        ELSE Then(Eval(p, class.fields[k], t),
                  LAMBDA u : [u EXCEPT !.heap[Len(args.s.heap) + 1].words[k] = u.value])
  IN  Then(args.s, LAMBDA t :
        LET this    == Len(t.heap) + 1
            created == FoldLeftDomain(init, New(e.class, Zeros(Len(class.fields)), t), class.fields)
        IN  Then(created, LAMBDA u : Valued(CallMethod(p, e.method, this, args.values, u), this)))

EvalElement(p, e, s, Next(_, _, _)) ==
  EvalBoth(p, e.array, e.index, s,
    LAMBDA t, a, i : Require(t, a # 0, LAMBDA u :
      Require(u, i < Len(u.heap[a].words), LAMBDA v : Next(v, a, i + 1))))

EvalAssign(p, e, s) ==
  LET l == e.target
      value(t) == Eval(p, e.source, t)
      field(a, k, t) == Then(value(t), LAMBDA u : [u EXCEPT !.heap[a].words[k] = u.value])
  IN  CASE l.node \in {"Local", "Param"} ->
             Then(value(s), LAMBDA t : [t EXCEPT !.locals = (l.name :> t.value) @@ @])
        [] l.node = "StaticField" ->
             Then(value(s), LAMBDA t : [t EXCEPT !.statics[l.name] = t.value])
        [] l.node = "OwnField" -> field(s.this, l.field + 1, s)
        [] l.node = "FieldOf"  ->
             Then(Eval(p, l.object, s), LAMBDA t : field(t.value, l.field + 1, t))
        [] l.node = "Element"  ->
             EvalBoth(p, l.array, l.index, s, LAMBDA t, a, i :
               Then(value(t), LAMBDA u :
                 Require(u, a # 0, LAMBDA v :
                   Require(v, i < Len(v.heap[a].words),
                           LAMBDA w : [w EXCEPT !.heap[a].words[i + 1] = w.value]))))

Eval(p, e, s) ==
  CASE e.node = "Literal"     -> Valued(s, Word(e.value))
    [] e.node = "This"        -> Valued(s, s.this)
    [] e.node \in {"Local", "Param"} -> Valued(s, s.locals[e.name])
    [] e.node = "StaticField" -> Valued(s, s.statics[e.name])
    [] e.node = "OwnField"    -> Valued(s, s.heap[s.this].words[e.field + 1])
    [] e.node = "FieldOf"     ->
         Then(Eval(p, e.object, s), LAMBDA t : Valued(t, t.heap[t.value].words[e.field + 1]))
    [] e.node = "LengthOf"    ->
         LET a == Eval(p, e.object, s)
         IN  Require(a, a.value # 0, LAMBDA t : Valued(t, Len(t.heap[t.value].words)))
    [] e.node = "Unary"       ->
         Then(Eval(p, e.operand, s), LAMBDA t :
           Valued(t, CASE e.op = "+" -> t.value [] e.op = "-" -> Word(-t.value) [] e.op = "!" -> 1 - t.value))
    [] e.node = "Binary"      -> EvalBinary(p, e, s)
    [] e.node = "Invoke"      -> EvalInvoke(p, e, s)
    [] e.node = "NewObject"   -> EvalNewObject(p, e, s)
    [] e.node = "NewArray"    ->
         LET n == Eval(p, e.size, s)
         IN  Require(n, Signed(n.value) >= 0, LAMBDA t : New("int[]", Zeros(t.value), t))
    [] e.node = "Element"     ->
         EvalElement(p, e, s, LAMBDA t, a, k : Valued(t, t.heap[a].words[k]))
    [] e.node = "Assign"      -> EvalAssign(p, e, s)
-----------------------------------------------------------------------------
Repeat(p, condition, body, s) ==
  Then(Eval(p, condition, s), LAMBDA t :
    IF t.value = 0 THEN t
    ELSE Then(Exec(p, body, t), LAMBDA u : Repeat(p, condition, body, u)))

Exec(p, st, s) ==
  CASE st.node = "Block" ->
         LET one(t, x) == Then(t, LAMBDA u : Exec(p, x, u)) IN FoldLeft(one, s, st.stmts)
    [] st.node = "If" ->
         Then(Eval(p, st.condition, s), LAMBDA t : Exec(p, IF t.value = 1 THEN st.body ELSE st.elseBody, t))
    [] st.node = "While" -> Repeat(p, st.condition, st.body, s)
    [] st.node = "For" ->
         Then(Exec(p, st.init, s), LAMBDA t :
           Repeat(p, st.condition, Block(<<st.body, st.update>>), t))
    [] st.node = "Return" ->
         Then(IF st.expr = NoNode THEN s ELSE Eval(p, st.expr, s),
              LAMBDA t : [t EXCEPT !.status = "returned"])
    [] st.node = "ExprStmt" -> Eval(p, st.expr, s)
    [] st.node = "Decl" -> Exec(p, ExprStmt(Assign(Local(st.name), st.init)), s)
    [] st.node \in {"Null", "none"} -> s

\* The static fields are initialised class by class, then the entry is called.
\* What a program does: its output, and the value it ends with, unless an
\* exception ends it.
Meaning(p) ==
  LET statics == FlattenSeq([k \in DOMAIN p.classes |-> p.classes[k].statics])
      nothing == [status |-> "running", value |-> 0, this |-> 0, locals |-> << >>, heap |-> << >>,
                  statics |-> [f \in {statics[k][1] : k \in DOMAIN statics} |-> 0], out |-> << >>]
      init(t, f) == IF f[2] = NoNode THEN t
                    ELSE Then(t, LAMBDA u : Eval(p, Assign(StaticField(f[1]), f[2]), u))
      end == Then(FoldLeft(init, nothing, statics), LAMBDA t : CallMethod(p, p.entry, 0, << >>, t))
  IN  [out |-> end.out, exit |-> <<[raised |-> ~Runs(end), value |-> IF Runs(end) THEN end.value ELSE 0]>>]
=============================================================================
