----------------------------- MODULE CFGBuilder -----------------------------
(***************************************************************************)
(* staticCheck/cfgBuilder.cpp: from the statements of a method body to its *)
(* control flow graph, with the constant folding of loop conditions, and   *)
(* the use and def sets that liveVariableAnalysis.cpp attaches to a node.  *)
(*                                                                         *)
(* An expression is the list of its nodes in reverse Polish notation       *)
(* (ast/astNode.hpp, class Expr), each a record with a field tok.          *)
(***************************************************************************)
EXTENDS CFG, Integers, SequencesExt

CONSTANTS
  WordSize,    \* how many words the folder computes with; 2^32 in the code
  Locals,      \* names that resolve to a local variable, neither parameter nor field
  Statements,  \* the statements of the methods, those inside others included
  Depth        \* how many statements deep each of them goes

ASSUME WordSizeAssumption == WordSize \in Nat /\ WordSize > 0 /\ WordSize % 2 = 0

(* Expression nodes. *)
Name(x)   == [tok |-> "name", var |-> x]
Num(n)    == [tok |-> "num", val |-> n]
Bool(b)   == [tok |-> "bool", truth |-> b]
BinOp(op) == [tok |-> "binop", op |-> op]
UnOp(op)  == [tok |-> "unop", op |-> op]
Str       == [tok |-> "string"]
NullLit   == [tok |-> "null"]
Assign    == [tok |-> "assign"]

\* The condition of a for statement that has none: a null pointer.
NoExpr == << >>

(* Statements (ast/astNode.hpp). *)
DeclStmt(x, e)      == [kind |-> "decl", var |-> x, expr |-> e]
ExprStmt(e)         == [kind |-> "expr", expr |-> e]
ReturnStmt(e)       == [kind |-> "return", expr |-> e]
NullStmt            == [kind |-> "null"]
Block(stmts)        == [kind |-> "block", stmts |-> stmts]
IfStmt(c, s)        == [kind |-> "if", cond |-> c, body |-> s]
IfElseStmt(c, s, t) == [kind |-> "ifElse", cond |-> c, body |-> s, else |-> t]
WhileStmt(c, s)     == [kind |-> "while", cond |-> c, body |-> s]
ForStmt(init, c, update, s) ==
  [kind |-> "for", init |-> init, cond |-> c, update |-> update, body |-> s]

\* The block buildCFG appends; the graph tells it by identity from the others.
Sentinel == [kind |-> "sentinel"]

Parts(s) ==
  CASE s.kind = "block"           -> Range(s.stmts)
    [] s.kind \in {"if", "while"} -> {s.body}
    [] s.kind = "ifElse"          -> {s.body, s.else}
    [] s.kind = "for"             -> {s.init, s.update, s.body}
    [] OTHER                      -> {}

\* The syntax tree is finite; the grammar has no compound statement in the
\* first or third clause of a for statement; a declaration declares a local.
ASSUME StatementsAssumption ==
  /\ Sentinel \in Statements
  /\ Depth \in [Statements -> Nat]
  /\ \A s \in Statements :
       /\ \A t \in Parts(s) : t \in Statements /\ t # Sentinel /\ Depth[t] < Depth[s]
       /\ s.kind = "block" => s.stmts \in Seq(Statements)
       /\ s.kind = "decl" => s.var \in Locals
       /\ s.kind = "for" => {s.init.kind, s.update.kind} \subseteq {"decl", "expr", "null"}
-----------------------------------------------------------------------------
(***************************************************************************)
(* evaluateBoolConstantExpr.  The stack holds booleans and unsigned words. *)
(* A literal that is no number is taken for a boolean by its integer, null *)
(* too, whose integer is 0; a node the folder does not know makes the      *)
(* whole condition non-constant.  Three inputs bring the compiler down     *)
(* instead: a missing condition (null pointer), a string literal (its      *)
(* integer is asked for) and a zero divisor.                               *)
(***************************************************************************)
\* Mutant: values are not cut to the width of a word.
UnboundedWord(n) == [type |-> "num", val |-> n]

Word(n) == [type |-> "num", val |-> n % WordSize]
Truth(b) == [type |-> "bool", val |-> b]
NotConstant == [type |-> "none"]
Crash == [type |-> "crash"]

\* The result of an operator on two operands, in unsigned words.
FoldBinOp(op, lhs, rhs) ==
  CASE op \in {"And", "BitWiseAnd"} -> Truth(lhs.val /\ rhs.val)
    [] op \in {"Or", "BitWiseOr"}   -> Truth(lhs.val \/ rhs.val)
    [] op = "Equal"    -> Truth(lhs.val = rhs.val)
    [] op = "NotEqual" -> Truth(lhs.val # rhs.val)
    [] op = "Plus"     -> Word(lhs.val + rhs.val)
    [] op = "Minus"    -> Word(lhs.val - rhs.val)
    [] op = "Multiply" -> Word(lhs.val * rhs.val)
    [] op = "Modulo"   -> IF rhs.val = 0 THEN Crash ELSE Word(lhs.val % rhs.val)
    [] OTHER -> NotConstant

FoldUnOp(op, operand) ==
  CASE op = "Not"   -> Truth(~operand.val)
    [] op = "Minus" -> Word(-operand.val)
    [] OTHER -> NotConstant

\* One expression node against the stack.
FoldNode(st, t) ==
  LET n == Len(st)
      Ends(v) == v.type \in {"none", "crash"}
      Push(k, v) == IF Ends(v) THEN <<v>> ELSE Append(SubSeq(st, 1, n - k), v)
  IN  IF st # << >> /\ Ends(Last(st)) THEN st
      ELSE CASE t.tok = "num"   -> Push(0, Word(t.val))
             [] t.tok = "bool"  -> Push(0, Truth(t.truth))
             [] t.tok = "null"  -> Push(0, Truth(FALSE))
             [] t.tok = "binop" -> Push(2, FoldBinOp(t.op, st[n - 1], st[n]))
             [] t.tok = "unop"  -> Push(1, FoldUnOp(t.op, st[n]))
             [] t.tok = "string" -> <<Crash>>
             [] OTHER -> <<NotConstant>>

\* The stack behind the first k nodes of e.
Stacks(e) ==
  LET stack[k \in 0..Len(e)] == IF k = 0 THEN << >> ELSE FoldNode(stack[k - 1], e[k])
  IN  stack

EvaluateBoolConstantExpr(e) == IF e = NoExpr THEN Crash ELSE Last(Stacks(e)[Len(e)])

FoldsTo(e, b) == EvaluateBoolConstantExpr(e) = Truth(b)
-----------------------------------------------------------------------------
(***************************************************************************)
(* Use and def sets: precomputeExpr, precomputeExprStatement and           *)
(* precomputeVarDecl.  A name at the head of an expression that ends in an *)
(* assignment counts as its target, whatever stands between them.          *)
(***************************************************************************)
LocalsIn(e) == {e[k].var : k \in {j \in DOMAIN e : e[j].tok = "name"}} \cap Locals

AssignsName(e) == e[1].tok = "name" /\ Last(e).tok = "assign"

UseOf(s) ==
  CASE s.kind = "expr" ->
         IF AssignsName(s.expr) THEN LocalsIn(Tail(s.expr)) ELSE LocalsIn(s.expr)
    [] s.kind \in {"decl", "return"} -> LocalsIn(s.expr)
    [] s.kind \in {"if", "ifElse", "while", "for"} -> LocalsIn(s.cond)
    [] OTHER -> {}

DefOf(s) ==
  CASE s.kind = "expr" ->
         IF AssignsName(s.expr) THEN {s.expr[1].var} \cap Locals ELSE {}
    [] s.kind = "decl" -> {s.var}
    [] OTHER -> {}
-----------------------------------------------------------------------------
(***************************************************************************)
(* The builder.  Its state is the graph so far: the statement of each node *)
(* (node k is created k-th, from 1) and the edge vectors.  Null stands for *)
(* the null pointer, which addEdge ignores at either end.                  *)
(***************************************************************************)
Null == 0

EmptyGraph == [stmt |-> << >>, succ |-> << >>, pred |-> << >>]

AddNode(b, s) == [stmt |-> Append(b.stmt, s),
                  succ |-> Append(b.succ, << >>),
                  pred |-> Append(b.pred, << >>)]

Newest(b) == Len(b.stmt)

AddEdge(b, src, dst) ==
  IF Null \in {src, dst} THEN b
  ELSE [b EXCEPT !.succ[src] = Append(@, dst), !.pred[dst] = Append(@, src)]

\* What the build operators are given and what they return: the graph so far
\* and the node at which what has been built last is entered.
PartialGraphs == [stmt : Seq(Statements), succ : Seq(Seq(Nat)), pred : Seq(Seq(Nat))]
Fragments == [entry : Nat, graph : PartialGraphs]

BuildOtherStmt(s, next) ==
  LET b == AddNode(next.graph, s)
  IN  [entry |-> Newest(b), graph |-> AddEdge(b, Newest(b), next.entry)]

BuildReturnStmt(s, next) ==
  LET b == AddNode(next.graph, s) IN [entry |-> Newest(b), graph |-> b]

\* Mutant: a condition that folds to false keeps its body.
LoopEdgesKeepingBody(b, c, branch, body, successor) ==
  IF FoldsTo(c, TRUE) THEN AddEdge(b, branch, body)
  ELSE AddEdge(AddEdge(b, branch, body), branch, successor)

\* The two ways on from a loop's branch node, unless its condition folds.
LoopEdges(b, c, branch, body, successor) ==
  CASE FoldsTo(c, TRUE)  -> AddEdge(b, branch, body)
    [] FoldsTo(c, FALSE) -> AddEdge(b, branch, successor)
    [] OTHER -> AddEdge(AddEdge(b, branch, body), branch, successor)

\* The operators below take buildStmt as a function of the statement and of
\* the fragment that control goes on to.
BuildIfStmt(build, s, next) ==
  LET b1     == AddNode(next.graph, s)
      branch == Newest(b1)
      then   == build[s.body][[next EXCEPT !.graph = b1]]
      b2     == AddEdge(then.graph, branch, then.entry)
      other  == build[s.else][[next EXCEPT !.graph = b2]]
  IN  [entry |-> branch,
       graph |-> IF s.kind = "if" THEN AddEdge(b2, branch, next.entry)
                 ELSE AddEdge(other.graph, branch, other.entry)]

BuildWhileStmt(build, s, next) ==
  LET b1     == AddNode(next.graph, s)
      branch == Newest(b1)
      body   == build[s.body][[entry |-> branch, graph |-> b1]]
  IN  [entry |-> branch,
       graph |-> LoopEdges(body.graph, s.cond, branch, body.entry, next.entry)]

BuildForStmt(build, s, next) ==
  LET b1     == AddNode(next.graph, s)
      branch == Newest(b1)
      init   == build[s.init][[entry |-> branch, graph |-> b1]]
      update == build[s.update][[entry |-> branch, graph |-> init.graph]]
      body   == build[s.body][update]
  IN  [entry |-> init.entry,
       graph |-> LoopEdges(body.graph, s.cond, branch, body.entry, next.entry)]

\* Back to front: each statement is built with the one behind it as successor.
BuildStmts(build, stmts, next) ==
  LET n == Len(stmts)
      last[k \in 0..n] ==
        IF k = 0 THEN next ELSE build[stmts[n + 1 - k]][last[k - 1]]
  IN  last[n]

BuildBlock(build, s, next) ==
  IF s.stmts = << >> THEN BuildOtherStmt(s, next) ELSE BuildStmts(build, s.stmts, next)

BuildByKind(build, s, next) ==
  CASE s.kind = "block"            -> BuildBlock(build, s, next)
    [] s.kind \in {"if", "ifElse"} -> BuildIfStmt(build, s, next)
    [] s.kind = "while"            -> BuildWhileStmt(build, s, next)
    [] s.kind = "for"              -> BuildForStmt(build, s, next)
    [] s.kind = "return"           -> BuildReturnStmt(s, next)
    [] OTHER                       -> BuildOtherStmt(s, next)

BuildStmt[s \in Statements] ==
  [next \in Fragments |-> BuildByKind(BuildStmt, s, next)]

\* buildCFG, for a method with the statements stmts.  The graph keeps the
\* method it was built from.
BuildCFG(stmts, nonVoid) ==
  LET built == BuildStmts(BuildStmt, Append(stmts, Sentinel),
                          [entry |-> Null, graph |-> EmptyGraph])
      g     == built.graph
      Nodes == DOMAIN g.stmt
  IN  [nodes   |-> Nodes,
       entry   |-> built.entry,
       end     |-> CHOOSE n \in Nodes : g.stmt[n] = Sentinel,
       succ    |-> g.succ,
       pred    |-> g.pred,
       returns |-> {n \in Nodes : g.stmt[n].kind = "return"},
       decls   |-> {n \in Nodes : g.stmt[n].kind = "decl"},
       use     |-> [n \in Nodes |-> UseOf(g.stmt[n])],
       def     |-> [n \in Nodes |-> DefOf(g.stmt[n])],
       nonVoid |-> nonVoid,
       stmt    |-> g.stmt,
       body    |-> stmts,
       crashed |-> \E n \in Nodes : /\ g.stmt[n].kind \in {"while", "for"}
                                    /\ EvaluateBoolConstantExpr(g.stmt[n].cond) = Crash]
=============================================================================
