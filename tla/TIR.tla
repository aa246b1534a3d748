-------------------------------- MODULE TIR --------------------------------
(***************************************************************************)
(* include/tir: the nodes of the intermediate representation, as records.  *)
(* Comment nodes are left out: they end up as comments of the assembly.    *)
(***************************************************************************)
EXTENDS Naturals, Sequences, SequencesExt

Const(n)            == [kind |-> "Const", value |-> n]
Temp(name)          == [kind |-> "Temp", name |-> name, isGlobal |-> FALSE]
Global(name)        == [kind |-> "Temp", name |-> name, isGlobal |-> TRUE]
Name(label)         == [kind |-> "Name", name |-> label]
Mem(address)        == [kind |-> "Mem", address |-> address]
BinOp(op, l, r)     == [kind |-> "BinOp", op |-> op, left |-> l, right |-> r]
ESeq(stmt, expr)    == [kind |-> "ESeq", stmt |-> stmt, expr |-> expr]
CallOf(target, args) == [kind |-> "Call", target |-> target, args |-> args]

Move(target, source) == [kind |-> "Move", target |-> target, source |-> source]
Exp(expr)            == [kind |-> "Exp", expr |-> expr]
Jump(label)          == [kind |-> "Jump", target |-> Name(label)]
CJump(condition, t, f) == [kind |-> "CJump", condition |-> condition,
                           trueLabel |-> t, falseLabel |-> f]
LabelAt(name)        == [kind |-> "Label", name |-> name]
Return(expr)         == [kind |-> "Return", ret |-> expr]
CallStmt(call)       == [kind |-> "CallStmt", call |-> call]
Nothing              == [kind |-> "null"]

\* A sequence drops the null pointers it is given.
Sequence(stmts) == [kind |-> "Seq", stmts |-> SelectSeq(stmts, LAMBDA s : s # Nothing)]

makeNegate(e) == BinOp("EQ", e, Const(0))

\* The arguments come off a stack: with a receiver, they are turned round.
makeExpr(target, this, args) ==
  CallOf(target, IF this = Nothing THEN args ELSE <<this>> \o Reverse(args))

makeMalloc(size) == makeExpr(Name("__malloc"), Nothing, <<size>>)
makeException    == makeExpr(Name("__exception"), Nothing, << >>)

kAbstractReturn       == "_RET"
kAbstractArg(n)       == "_ARG" \o ToString(n)
=============================================================================
