-------------------------------- MODULE Ast --------------------------------
(***************************************************************************)
(* The syntax trees the IR converter starts from, names being resolved:    *)
(* a field is its offset in the objects that have it, a method its name in *)
(* the program's table.  Strings, casts, instanceof and interfaces are     *)
(* left out.  An expression is stored in reverse Polish notation           *)
(* (parseTree/expressionVisitor.cpp).                                      *)
(*                                                                         *)
(*   program  [classes, methods, entry]: the classes in the order of the   *)
(*            command line, the methods by name, the name of A.test        *)
(*   class    [name, fields, statics, methods, vector]: the initialisers   *)
(*            of the fields in the order of their offsets, inherited ones  *)
(*            included; <<name, initialiser>> of the static fields; the    *)
(*            methods declared; the methods the dispatch vector has, those *)
(*            a superclass has and the class overrides among them          *)
(*   method   [kind, native, params, body, slot, overrides]: slot is its   *)
(*            colour; overrides, the methods it overrides, is not used by  *)
(*            the compiler                                                 *)
(***************************************************************************)
EXTENDS Naturals, Sequences, SequencesExt

NoNode == [node |-> "none"]

Literal(n)          == [node |-> "Literal", value |-> n]
This                == [node |-> "This"]
Local(v)            == [node |-> "Local", name |-> v]
Param(v)            == [node |-> "Param", name |-> v]
StaticField(f)      == [node |-> "StaticField", name |-> f]
OwnField(f)         == [node |-> "OwnField", field |-> f]
FieldOf(x, f)       == [node |-> "FieldOf", object |-> x, field |-> f]
LengthOf(x)         == [node |-> "LengthOf", object |-> x]
Unary(op, e)        == [node |-> "Unary", op |-> op, operand |-> e]
Binary(l, op, r)    == [node |-> "Binary", op |-> op, left |-> l, right |-> r]
Invoke(m, args)     == [node |-> "Invoke", object |-> NoNode, method |-> m, args |-> args]
InvokeOn(x, m, args) == [node |-> "Invoke", object |-> x, method |-> m, args |-> args]
NewObject(c, m, args) == [node |-> "NewObject", class |-> c, method |-> m, args |-> args]
NewArray(size)      == [node |-> "NewArray", size |-> size]
Element(a, i)       == [node |-> "Element", array |-> a, index |-> i]
Assign(l, r)        == [node |-> "Assign", target |-> l, source |-> r]

Block(stmts)        == [node |-> "Block", stmts |-> stmts]
If(c, s, t)         == [node |-> "If", condition |-> c, body |-> s, elseBody |-> t]
While(c, s)         == [node |-> "While", condition |-> c, body |-> s]
For(i, c, u, s)     == [node |-> "For", init |-> i, condition |-> c, update |-> u, body |-> s]
ReturnStmt(e)       == [node |-> "Return", expr |-> e]
ExprStmt(e)         == [node |-> "ExprStmt", expr |-> e]
Decl(v, e)          == [node |-> "Decl", name |-> v, init |-> e]
NullStmt            == [node |-> "Null"]

Method(kind, params, body, slot) ==
  [kind |-> kind, native |-> FALSE, params |-> params, body |-> body, slot |-> slot,
   overrides |-> {}]

\* java.io.OutputStream.nativeWrite
NativeWrite == [Method("static", <<"b">>, NullStmt, 0) EXCEPT !.native = TRUE]
-----------------------------------------------------------------------------
(***************************************************************************)
(* The nodes of the notation that are not trees of their own.              *)
(***************************************************************************)
MemberName(f)       == [node |-> "MemberName", field |-> f]
LengthName          == [node |-> "LengthName"]
MethodName(m)       == [node |-> "MethodName", method |-> m]
TypeNode(c, m)      == [node |-> "TypeNode", class |-> c, method |-> m]
Operation(op, n)    == [node |-> "Operation", op |-> op, count |-> n]

FieldAccess         == Operation("FieldAccess", 0)

RECURSIVE Rpn(_)

visitArgumentList(args) == FlattenSeq([k \in DOMAIN args |-> Rpn(args[k])])

visitMethodInvocation(e) ==
  (IF e.object = NoNode THEN <<MethodName(e.method)>>
   ELSE Rpn(e.object) \o <<MethodName(e.method), FieldAccess>>)
  \o visitArgumentList(e.args) \o <<Operation("MethodInvocation", Len(e.args))>>

Rpn(e) ==
  CASE e.node = "FieldOf"   -> Rpn(e.object) \o <<MemberName(e.field), FieldAccess>>
    [] e.node = "LengthOf"  -> Rpn(e.object) \o <<LengthName, FieldAccess>>
    [] e.node = "Unary"     -> Rpn(e.operand) \o <<[e EXCEPT !.operand = NoNode]>>
    [] e.node = "Binary"    -> Rpn(e.left) \o Rpn(e.right)
                                 \o <<[e EXCEPT !.left = NoNode, !.right = NoNode]>>
    [] e.node = "Invoke"    -> visitMethodInvocation(e)
    [] e.node = "NewObject" -> <<TypeNode(e.class, e.method)>> \o visitArgumentList(e.args)
                                 \o <<Operation("ClassCreation", Len(e.args))>>
    [] e.node = "NewArray"  -> <<TypeNode("int[]", "")>> \o Rpn(e.size) \o <<Operation("ArrayCreation", 0)>>
    [] e.node = "Element"   -> Rpn(e.array) \o Rpn(e.index) \o <<Operation("ArrayAccess", 0)>>
    [] e.node = "Assign"    -> Rpn(e.target) \o Rpn(e.source) \o <<Operation("Assignment", 0)>>
    [] OTHER                -> <<e>>
=============================================================================
