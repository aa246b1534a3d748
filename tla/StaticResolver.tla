--------------------------- MODULE StaticResolver ---------------------------
(***************************************************************************)
(* What is asked of resolved expressions: by the static resolver, when an  *)
(* expression has just been resolved (staticResolver.cpp), and when all    *)
(* are, by the validator (astValidator.cpp) and by the forward checker     *)
(* (forwardChecker.hpp).                                                   *)
(***************************************************************************)
EXTENDS ExprResolver

\* An expression as the visitor left it; expr is NoTree in a return without one.
\* at is its place, role says what it is for, type is the type it must have.
IsFieldInit(at) == units[at.unit].members[at.member].kind = "field"
InStaticContext(at) == "static" \in units[at.unit].members[at.member].mods

-----------------------------------------------------------------------------
(* The static resolver. *)

\* Is the value, by itself, an instance member named without an object?
IsInstanceVariable(tree) ==
  LET d == tree.decl IN
  /\ tree.op = "var" \/ (tree.op = "call" /\ tree.on = NoTree)
  /\ Len(d) = 2 /\ d # ArrayLength
  /\ IsClass(ClassOf(d)) /\ ~IsStatic(d)

\* The scopes of the fields of a class are nested in the order of the fields, so
\* that the initializer of one sees those before it, and none of another class.
SeesField(at, d) == d[1] = at.unit /\ d[2] < at.member

\* Mutant: the static context is not asked for.
CheckAnyInstanceVariable(at, tree, order) ==
  IsInstanceVariable(tree) /\ order /\ IsFieldInit(at) =>
    tree.op = "var" /\ SeesField(at, tree.decl)

\* checkInstanceVariable.  A method has no scope to ask for: its call in the
\* initializer of an instance field ends the compilation.
CheckInstanceVariable(at, tree, order) ==
  IsInstanceVariable(tree) =>
    /\ ~InStaticContext(at)
    /\ order /\ IsFieldInit(at) => tree.op = "var" /\ SeesField(at, tree.decl)

\* isAccessible, for an instance member of what a variable holds.
VariableClass(tree) ==
  LET type == IF tree.op = "access" THEN tree.name.type ELSE tree.type IN
  IF tree.op \in {"var", "access"} /\ type.kind = "ref" /\ IsClass(type.decl)
  THEN {type.decl} ELSE {}
AccessibleIn(at, on, d) ==
  \A c \in VariableClass(on) :
    ~IsStatic(d) /\ IsClass(ClassOf(d)) /\ ~IsPublic(d) =>
      IsSuperClass(CurrentClass(at), c) \/ SamePackage(CurrentClass(at), c)

IsFinalField(tree) ==
  LET d == IF tree.op = "access" THEN tree.name.decl ELSE tree.decl IN
  /\ tree.op \in {"var", "access"}
  /\ Len(d) = 2 /\ (d = ArrayLength \/ "final" \in Member(d).mods)

RECURSIVE StaticResolved(_, _)
\* An operand is resolved itself, and may be named where it is.
Operand(at, tree) == StaticResolved(at, tree) /\ CheckInstanceVariable(at, tree, TRUE)
Operands(at, trees) == \A i \in DOMAIN trees : Operand(at, trees[i])

MemberOn(at, on, d) == Operand(at, on) /\ AccessibleIn(at, on, d) /\ ~IsStatic(d)

StaticResolved(at, tree) ==
  CASE tree.op = "this" -> ~InStaticContext(at)
    [] tree.op = "access" -> MemberOn(at, tree.on, tree.name.decl)
    [] tree.op = "call" ->
         /\ IF tree.on = NoTree THEN CheckInstanceVariable(at, tree, TRUE)
            ELSE MemberOn(at, tree.on, tree.decl)
         /\ Operands(at, tree.args)
    [] tree.op = "new" -> Operands(at, tree.args)
    [] tree.op = "newArray" -> Operand(at, tree.size)
    [] tree.op = "index" -> Operand(at, tree.array) /\ Operand(at, tree.index)
    [] tree.op = "cast" -> Operand(at, tree.value)
    [] tree.op = "assign" ->
         /\ StaticResolved(at, tree.lhs) /\ CheckInstanceVariable(at, tree.lhs, FALSE)
         /\ ~IsFinalField(tree.lhs)
         /\ Operand(at, tree.rhs)
    [] tree.op = "bin" -> Operand(at, tree.lhs) /\ Operand(at, tree.rhs)
    [] tree.op = "un" -> Operand(at, tree.rhs)
    [] OTHER -> TRUE

\* ExprResolver::evaluate: a value, of some type or void, in its context.
Evaluates(at, result) ==
  /\ result.is = "value"
  /\ TypeOf(result.tree) # Wrong
  /\ Operand(at, result.tree)

-----------------------------------------------------------------------------
(* The validator. *)

\* validateMethod: an empty constructor needs one of the superclass that takes
\* fewer parameters, or the same.
MayCallSuper(at, ctor, super) ==
  /\ IsAccessible(at, super)
  /\ \/ Len(ParamTypes(super)) < Len(ParamTypes(ctor))
     \/ /\ Len(ParamTypes(super)) = Len(ParamTypes(ctor))
        /\ ParameterTypesApplicable(super, ParamTypes(ctor))
SuperConstructorFound(ctor) ==
  LET at == [unit |-> ctor[1], member |-> ctor[2]]
      supers == {c \in SuperClasses(ClassOf(ctor)) : Last(c) # "Object"}
      ctors == UNION {MembersOf(c, "ctor") : c \in supers}
  IN Member(ctor).body = << >> /\ supers # {} =>
       \E super \in ctors : MayCallSuper(at, ctor, super)

\* validateStmt, validateReturnStmt and validateVarDecl, for one expression and its
\* type.
ValidExpression(entry, type) ==
  LET expected == Declared(entry.at.unit, entry.type)
      fits == IsValueType(type) /\ IsAssignableTo(expected, type)
  IN CASE entry.role = "condition" -> IsBoolean(type)
       [] entry.role = "return" ->
            IF entry.expr = NoTree THEN expected = VoidType ELSE expected # VoidType /\ fits
       [] entry.role = "init" -> fits
       [] OTHER -> TRUE

-----------------------------------------------------------------------------
(* The forward checker. *)

RECURSIVE Variables(_)
\* The names of variables in a list.
Variables(tree) ==
  LET In(trees) == UNION {Variables(trees[i]) : i \in DOMAIN trees} IN
  CASE tree.op = "var" -> {tree}
    [] tree.op = "access" -> Variables(tree.on) \cup {tree.name}
    [] tree.op = "call" ->
         (IF tree.on = NoTree THEN {} ELSE Variables(tree.on)) \cup In(tree.args)
    [] tree.op = "new" -> In(tree.args)
    [] tree.op = "newArray" -> Variables(tree.size)
    [] tree.op = "index" -> Variables(tree.array) \cup Variables(tree.index)
    [] tree.op = "cast" -> Variables(tree.value)
    [] tree.op \in {"assign", "bin"} -> Variables(tree.lhs) \cup Variables(tree.rhs)
    [] tree.op = "un" -> Variables(tree.rhs)
    [] OTHER -> {}

\* checkField, for one name in the initializer of a field.  Declarations of
\* different files are not ordered.
ForwardReference(field, var) ==
  /\ ~var.byThis /\ ~var.initialized /\ ~var.notBase
  /\ ~(IsStatic(field) /\ IsStatic(var.decl))
  /\ var.decl[1] = field[1] /\ field[2] <= var.decl[2]

CheckField(entry, tree) ==
  IsFieldInit(entry.at) =>
    ~\E var \in Variables(tree) : ForwardReference(<<entry.at.unit, entry.at.member>>, var)

\* checkLocalVar.
CheckLocalVars(decls) ==
  \A i \in DOMAIN decls : decls[i].param \/ decls[i].init
=============================================================================
