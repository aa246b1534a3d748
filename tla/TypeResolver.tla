---------------------------- MODULE TypeResolver ----------------------------
(***************************************************************************)
(* The types of expressions (typeResolver.cpp) over a linked program, and  *)
(* the relations between types that the resolver, the static checks and    *)
(* the validator ask for.                                                  *)
(*                                                                         *)
(* A declared type is named by the path of its declaration in the symbol   *)
(* table.  In the units of a program a reference type of a declaration is  *)
(* the position of its name in "uses", which the type linker has resolved; *)
(* one within an expression is still a name.  Resolved expressions are     *)
(* trees: the code keeps them as lists in reverse Polish order.            *)
(***************************************************************************)
EXTENDS TypeLinker

IntType == [kind |-> "int"]
BooleanType == [kind |-> "boolean"]
StringType == [kind |-> "string"]
NullType == [kind |-> "null"]
VoidType == [kind |-> "void"]
Ref(path) == [kind |-> "ref", decl |-> path]
ArrayOf(type) == [kind |-> "array", of |-> type]

\* Where the code throws, or reads through the null pointer that stands for void.
Wrong == [kind |-> "wrong"]

ObjectClass == <<"java", "lang", "Object">>
StringClass == <<"java", "lang", "String">>
Cloneable == <<"java", "lang", "Cloneable">>
Serializable == <<"java", "io", "Serializable">>

UnitOf(path) == CHOOSE k \in DOMAIN units : TypeName(units[k]) = path
DeclOf(path) == units[UnitOf(path)]
IsClass(path) == DeclOf(path).kind = "class"
IsInterface(path) == DeclOf(path).kind = "interface"

\* A type as a declaration of unit k writes it.
Declared(k, type) ==
  CASE type.kind = "ref" -> Ref(links[k][type.use])
    [] type.kind = "array" /\ type.of.kind = "ref" -> ArrayOf(Ref(links[k][type.of.use]))
    [] OTHER -> type

\* ClassDecl::getSuperClasses: the class named after extends, and Object.
SuperClasses(path) ==
  LET u == DeclOf(path) IN
  IF u.kind # "class" \/ path = ObjectClass THEN {}
  ELSE {ObjectClass} \cup (IF u.extends = 0 THEN {} ELSE {links[UnitOf(path)][u.extends]})

SuperInterfaces(path) ==
  LET u == DeclOf(path) IN
  [i \in DOMAIN u.interfaces |-> links[UnitOf(path)][u.interfaces[i]]]

RECURSIVE SuperClassesOf(_), SuperInterfacesOf(_)
SuperClassesOf(path) ==
  SuperClasses(path) \cup UNION {SuperClassesOf(c) : c \in SuperClasses(path)}
SuperInterfacesOf(path) ==
  LET own == {SuperInterfaces(path)[i] : i \in DOMAIN SuperInterfaces(path)} IN
  own \cup UNION {SuperInterfacesOf(t) : t \in own \cup SuperClasses(path)}

IsSuperClass(super, child) == super \in SuperClassesOf(child)
IsSuperInterface(super, child) == super \in SuperInterfacesOf(child)

IsNumeric(type) == type.kind \in {"int", "char", "short", "byte"}
IsBoolean(type) == type.kind = "boolean"
\* Type::isString goes by the simple name of a class.
IsString(type) == type = StringType \/ (type.kind = "ref" /\ Last(type.decl) = "String")
IsTypeString(type) == IsString(type) \/ type = Ref(StringClass)
IsReferenceOrArrType(type) == type.kind \in {"ref", "array"} \/ IsString(type)
IsWiderThan(type, other) ==
  \/ type.kind = "int" /\ other.kind \in {"char", "short", "byte"}
  \/ type.kind = "short" /\ other.kind = "byte"

RefAssignable(lhs, rhs) ==
  \/ IsSuperClass(lhs, rhs) \/ IsSuperInterface(lhs, rhs)
  \/ IsInterface(rhs) /\ lhs = ObjectClass

RECURSIVE IsAssignableTo(_, _)
ArrayAssignable(lhs, rhs) ==
  \/ /\ lhs.kind = "array" /\ lhs.of.kind = "ref" /\ rhs.of.kind = "ref"
     /\ IsAssignableTo(lhs.of, rhs.of)
  \/ lhs.kind = "ref" /\ lhs.decl \in {ObjectClass, Cloneable, Serializable}

\* Mutant: the operands the other way round where both are references.
IsAssignableFrom(lhs, rhs) ==
  IF lhs.kind = "ref" /\ rhs.kind = "ref"
  THEN lhs = rhs \/ RefAssignable(rhs.decl, lhs.decl)
  ELSE lhs = rhs \/ IsWiderThan(lhs, rhs) \/ rhs = NullType

\* May a value of type rhs be assigned to a variable of type lhs?  A String that
\* is not a reference to a declaration is compared through java.lang.String, and
\* what is assigned to a String must be one, or null.
IsAssignableTo(lhs, rhs) ==
  \/ lhs = rhs
  \/ IsTypeString(lhs) /\ IsTypeString(rhs)
  \/ IF IsString(rhs)
     THEN /\ lhs.kind = "ref"
          /\ IsSuperClass(lhs.decl, StringClass) \/ IsSuperInterface(lhs.decl, StringClass)
     ELSE \/ IsWiderThan(lhs, rhs)
          \/ rhs = NullType /\ IsReferenceOrArrType(lhs)
          \/ /\ lhs.kind = "ref" /\ rhs.kind = "ref" /\ ~IsString(lhs)
             /\ RefAssignable(lhs.decl, rhs.decl)
          \/ rhs.kind = "array" /\ ArrayAssignable(lhs, rhs)

\* A class and an interface that it does not implement: a subclass may, unless
\* the class is final.
MayMeet(one, other) ==
  /\ IsInterface(one)
  /\ IsInterface(other) \/ "final" \notin DeclOf(other).mods

RECURSIVE IsValidCast(_, _)
IsValidCast(expr, cast) ==
  \/ expr = NullType
  \/ IsAssignableTo(expr, cast) \/ IsAssignableTo(cast, expr)
  \/ IsNumeric(expr) /\ IsNumeric(cast)
  \/ /\ expr.kind = "ref" /\ cast.kind = "ref"
     /\ MayMeet(expr.decl, cast.decl) \/ MayMeet(cast.decl, expr.decl)
  \/ /\ expr.kind = "array" /\ cast.kind = "array"
     /\ expr.of.kind = "ref" /\ cast.of.kind = "ref"
     /\ IsValidCast(expr.of, cast.of)

-----------------------------------------------------------------------------
(* Expressions. *)

RefOrNull(type) == type = NullType \/ type.kind = "ref"

BinOpIsLegal(kind, lhs, rhs) ==
  \/ kind \in {"compare", "equal", "add", "arith"} /\ IsNumeric(lhs) /\ IsNumeric(rhs)
  \/ kind \in {"equal", "logic"} /\ IsBoolean(lhs) /\ IsBoolean(rhs)
  \/ /\ kind = "equal"
     /\ \/ IsString(lhs) /\ IsString(rhs)
        \/ /\ RefOrNull(lhs) /\ RefOrNull(rhs)
           /\ IsValidCast(lhs, rhs) \/ IsValidCast(rhs, lhs)
  \/ kind = "add" /\ (IsTypeString(lhs) \/ IsTypeString(rhs))
  \/ /\ kind = "instanceof"
     /\ lhs = NullType \/ IsReferenceOrArrType(lhs)
     /\ IsReferenceOrArrType(rhs) /\ IsValidCast(rhs, lhs)

BinOpResult(kind, lhs, rhs) ==
  IF kind \in {"compare", "equal", "logic", "instanceof"} THEN BooleanType
  ELSE IF kind = "add" /\ (IsTypeString(lhs) \/ IsTypeString(rhs)) THEN StringType
  ELSE IntType

EvalUnOp(kind, rhs) ==
  CASE kind = "minus" /\ IsNumeric(rhs) -> IntType
    [] kind = "not" /\ IsBoolean(rhs) -> BooleanType
    [] OTHER -> Wrong

\* A member of a class is its unit and its place there; a local variable has its
\* place among its method's as well.  The length of arrays is in no unit.
ArrayLength == <<0, 0>>
Member(d) == units[d[1]].members[d[2]]
ParamTypes(d) ==
  [i \in DOMAIN Member(d).params |-> Declared(d[1], Member(d).params[i].type)]
ResultType(d) ==
  IF Member(d).kind = "ctor" THEN Ref(TypeName(units[d[1]]))
  ELSE Declared(d[1], Member(d).type)
FieldType(d) == IF d = ArrayLength THEN IntType ELSE Declared(d[1], Member(d).type)

NoTree == [op |-> "none"]
IsValueType(type) == type.kind \notin {"void", "wrong"}

\* evalMethodInvocation, evalNewObject.
EvalInvocation(d, args) ==
  IF /\ Len(args) = Len(ParamTypes(d))
     /\ \A i \in DOMAIN args : IsValueType(args[i]) /\ IsAssignableTo(ParamTypes(d)[i], args[i])
  THEN ResultType(d) ELSE Wrong

IfLegal(legal, type) == IF legal THEN type ELSE Wrong

RECURSIVE TypeOf(_)
TypesOf(args) == [i \in DOMAIN args |-> TypeOf(args[i])]

BinOpType(kind, lhs, rhs) ==
  IfLegal(IsValueType(lhs) /\ IsValueType(rhs) /\ BinOpIsLegal(kind, lhs, rhs),
          BinOpResult(kind, lhs, rhs))
IndexType(array, index) ==
  IF array.kind = "array" /\ IsNumeric(index) THEN array.of ELSE Wrong
CastType(type, value) ==
  IfLegal(IsValueType(value) /\ IsValidCast(value, type), type)
AssignmentType(lhs, rhs) ==
  IfLegal(IsValueType(lhs) /\ IsValueType(rhs) /\ IsAssignableTo(lhs, rhs), lhs)

\* EvalList.  Variables, literals and types carry their types.
TypeOf(tree) ==
  CASE tree.op = "access" -> IfLegal(IsValueType(TypeOf(tree.on)), tree.name.type)
    [] tree.op = "call" ->
         IfLegal(tree.on = NoTree \/ IsValueType(TypeOf(tree.on)),
                 EvalInvocation(tree.decl, TypesOf(tree.args)))
    [] tree.op = "new" -> EvalInvocation(tree.decl, TypesOf(tree.args))
    [] tree.op = "newArray" -> IfLegal(IsNumeric(TypeOf(tree.size)), tree.type)
    [] tree.op = "index" -> IndexType(TypeOf(tree.array), TypeOf(tree.index))
    [] tree.op = "cast" -> CastType(tree.type, TypeOf(tree.value))
    [] tree.op = "assign" -> AssignmentType(TypeOf(tree.lhs), TypeOf(tree.rhs))
    [] tree.op = "bin" -> BinOpType(tree.kind, TypeOf(tree.lhs), TypeOf(tree.rhs))
    [] tree.op = "un" -> EvalUnOp(tree.kind, TypeOf(tree.rhs))
    [] OTHER -> tree.type
=============================================================================
