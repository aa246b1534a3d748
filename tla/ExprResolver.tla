---------------------------- MODULE ExprResolver ----------------------------
(***************************************************************************)
(* The expression resolver (exprResolver.cpp): what the names, the calls   *)
(* and the object creations of an expression refer to.                     *)
(*                                                                         *)
(* Resolve(at, expr) is what the evaluation of expr leaves on the stack: a *)
(* package, a type, a value with its resolved tree, or nothing, where the  *)
(* code throws or crashes.  at is the place of the expression: its unit    *)
(* and member, its scope number, and the order in which the inherited      *)
(* methods come out of their unordered_map.                                *)
(***************************************************************************)
EXTENDS TypeResolver, LocalScopes

VARIABLE
  locals    \* of each method the declarations it was built with

No == [is |-> "no"]
Package(path) == [is |-> "package", path |-> path]
Type(path) == [is |-> "type", path |-> path]
Value(tree) == [is |-> "value", tree |-> tree]
IfFound(found, result) == IF found THEN result ELSE No

CurrentClass(at) == TypeName(units[at.unit])
IsStatic(d) == d # ArrayLength /\ "static" \in Member(d).mods
IsPublic(d) == d = ArrayLength \/ "public" \in Member(d).mods
ClassOf(d) == TypeName(units[d[1]])
SamePackage(path, other) == Front(path) = Front(other)
MembersOf(path, kind) ==
  {<<UnitOf(path), m>> : m \in {i \in DOMAIN DeclOf(path).members :
                                   DeclOf(path).members[i].kind = kind}}

IsAccessible(at, d) ==
  \/ IsPublic(d)
  \/ IsSuperClass(ClassOf(d), CurrentClass(at))
  \/ SamePackage(ClassOf(d), CurrentClass(at))

\* resolveType, for the types written in expressions.
ResolvedType(at, type) ==
  LET Target1(name) == Target(contexts[at.unit][Head(name)], name)
      Known(name) == Resolves(contexts[at.unit][Head(name)], name)
  IN CASE type.kind = "ref" ->
            IF Known(type.name) THEN Ref(Target1(type.name)) ELSE Wrong
       [] type.kind = "array" /\ type.of.kind = "ref" ->
            IF Known(type.of.name) THEN ArrayOf(Ref(Target1(type.of.name))) ELSE Wrong
       [] OTHER -> type

-----------------------------------------------------------------------------
(* Names. *)

\* resolveAST leaves the context at the last code body it went into: a field that
\* comes after a method is resolved in the context of that method.
ContextOf(at) ==
  LET bodies == {m \in 1..at.member : units[at.unit].members[m].kind # "field"}
  IN IF bodies = {} THEN 0 ELSE Max(bodies)

\* canView, for a scope of the context's own or, where the context is left over,
\* for that of a field's initializer, which shares no scope with any method.
Views(at, local) ==
  IF ContextOf(at) = at.member THEN CanView(at.scope, local.scope)
  ELSE Len(local.scope) = 1 /\ Head(at.scope) >= Head(local.scope)

VisibleLocals(at, id) ==
  LET m == ContextOf(at) IN
  IF m = 0 THEN {}
  ELSE {i \in DOMAIN locals[at.unit][m] :
          locals[at.unit][m][i].name = id /\ Views(at, locals[at.unit][m][i])}

\* HierarchyCheck::sanitizedSuperClasses, up to the root.
RECURSIVE Sanitized(_)
Sanitized(path) ==
  LET supers == {c \in SuperClasses(path) : Last(c) # "Object"} IN
  supers \cup UNION {Sanitized(c) : c \in supers}

HiddenBy(d, e) == ClassOf(e) \in Sanitized(ClassOf(d))

\* getInheritedFields: of the fields of a name the topmost one.
InheritedFields(path) ==
  LET all == UNION {MembersOf(c, "field") : c \in Sanitized(path)} IN
  {d \in all : ~\E e \in all : Member(e).name = Member(d).name /\ HiddenBy(d, e)}

\* lookupNamedDecl in a class: its own fields, up to the one that is sought, and
\* then all it inherits.  A protected field on the way that may not be accessed
\* ends the compilation, whatever its name.
Named(ds, id) == {d \in ds : Member(d).name = id}
FieldsMet(path, id) ==
  LET own == MembersOf(path, "field") IN
  IF Named(own, id) = {} THEN own \cup InheritedFields(path)
  ELSE {d \in own : \A e \in Named(own, id) : d[2] <= e[2]}
FindField(at, path, id) ==
  IF \E d \in FieldsMet(path, id) : ~IsAccessible(at, d) THEN {}
  ELSE Named(FieldsMet(path, id), id)

Var(d, type) ==
  [op |-> "var", decl |-> d, type |-> type,
   byThis |-> FALSE, notBase |-> FALSE, initialized |-> FALSE]
FieldVar(d) == Var(d, FieldType(d))
LocalVar(at, i) ==
  Var(<<at.unit, ContextOf(at), i>>,
      Declared(at.unit, locals[at.unit][ContextOf(at)][i].type))

\* reclassifyDecl, then resolveMemberName.
ResolveName(at, id) ==
  LET visible == VisibleLocals(at, id)
      field == FindField(at, CurrentClass(at), id)
      met == FieldsMet(CurrentClass(at), id)
      entry == contexts[at.unit][id]
  IN IF visible # {} THEN Value(LocalVar(at, Min(visible)))
     ELSE IF field # {} THEN Value(FieldVar(CHOOSE d \in field : TRUE))
     ELSE IF (\E d \in met : ~IsAccessible(at, d)) \/ entry \in {Absent, Ambiguous} THEN No
     ELSE IF entry \in types THEN Type(entry) ELSE Package(entry)

-----------------------------------------------------------------------------
(* Field accesses. *)

ResolvePackageAccess(path, id) ==
  LET child == Append(path, id) IN
  IF child \in types THEN Type(child) ELSE IfFound(child \in packages, Package(child))

StaticField(at, field) ==
  LET d == CHOOSE f \in field : TRUE IN
  IfFound(/\ field # {}
          /\ IsStatic(d)
          /\ \/ IsPublic(d) \/ ClassOf(d) = CurrentClass(at)
             \/ IsSuperClass(ClassOf(d), CurrentClass(at)),
          Value([FieldVar(d) EXCEPT !.notBase = TRUE]))
ResolveTypeAccess(at, path, id) ==
  StaticField(at, IF IsClass(path) THEN FindField(at, path, id) ELSE {})

\* GetTypeAsDecl: where the members of a value of a type are looked for.
HasMembers(type) == type.kind \in {"ref", "string"}
MembersIn(type) == IF type = StringType THEN StringClass ELSE type.decl

\* resolveFieldAccess, on a value.
FieldOfValue(at, type, id) ==
  IF type.kind = "array" THEN (IF id = "length" THEN {ArrayLength} ELSE {})
  ELSE IF HasMembers(type) /\ IsClass(MembersIn(type))
  THEN FindField(at, MembersIn(type), id) ELSE {}

Access(tree, field, byThis) ==
  LET name == [FieldVar(CHOOSE d \in field : TRUE) EXCEPT !.byThis = byThis, !.notBase = TRUE]
  IN IfFound(field # {}, Value([op |-> "access", on |-> tree, name |-> name]))
ResolveFieldAccess(at, tree, id, byThis) ==
  Access(tree, FieldOfValue(at, TypeOf(tree), id), byThis)

\* evalFieldAccess; a field is accessed "by this" also where the name of the
\* class, or of a variable of that name, comes before it.
EvalFieldAccess(at, prev, of, id) ==
  LET byThis == of.op = "this" \/ (of.op = "name" /\ of.id = units[at.unit].class)
      bare == of.op = "literal" /\ of.type # StringType
  IN CASE prev.is = "package" -> ResolvePackageAccess(prev.path, id)
       [] prev.is = "type" -> ResolveTypeAccess(at, prev.path, id)
       [] prev.is = "value" /\ ~bare -> ResolveFieldAccess(at, prev.tree, id, byThis)
       [] OTHER -> No

-----------------------------------------------------------------------------
(* Methods and constructors. *)

Simple(type) == IF type.kind = "ref" THEN <<Last(type.decl)>> ELSE <<type.kind>>
SimpleName(type) == IF type.kind = "array" THEN Append(Simple(type.of), "[]") ELSE Simple(type)
Signature(d) ==
  <<Member(d).name, [i \in DOMAIN ParamTypes(d) |-> SimpleName(ParamTypes(d)[i])]>>
IsAbstract(d) == "abstract" \in Member(d).mods

OwnMethods(path) == SetToSortSeq(MembersOf(path, "method"), LAMBDA c, d : c[2] < d[2])

\* The methods in the order in which getInheritedMethods meets them.
RECURSIVE MethodsMet(_)
MethodsMet(path) ==
  LET Met(t) == MethodsMet(t)
      above == SetToSeq({c \in SuperClasses(path) : Last(c) # "Object"})
  IN FlattenSeq([i \in DOMAIN SuperInterfaces(path) |-> Met(SuperInterfaces(path)[i])])
     \o FlattenSeq([i \in DOMAIN above |-> Met(above[i])])
     \o OwnMethods(path)

\* Its two maps as one: of a signature the first method with a body, or the
\* first of all where none has one.
FirstOfEach(met) ==
  LET Rivals(i) == {j \in DOMAIN met : Signature(met[j]) = Signature(met[i])}
      bodies(i) == {j \in Rivals(i) : ~IsAbstract(met[j])}
      FirstOf(i) == Min(IF bodies(i) # {} THEN bodies(i) ELSE Rivals(i))
  IN {met[FirstOf(i)] : i \in DOMAIN met}
Inherited(path) == FirstOfEach(MethodsMet(path))

\* Mutant: any argument will do.
AnyTypesApplicable(d, args) == TRUE
\* areParameterTypesApplicable asks whether the parameter can be assigned to
\* the argument.
ParameterTypesApplicable(d, args) ==
  \A i \in DOMAIN args : IsAssignableTo(args[i], ParamTypes(d)[i])

\* isMethodMoreSpecific, by the parameters and the declaring types.
MoreSpecific(d, e) ==
  /\ IsAssignableTo(Ref(ClassOf(e)), Ref(ClassOf(d)))
  /\ \A i \in DOMAIN ParamTypes(d) : IsAssignableTo(ParamTypes(d)[i], ParamTypes(e)[i])

\* The choice among candidates, in their order; {} if it is ambiguous.
MostSpecific(candidates) ==
  LET best == FoldLeft(LAMBDA b, d : IF MoreSpecific(d, b) THEN d ELSE b,
                       Head(candidates), Tail(candidates))
      all == {candidates[i] : i \in DOMAIN candidates}
      ties == {d \in all : MoreSpecific(d, best) /\ MoreSpecific(best, d)}
  IN IF ties \subseteq {best} THEN {best} ELSE {}

Choice(candidates) == IF candidates = << >> THEN {} ELSE MostSpecific(candidates)

\* resolveMethodOverload, for a method of a class or an interface.
ResolveMethodOverload(at, path, id, args) ==
  LET inherited == Inherited(path)
      \* the map, in the order that this run's hash gives it
      map == SelectSeq(at.order, LAMBDA d : d \in inherited)
             \o SetToSeq(inherited \ Range(at.order))
      Candidate(d) ==
        /\ Member(d).name = id /\ Len(Member(d).params) = Len(args)
        /\ ParameterTypesApplicable(d, args)
        /\ ClassOf(d) = path \/ IsAccessible(at, d)
  IN Choice(SelectSeq(OwnMethods(path) \o map, Candidate))

\* The same for the constructors of a class.  A protected one of another package
\* that can be accessed ends the compilation.
ResolveConstructorOverload(at, path, args) ==
  LET reached == {d \in MembersOf(path, "ctor") :
                    Len(Member(d).params) = Len(args) /\ IsAccessible(at, d)}
      denied == \E d \in reached : ~IsPublic(d) /\ ~SamePackage(path, CurrentClass(at))
      applicable == {d \in reached : ParameterTypesApplicable(d, args)}
  IN IF denied THEN {}
     ELSE Choice(SetToSortSeq(applicable, LAMBDA c, d : c[2] < d[2]))

AllValues(results) == \A r \in results : r.is = "value"
AllValueTypes(argTypes) == \A i \in DOMAIN argTypes : IsValueType(argTypes[i])
TreesOf(args) == [i \in DOMAIN args |-> args[i].tree]

\* Where a call looks for its method: prev is what stands before the name, if
\* anything does.
MembersOn(type) == IF HasMembers(type) THEN {MembersIn(type)} ELSE {}
MethodParent(at, single, prev) ==
  CASE single -> {CurrentClass(at)}
    [] ~single /\ prev.is = "type" -> {prev.path}
    [] ~single /\ prev.is = "value" -> MembersOn(TypeOf(prev.tree))
    [] OTHER -> {}

\* evalMethodInvocation, once its parts are resolved.
MethodIn(at, paths, id, argTypes) ==
  IF AllValueTypes(argTypes)
  THEN UNION {ResolveMethodOverload(at, path, id, argTypes) : path \in paths} ELSE {}
CallTo(at, single, prev, method, trees) ==
  LET d == CHOOSE m \in method : TRUE IN
  IfFound(/\ method # {} /\ IsAccessible(at, d)
          /\ single => ~IsStatic(d)
          /\ ~single /\ prev.is = "type" => IsStatic(d),
    Value([op |-> "call", decl |-> d, args |-> trees,
           on |-> IF ~single /\ prev.is = "value" THEN prev.tree ELSE NoTree]))
CallOf(at, single, prev, id, args) ==
  IF AllValues(Range(args))
  THEN CallTo(at, single, prev,
              MethodIn(at, MethodParent(at, single, prev), id, TypesOf(TreesOf(args))),
              TreesOf(args))
  ELSE No

\* evalNewObject.
ConstructorIn(at, type, argTypes) ==
  IF /\ AllValueTypes(argTypes) /\ type.kind = "ref"
     /\ IsClass(type.decl) /\ "abstract" \notin DeclOf(type.decl).mods
  THEN ResolveConstructorOverload(at, type.decl, argTypes) ELSE {}
NewWith(type, ctor, trees) ==
  IfFound(ctor # {},
    Value([op |-> "new", type |-> type, decl |-> CHOOSE d \in ctor : TRUE, args |-> trees]))
NewOf(at, type, args) ==
  IF AllValues(Range(args))
  THEN NewWith(type, ConstructorIn(at, type, TypesOf(TreesOf(args))), TreesOf(args))
  ELSE No

\* evalAssignment marks a target that is a name, or a name after one other node.
Marked(tree) ==
  CASE tree.op = "var" -> [tree EXCEPT !.initialized = TRUE]
    [] tree.op = "access" /\ tree.on.op \in {"var", "this", "literal"} ->
         [tree EXCEPT !.name.initialized = TRUE]
    [] OTHER -> tree

-----------------------------------------------------------------------------
RECURSIVE Resolve(_, _)
Resolve(at, expr) ==
  LET R(e) == Resolve(at, e)
      Args == [i \in DOMAIN expr.args |-> R(expr.args[i])]
      T(type) == ResolvedType(at, type)
      \* an operator over operands that must be values
      Over(operands, tree) == IfFound(AllValues(operands), Value(tree))
      WithType(type, operand, tree) == IfFound(type # Wrong, Over({operand}, tree))
  IN CASE expr.op = "literal" -> Value(expr)
       [] expr.op = "this" -> Value([op |-> "this", type |-> Ref(CurrentClass(at))])
       [] expr.op = "name" -> ResolveName(at, expr.id)
       [] expr.op = "field" -> EvalFieldAccess(at, R(expr.of), expr.of, expr.id)
       [] expr.op = "call" ->
            CallOf(at, expr.on = NoTree, IF expr.on = NoTree THEN No ELSE R(expr.on),
                   expr.id, Args)
       [] expr.op = "new" -> NewOf(at, T(expr.type), Args)
       [] expr.op = "newArray" ->
            LET size == R(expr.size) IN
            WithType(T(expr.type), size,
                     [op |-> "newArray", type |-> T(expr.type), size |-> size.tree])
       [] expr.op = "index" ->
            LET array == R(expr.array)
                index == R(expr.index)
            IN Over({array, index},
                    [op |-> "index", array |-> array.tree, index |-> index.tree])
       [] expr.op = "cast" ->
            LET value == R(expr.value) IN
            WithType(T(expr.type), value,
                     [op |-> "cast", type |-> T(expr.type), value |-> value.tree])
       [] expr.op = "assign" ->
            LET lhs == R(expr.lhs)
                rhs == R(expr.rhs)
            IN Over({lhs, rhs},
                    [op |-> "assign", lhs |-> Marked(lhs.tree), rhs |-> rhs.tree])
       [] expr.op = "bin" ->
            LET lhs == R(expr.lhs)
                rhs == R(expr.rhs)
            IN Over({lhs, rhs}, [op |-> "bin", kind |-> expr.kind,
                                 lhs |-> lhs.tree, rhs |-> rhs.tree])
       [] expr.op = "instanceof" ->
            LET lhs == R(expr.lhs) IN
            WithType(T(expr.type), lhs,
                     [op |-> "bin", kind |-> "instanceof", lhs |-> lhs.tree,
                      rhs |-> [op |-> "type", type |-> T(expr.type)]])
       [] expr.op = "un" ->
            LET rhs == R(expr.rhs) IN
            Over({rhs}, [op |-> "un", kind |-> expr.kind, rhs |-> rhs.tree])
=============================================================================
