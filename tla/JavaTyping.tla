----------------------------- MODULE JavaTyping -----------------------------
(***************************************************************************)
(* What the Java Language Specification (second edition) says of a         *)
(* resolved expression: which declaration each of its names stands for,    *)
(* which method a call is of, and which types its parts have.  It is       *)
(* stated on the program's units and on what was in force where the        *)
(* expression stands, with no use of scope numbers, contexts, or the       *)
(* order of declarations.                                                  *)
(***************************************************************************)
EXTENDS StaticResolver

\* The type of string expressions has one name only.
Normal(type) == IF type = StringType THEN Ref(StringClass) ELSE type

-----------------------------------------------------------------------------
(* Conversions (5.1, 5.5). *)

Numeric == {IntType, [kind |-> "char"], [kind |-> "short"], [kind |-> "byte"]}
IsReference(type) == type.kind \in {"ref", "array"}
Supertypes(path) == {path, ObjectClass} \cup SuperClassesOf(path) \cup SuperInterfacesOf(path)
OfAllArrays == {Ref(ObjectClass), Ref(Cloneable), Ref(Serializable)}

RECURSIVE Widens(_, _)
Widens(from, to) ==
  \/ from.kind = "ref" /\ to.kind = "ref" /\ to.decl \in Supertypes(from.decl)
  \/ from.kind = "array" /\ to \in OfAllArrays
  \/ /\ from.kind = "array" /\ to.kind = "array"
     /\ from.of = to.of \/ Widens(from.of, to.of)

Converts(from, to) ==
  \/ from = to
  \/ <<from.kind, to.kind>> \in
       {<<"byte", "short">>, <<"byte", "int">>, <<"short", "int">>, <<"char", "int">>}
  \/ from = NullType /\ IsReference(to)
  \/ Widens(from, to)

Unrelated(class, interface) ==
  IsClass(class) /\ IsInterface(interface) /\ "final" \notin DeclOf(class).mods

RECURSIVE Casts(_, _)
Casts(from, to) ==
  \/ Converts(from, to) \/ Widens(to, from)
  \/ from \in Numeric /\ to \in Numeric
  \/ /\ from.kind = "ref" /\ to.kind = "ref"
     /\ \/ IsInterface(from.decl) /\ IsInterface(to.decl)
        \/ Unrelated(from.decl, to.decl) \/ Unrelated(to.decl, from.decl)
  \/ /\ from.kind = "array" /\ to.kind = "array"
     /\ IsReference(from.of) /\ IsReference(to.of) /\ Casts(from.of, to.of)

-----------------------------------------------------------------------------
(* Members (6.6, 8.2, 15.12). *)

Below(path, other) == path # other /\ other \in Supertypes(path)

\* The fields of a name that a class has: those that no nearer class hides.
FieldsOf(path, id) ==
  LET all == UNION {Named(MembersOf(c, "field"), id) : c \in {path} \cup SuperClassesOf(path)}
  IN {d \in all : ~\E e \in all : Below(ClassOf(e), ClassOf(d))}

\* Those it has where the class or one superclass at most declares the name, and
\* any of them where superclasses hide one another's: the code is known, by
\* reading, to take the topmost and not the nearest (hierarchyCheck.hpp:430).
InheritedOf(path, id) == UNION {Named(MembersOf(c, "field"), id) : c \in SuperClassesOf(path)}
HiddenAbove(path, id) ==
  Named(MembersOf(path, "field"), id) = {} /\ Cardinality(InheritedOf(path, id)) > 1
FieldsMeant(path, id) ==
  IF HiddenAbove(path, id) THEN InheritedOf(path, id) ELSE FieldsOf(path, id)

\* Two methods are one if calling one runs the other, or they are the same.
SameParameters(d, e) == Member(d).name = Member(e).name /\ ParamTypes(d) = ParamTypes(e)
SameMethod(d, e) == d = e \/ (SameParameters(d, e) /\ ~IsStatic(d) /\ ~IsStatic(e))

MethodsOf(path, id) ==
  LET all == UNION {Named(MembersOf(c, "method"), id) : c \in Supertypes(path)}
  IN {d \in all : ~\E e \in all : SameParameters(d, e) /\ Below(ClassOf(e), ClassOf(d))}

\* on is the type of the object through which an instance member is named, if any.
MayAccess(at, d, on) ==
  LET here == CurrentClass(at) IN
  \/ IsPublic(d) \/ SamePackage(ClassOf(d), here)
  \/ ClassOf(d) \in SuperClassesOf(here) /\ (on = {} \/ \A t \in on : here \in Supertypes(t))

ArgumentsFit(d, args) ==
  /\ Len(args) = Len(ParamTypes(d))
  /\ \A i \in DOMAIN args : Converts(args[i], ParamTypes(d)[i])
NoLessSpecific(d, e) ==
  \A i \in DOMAIN ParamTypes(d) : Converts(ParamTypes(d)[i], ParamTypes(e)[i])

Chosen(applicable) == {d \in applicable : \A e \in applicable : NoLessSpecific(d, e)}
MethodsChosen(at, path, id, args, on) ==
  Chosen({d \in MethodsOf(path, id) : MayAccess(at, d, on) /\ ArgumentsFit(d, args)})
\* A protected constructor is for subclasses' constructors and for its package.
ConstructorsChosen(at, path, args) ==
  Chosen({d \in MembersOf(path, "ctor") :
            ArgumentsFit(d, args) /\ (IsPublic(d) \/ SamePackage(path, CurrentClass(at)))})

-----------------------------------------------------------------------------
(* Types (15). *)

RECURSIVE JavaType(_)
Typed(legal, type) == IF legal THEN type ELSE Wrong

JavaBinary(kind, l, r) ==
  LET numbers == l \in Numeric /\ r \in Numeric
      booleans == l = BooleanType /\ r = BooleanType
      references == {l, r} \subseteq {t \in {l, r} : t = NullType \/ IsReference(t)}
      text == Ref(StringClass) \in {l, r} /\ VoidType \notin {l, r} /\ Wrong \notin {l, r}
  IN CASE kind = "compare" -> Typed(numbers, BooleanType)
       [] kind = "equal" ->
            Typed(numbers \/ booleans \/ (references /\ (Casts(l, r) \/ Casts(r, l))), BooleanType)
       [] kind = "logic" -> Typed(booleans, BooleanType)
       [] kind = "arith" -> Typed(numbers, IntType)
       [] kind = "add" -> IF text THEN Ref(StringClass) ELSE Typed(numbers, IntType)
       [] kind = "instanceof" -> Typed(references /\ IsReference(r) /\ Casts(l, r), BooleanType)

JavaType(tree) ==
  LET Fit(trees) == ArgumentsFit(tree.decl, [i \in DOMAIN trees |-> JavaType(trees[i])]) IN
  CASE tree.op = "access" -> Typed(IsReference(JavaType(tree.on)), tree.name.type)
    [] tree.op = "call" ->
         Typed(Fit(tree.args) /\ (tree.on = NoTree \/ IsReference(JavaType(tree.on))),
               ResultType(tree.decl))
    [] tree.op = "new" -> Typed(Fit(tree.args), tree.type)
    [] tree.op = "newArray" -> Typed(JavaType(tree.size) \in Numeric, tree.type)
    [] tree.op = "index" ->
         LET array == JavaType(tree.array) IN
         IF array.kind = "array" /\ JavaType(tree.index) \in Numeric THEN array.of ELSE Wrong
    [] tree.op = "cast" -> Typed(Casts(JavaType(tree.value), tree.type), tree.type)
    [] tree.op = "assign" -> Typed(Converts(JavaType(tree.rhs), JavaType(tree.lhs)),
                                   JavaType(tree.lhs))
    [] tree.op = "bin" -> JavaBinary(tree.kind, JavaType(tree.lhs), JavaType(tree.rhs))
    [] tree.op = "un" ->
         IF tree.kind = "not" THEN Typed(JavaType(tree.rhs) = BooleanType, BooleanType)
         ELSE Typed(JavaType(tree.rhs) \in Numeric, IntType)
    [] OTHER -> Normal(tree.type)

-----------------------------------------------------------------------------
(* Names (6.5): entry says where the expression stands and what is in force. *)

InForceAs(entry, id) == {d \in entry.inForce : d.name = id}

\* What a name that is no expression stands for; << >> where it is one.
RECURSIVE PathOf(_, _)
PathOf(entry, expr) ==
  LET path == PathOf(entry, expr.of) \o <<expr.id>> IN
  CASE expr.op = "name" /\ InForceAs(entry, expr.id) = {}
       /\ FieldsOf(CurrentClass(entry.at), expr.id) = {} ->
         IF Meaning(units[entry.at.unit], expr.id) = Ambiguous THEN << >>
         ELSE Meaning(units[entry.at.unit], expr.id)
    [] expr.op = "field" /\ PathOf(entry, expr.of) \in AllPackages /\ path \in AllTypes \cup AllPackages ->
         path
    [] OTHER -> << >>

IsVariable(entry, id, d) ==
  IF InForceAs(entry, id) # {}
  THEN /\ Len(d) = 3 /\ SubSeq(d, 1, 2) = <<entry.at.unit, entry.at.member>>
       /\ LET local == locals[d[1]][d[2]][d[3]] IN
          [name |-> local.name, scope |-> local.scope] \in InForceAs(entry, id)
  ELSE d \in FieldsMeant(CurrentClass(entry.at), id) /\ MayAccess(entry.at, d, {})

\* The declaration a member access is of.
IsFieldOf(at, type, id, d) ==
  IF type.kind = "array" THEN id = "length" /\ d = ArrayLength
  ELSE /\ type.kind = "ref" /\ d \in FieldsMeant(type.decl, id)
       /\ MayAccess(at, d, IF IsStatic(d) THEN {} ELSE {type.decl})
IsMethodOf(at, path, id, args, on, d) ==
  \E e \in MethodsChosen(at, path, id, args, on) : SameMethod(d, e)

RECURSIVE Agrees(_, _, _)
AllAgree(entry, exprs1, trees) ==
  /\ Len(exprs1) = Len(trees)
  /\ \A i \in DOMAIN trees : Agrees(entry, exprs1[i], trees[i])

FieldAgrees(entry, expr, tree) ==
  LET path == PathOf(entry, expr.of) IN
  IF path # << >>
  THEN /\ path \in AllTypes /\ tree.op = "var" /\ IsStatic(tree.decl)
       /\ tree.decl \in FieldsMeant(path, expr.id) /\ MayAccess(entry.at, tree.decl, {})
  ELSE /\ tree.op = "access" /\ Agrees(entry, expr.of, tree.on)
       /\ IsFieldOf(entry.at, JavaType(tree.on), expr.id, tree.name.decl)

CallAgrees(entry, expr, tree) ==
  LET args == [i \in DOMAIN tree.args |-> JavaType(tree.args[i])]
      path == IF expr.on = NoTree THEN CurrentClass(entry.at) ELSE PathOf(entry, expr.on)
  IN /\ AllAgree(entry, expr.args, tree.args)
     /\ IF path # << >>
        THEN /\ path \in AllTypes /\ tree.on = NoTree
             /\ IsMethodOf(entry.at, path, expr.id, args, {}, tree.decl)
             /\ expr.on # NoTree => IsStatic(tree.decl)
        ELSE LET on == JavaType(tree.on) IN
             /\ tree.on # NoTree /\ Agrees(entry, expr.on, tree.on)
             /\ on.kind = "ref"
             /\ IsMethodOf(entry.at, on.decl, expr.id, args, {on.decl}, tree.decl)

NamesTypeIn(entry, type, meant) ==
  LET Path(name) == Meaning(units[entry.at.unit], Head(name)) \o Tail(name) IN
  CASE type.kind = "ref" -> meant = Ref(Path(type.name))
    [] type.kind = "array" /\ type.of.kind = "ref" -> meant = ArrayOf(Ref(Path(type.of.name)))
    [] OTHER -> meant = type

\* tree is the expression with every name bound as the language says.
Agrees(entry, expr, tree) ==
  CASE expr.op = "literal" -> tree = expr
    [] expr.op = "this" -> tree.op = "this" /\ tree.type = Ref(CurrentClass(entry.at))
    [] expr.op = "name" -> tree.op = "var" /\ IsVariable(entry, expr.id, tree.decl)
    [] expr.op = "field" -> FieldAgrees(entry, expr, tree)
    [] expr.op = "call" -> tree.op = "call" /\ CallAgrees(entry, expr, tree)
    [] expr.op = "new" ->
         /\ tree.op = "new" /\ NamesTypeIn(entry, expr.type, tree.type)
         /\ AllAgree(entry, expr.args, tree.args)
         /\ "abstract" \notin DeclOf(tree.type.decl).mods
         /\ {tree.decl} = ConstructorsChosen(entry.at, tree.type.decl,
                                             [i \in DOMAIN tree.args |-> JavaType(tree.args[i])])
    [] expr.op = "newArray" ->
         NamesTypeIn(entry, expr.type, tree.type) /\ Agrees(entry, expr.size, tree.size)
    [] expr.op = "index" ->
         Agrees(entry, expr.array, tree.array) /\ Agrees(entry, expr.index, tree.index)
    [] expr.op = "cast" ->
         NamesTypeIn(entry, expr.type, tree.type) /\ Agrees(entry, expr.value, tree.value)
    [] expr.op = "instanceof" ->
         NamesTypeIn(entry, expr.type, tree.rhs.type) /\ Agrees(entry, expr.lhs, tree.lhs)
    [] expr.op = "un" -> Agrees(entry, expr.rhs, tree.rhs)
    [] expr.op \in {"assign", "bin"} ->
         Agrees(entry, expr.lhs, tree.lhs) /\ Agrees(entry, expr.rhs, tree.rhs)

-----------------------------------------------------------------------------
(* Contexts (8.3.2.3, 8.4.3.2, 15.8.3). *)

RECURSIVE Nodes(_), Reads(_)
Parts(tree) ==
  CASE tree.op = "access" -> {tree.on}
    [] tree.op = "call" ->
         {tree.args[i] : i \in DOMAIN tree.args} \cup ({tree.on} \ {NoTree})
    [] tree.op = "new" -> {tree.args[i] : i \in DOMAIN tree.args}
    [] tree.op = "newArray" -> {tree.size}
    [] tree.op = "index" -> {tree.array, tree.index}
    [] tree.op = "cast" -> {tree.value}
    [] tree.op \in {"assign", "bin"} -> {tree.lhs, tree.rhs}
    [] tree.op = "un" -> {tree.rhs}
    [] OTHER -> {}
Nodes(tree) == {tree} \cup UNION {Nodes(t) : t \in Parts(tree)}
\* Without the targets of assignments that are simple names.
Reads(tree) ==
  IF tree.op = "assign" /\ tree.lhs.op = "var" THEN Reads(tree.rhs)
  ELSE {tree} \cup UNION {Reads(t) : t \in Parts(tree)}

\* An instance member named with no object before it.
IsBare(tree) ==
  /\ tree.op = "var" \/ (tree.op = "call" /\ tree.on = NoTree)
  /\ Len(tree.decl) = 2 /\ ~IsStatic(tree.decl)

ContextAllows(entry, tree) ==
  LET m == units[entry.at.unit].members[entry.at.member] IN
  /\ \A t \in Nodes(tree) :
       /\ "static" \in m.mods => t.op # "this" /\ ~IsBare(t)
       /\ t.op = "access" => ~IsStatic(t.name.decl)
       /\ t.op = "call" /\ t.on # NoTree => ~IsStatic(t.decl)
       /\ t.op = "assign" /\ t.lhs.op = "access" => t.lhs.name.decl # ArrayLength
  /\ m.kind = "field" /\ "static" \notin m.mods =>
       \A t \in Reads(tree) :
         t.op = "var" /\ IsBare(t) /\ t.decl[1] = entry.at.unit => t.decl[2] < entry.at.member
=============================================================================
