------------------------------ MODULE FrontEnd ------------------------------
(***************************************************************************)
(* The front end as main.cpp drives it: the parse tree visitor builds one  *)
(* file after the other with the environment manager (parseTreeVisitor.cpp,*)
(* envManager.cpp), the type linker links them, and then the expressions   *)
(* that the visitor left are resolved one by one and checked.  A program   *)
(* is accepted, or refused where the code throws.                          *)
(*                                                                         *)
(* The programs are taken to pass the hierarchy check, which comes between *)
(* linking and resolving and has a module of its own.                      *)
(***************************************************************************)
EXTENDS JavaTyping

VARIABLES
  phase,    \* "parse", "link", "resolve", "validate", "forward", "accepted", "refused"
  member,   \* the member that the visitor is at, in unit
  script,   \* what it has still to visit of that member
  code,     \* the expressions it has built
  trees     \* those of them that are resolved

frontVars == <<phase, member, script, code, trees, locals, linkVars, scopeVars>>

-----------------------------------------------------------------------------
(* The visitor: for a member the sequences of calls it may make.           *)

RECURSIVE Mentions(_)
\* The names in an expression's list, those of methods and fields included.
Mentions(expr) ==
  LET In(args) == UNION {Mentions(args[i]) : i \in DOMAIN args} IN
  CASE expr.op = "name" -> {expr.id}
    [] expr.op = "field" -> Mentions(expr.of) \cup {expr.id}
    [] expr.op = "call" -> Mentions(expr.on) \cup {expr.id} \cup In(expr.args)
    [] expr.op = "new" -> In(expr.args)
    [] expr.op = "newArray" -> Mentions(expr.size)
    [] expr.op = "index" -> Mentions(expr.array) \cup Mentions(expr.index)
    [] expr.op = "cast" -> Mentions(expr.value)
    [] expr.op = "instanceof" -> Mentions(expr.lhs)
    [] expr.op \in {"assign", "bin"} -> Mentions(expr.lhs) \cup Mentions(expr.rhs)
    [] expr.op = "un" -> Mentions(expr.rhs)
    [] OTHER -> {}

VisitExpr(expr, role, type) == <<[do |-> "expr", expr |-> expr, role |-> role, type |-> type]>>
Declare(name, type, param, init) ==
  <<[do |-> "declare", name |-> name, type |-> type, param |-> param,
     init |-> init # NoTree, mentioned |-> Mentions(init)]>>
Scoped(visits) == <<[do |-> "enter"]>> \o visits \o <<[do |-> "exit"]>>
\* One after the other, and in either order where C++ evaluates arguments.
Then(first, second) == {v \o w : v \in first, w \in second}
InSomeOrder(one, other) == Then(one, other) \cup Then(other, one)

RECURSIVE VisitStatement(_, _), VisitStatements(_, _)
VisitLocalDecl(stmt) ==
  {(IF stmt.init = NoTree THEN << >> ELSE VisitExpr(stmt.init, "init", stmt.type))
   \o Declare(stmt.name, stmt.type, FALSE, stmt.init)}
VisitCondition(stmt) ==
  {IF stmt.cond = NoTree THEN << >> ELSE VisitExpr(stmt.cond, "condition", BooleanType)}

\* The statements of a block, in a scope unless there are none.
VisitBlock(body, result) ==
  IF body = << >> THEN {<< >>} ELSE {Scoped(v) : v \in VisitStatements(body, result)}

VisitIf(stmt, result) ==
  Then({Scoped(v) : v \in VisitStatement(stmt.then, result)},
       InSomeOrder(VisitCondition(stmt), VisitStatements(stmt.else, result)))
VisitWhile(stmt, result) ==
  Then({Scoped(v) : v \in VisitStatement(stmt.body, result)}, VisitCondition(stmt))
VisitFor(stmt, result) ==
  {Scoped(v) : v \in
     Then(Then(VisitStatements(stmt.init, result), VisitCondition(stmt)),
          Then(VisitStatements(stmt.update, result), VisitStatement(stmt.body, result)))}

VisitStatement(stmt, result) ==
  CASE stmt.s = "expr" -> {VisitExpr(stmt.expr, "statement", VoidType)}
    [] stmt.s = "return" -> {VisitExpr(stmt.expr, "return", result)}
    [] stmt.s = "local" -> VisitLocalDecl(stmt)
    [] stmt.s = "block" -> VisitBlock(stmt.body, result)
    [] stmt.s = "if" -> VisitIf(stmt, result)
    [] stmt.s = "while" -> VisitWhile(stmt, result)
    [] stmt.s = "for" -> VisitFor(stmt, result)

VisitStatements(stmts, result) ==
  FoldLeft(LAMBDA visits, stmt : Then(visits, VisitStatement(stmt, result)), {<< >>}, stmts)

\* visitMethodDecl, visitConstructorDecl, visitAbstractMethodDecl.
VisitMethod(m) ==
  LET Param(p) == Declare(p.name, p.type, TRUE, NoTree)
      params == FlattenSeq([i \in DOMAIN m.params |-> Param(m.params[i])])
  IN {params \o v : v \in VisitBlock(m.body, m.type)}

-----------------------------------------------------------------------------
FrontInit ==
  /\ LinkInit /\ ScopesInit
  /\ phase = "parse" /\ member = 1 /\ script = << >>
  /\ code = << >> /\ trees = << >>
  /\ locals = [k \in DOMAIN units |-> [m \in DOMAIN units[k].members |-> << >>]]

Here == units[unit].members[member]
AtMember == phase = "parse" /\ stage # "method" /\ member <= Len(units[unit].members)
Entry(expr, role, type, scope, inForce) ==
  [at |-> [unit |-> unit, member |-> member, scope |-> scope, order |-> << >>],
   expr |-> expr, role |-> role, type |-> type, inForce |-> inForce]

\* visitFieldDecl: an initializer has the scope of the field before, and the first
\* one that of the class.
FieldsBefore == {m \in 1..(member - 1) : units[unit].members[m].kind = "field"}
\* Mutant: before the first field there is no scope.
NoFirstScope == [i \in 1..Cardinality(FieldsBefore) |-> i]
FieldScope == [i \in 1..(Cardinality(FieldsBefore) + 1) |-> i - 1]
VisitFieldDecl ==
  /\ AtMember /\ Here.kind = "field"
  /\ code' = IF Here.init = NoTree THEN code
             ELSE Append(code, Entry(Here.init, "init", Here.type, FieldScope, {}))
  /\ member' = member + 1
  /\ UNCHANGED <<phase, script, trees, locals, linkVars, scopeVars>>

StartMethod ==
  /\ AtMember /\ Here.kind # "field"
  /\ ClearLocalScope
  /\ script' \in VisitMethod(Here)
  /\ UNCHANGED <<phase, member, code, trees, locals, linkVars>>

InMethod(do) == phase = "parse" /\ script # << >> /\ Head(script).do = do

VisitDecl ==
  /\ InMethod("declare")
  /\ LET d == Head(script) IN
     /\ BuildVarDecl(d.name, d.mentioned)
     /\ locals' = [locals EXCEPT ![unit][member] = Append(@,
          [name |-> d.name, scope |-> currentScope', type |-> d.type,
           param |-> d.param, init |-> d.init])]
  /\ phase' = IF stage' = "refused" THEN "refused" ELSE phase
  /\ script' = Tail(script)
  /\ UNCHANGED <<member, code, trees, linkVars>>

VisitScope ==
  /\ \/ InMethod("enter") /\ EnterNewScope
     \/ InMethod("exit") /\ ExitScope
  /\ script' = Tail(script)
  /\ UNCHANGED <<phase, member, code, trees, locals, linkVars>>

VisitExpressionOf ==
  /\ InMethod("expr")
  /\ VisitExpression
  /\ LET e == Head(script) IN
     code' = Append(code, Entry(e.expr, e.role, e.type, currentScope, InForce))
  /\ script' = Tail(script)
  /\ UNCHANGED <<phase, member, trees, locals, linkVars>>

FinishMethod ==
  /\ phase = "parse" /\ script = << >>
  /\ BuildMethodDecl
  /\ member' = member + 1
  /\ UNCHANGED <<phase, script, code, trees, locals, linkVars>>

\* One file is done.
FinishFile ==
  /\ phase = "parse" /\ stage # "method" /\ member > Len(units[unit].members)
  /\ IF unit < Len(units) THEN unit' = unit + 1 /\ UNCHANGED phase
     ELSE unit' = 1 /\ phase' = "link"
  /\ member' = 1
  /\ UNCHANGED <<script, code, trees, locals, scopeVars, units, linkStage, import,
                 pending, packages, types, contexts, links>>

Parse ==
  \/ VisitFieldDecl \/ StartMethod \/ VisitDecl \/ VisitScope \/ VisitExpressionOf
  \/ FinishMethod \/ FinishFile

Link ==
  /\ phase = "link"
  /\ LinkNext
  /\ phase' = CASE linkStage' = "linked" -> "resolve"
                [] linkStage' = "refused" -> "refused"
                [] OTHER -> phase
  /\ UNCHANGED <<member, script, code, trees, locals, scopeVars>>

-----------------------------------------------------------------------------
(* Resolving and checking. *)

\* The orders of an unordered_map matter to the methods that share a name and a
\* number of parameters with others.
MethodDecls == UNION {MembersOf(TypeName(units[k]), "method") : k \in DOMAIN units}
Overloaded ==
  {d \in MethodDecls : \E e \in MethodDecls :
     /\ Member(d).name = Member(e).name /\ Len(Member(d).params) = Len(Member(e).params)
     /\ Signature(d) # Signature(e)}
CalledIn(expr) == {d \in Overloaded : Member(d).name \in Mentions(expr)}

ResolveExpression ==
  /\ phase = "resolve" /\ Len(trees) < Len(code)
  /\ LET entry == code[Len(trees) + 1] IN
     IF entry.expr = NoTree THEN trees' = Append(trees, NoTree) /\ UNCHANGED phase
     ELSE \E at \in {[entry.at EXCEPT !.order = order] :
                        order \in SetToSeqs(CalledIn(entry.expr))} :
          \E result \in {Resolve(at, entry.expr)} :
            IF Evaluates(at, result)
            THEN trees' = Append(trees, result.tree) /\ UNCHANGED phase
            ELSE phase' = "refused" /\ UNCHANGED trees
  /\ UNCHANGED <<member, script, code, locals, linkVars, scopeVars>>

Check(from, to, right) ==
  /\ phase = from
  /\ phase' = IF right THEN to ELSE "refused"
  /\ UNCHANGED <<member, script, code, trees, locals, linkVars, scopeVars>>

AllResolved == phase = "resolve" /\ Len(trees) = Len(code) /\ Check("resolve", "validate", TRUE)

Constructors == UNION {MembersOf(TypeName(units[k]), "ctor") : k \in DOMAIN units}
Validate ==
  Check("validate", "forward",
    /\ \A ctor \in Constructors : SuperConstructorFound(ctor)
    /\ \A i \in DOMAIN code : ValidExpression(code[i], TypeOf(trees[i])))

CheckForward ==
  Check("forward", "accepted",
    /\ \A i \in DOMAIN code : code[i].expr # NoTree => CheckField(code[i], trees[i])
    /\ \A k \in DOMAIN locals : \A m \in DOMAIN locals[k] : CheckLocalVars(locals[k][m]))

\* Only a program with a verdict is left alone.
Verdict == phase \in {"accepted", "refused"} /\ UNCHANGED frontVars

FrontNext ==
  \/ Parse \/ Link \/ ResolveExpression \/ AllResolved \/ Validate \/ CheckForward
  \/ Verdict

FrontSpec == FrontInit /\ [][FrontNext]_frontVars

-----------------------------------------------------------------------------
Roles == {"init", "return", "condition", "statement"}
Phases == {"parse", "link", "resolve", "validate", "forward", "accepted", "refused"}

FrontTypeOK ==
  /\ LinkTypeOK /\ ScopesTypeOK
  /\ phase \in Phases
  /\ unit \in DOMAIN units /\ member \in Nat
  /\ Len(trees) <= Len(code)
  /\ \A i \in DOMAIN code : code[i].role \in Roles /\ Len(code[i].at.scope) > 0
  /\ trees # << >> /\ Last(trees) # NoTree => TypeOf(Last(trees)) # Wrong

\* In a program that is accepted every name stands for the declaration that the
\* language says, every call is of the method that it chooses, and every protected
\* member is one that the class may access; but a field that a class inherits from
\* two superclasses under one name may be either of theirs (FieldsMeant), for the
\* code may take the one that Java has hidden.  README.md names what the programs
\* checked leave out.
NamesAreJavas ==
  phase = "accepted" =>
    \A i \in DOMAIN code : code[i].expr # NoTree => Agrees(code[i], code[i].expr, trees[i])

\* In a program that is accepted every expression has the type that the language
\* gives it, and one that may be assigned to where it goes.
TypesAreJavas ==
  phase = "accepted" =>
    \A i \in DOMAIN code : code[i].expr # NoTree =>
      LET type == JavaType(trees[i])
          expected == Declared(code[i].at.unit, code[i].type)
      IN /\ type = Normal(TypeOf(trees[i])) /\ type # Wrong
         /\ code[i].role # "statement" => type # VoidType /\ Converts(type, expected)

\* In a program that is accepted no static method and no static initializer
\* names this or an instance member of it, an instance initializer reads no
\* field of its class before that is initialized, a static member is named
\* through its class only, and no length of an array is assigned.
ContextsAreRespected ==
  phase = "accepted" =>
    \A i \in DOMAIN code : code[i].expr # NoTree => ContextAllows(code[i], trees[i])

\* A call of an own method with the results args for its arguments.
CallIsFound(at, expr, args) ==
  LET argTypes == [i \in DOMAIN args |-> JavaType(args[i].tree)] IN
  /\ expr.op = "call" /\ expr.on = [op |-> "this"]
  /\ AllValues(Range(args))
  /\ MethodsChosen(at, CurrentClass(at), expr.id, argTypes, {}) # {}
  => ResolveMethodOverload(at, CurrentClass(at), expr.id, TypesOf(TreesOf(args))) # {}

\* README.md: a call is of the most specific of the methods whose parameter types
\* are applicable.  Here: a call is refused only if Java has no method for it
\* either, judged by the types of the arguments.
ValidCallsAreFound ==
  phase = "resolve" /\ Len(trees) < Len(code) =>
    LET entry == code[Len(trees) + 1] IN
    CallIsFound(entry.at, entry.expr,
                [i \in DOMAIN entry.expr.args |-> Resolve(entry.at, entry.expr.args[i])])
=============================================================================
