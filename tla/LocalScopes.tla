----------------------------- MODULE LocalScopes -----------------------------
(***************************************************************************)
(* The local variables of a method as EnvManager keeps them while the      *)
(* parse tree visitor walks over the method (envManager.hpp/.cpp), and the *)
(* scope numbers (ScopeID) by which the expression resolver decides much   *)
(* later which of them an expression may name.                             *)
(*                                                                         *)
(* Two structures say what is in scope: the stack of declarations with its *)
(* set of names, from which a redeclaration is refused at once, and the    *)
(* numbers, which outlive the stack.  A ScopeID points to its parent and   *)
(* has a position one above that of the scope it was made from.  Here it   *)
(* is the sequence of the positions from the root down to it: positions    *)
(* only grow, so two scopes of a method are the same object exactly when   *)
(* they are the same sequence.                                             *)
(***************************************************************************)
EXTENDS Integers, Sequences, SequencesExt

CONSTANT Names

VARIABLES
  stage,           \* "outside" of methods, in a "method", "built", "refused"
  currentScope,
  localDecls,      \* all declarations of the method
  localDeclStack,  \* those in force
  localScope,      \* the names in force
  sizes,           \* what EnterNewScope returned to the visitor's open blocks
  exprs            \* the scopes given to the method's expressions, and, which
                   \* the code does not keep, what was in force

scopeVars == <<stage, currentScope, localDecls, localDeclStack, localScope,
               sizes, exprs>>

\* A scope made from the current one: the positions of its parent, then one
\* more than the current position.
NextIn(parent) == Append(parent, Last(currentScope) + 1)

\* Mutant: a scope sees only what was declared before the scope it is in.
CanViewEarlier(scope, other) ==
  /\ Len(other) <= Len(scope)
  /\ \A i \in 1..(Len(other) - 1) : scope[i] = other[i]
  /\ scope[Len(other)] > Last(other)

\* canView climbs from a scope to the one among it and those around it that has
\* other's parent, and compares positions there.
CanView(scope, other) ==
  /\ Len(other) <= Len(scope)
  /\ \A i \in 1..(Len(other) - 1) : scope[i] = other[i]
  /\ scope[Len(other)] >= Last(other)

ScopesInit ==
  /\ stage = "outside"
  /\ currentScope = << >>
  /\ localDecls = << >>
  /\ localDeclStack = << >>
  /\ localScope = {}
  /\ sizes = << >>
  /\ exprs = << >>

ClearLocalScope ==
  /\ stage \in {"outside", "built"}
  /\ stage' = "method"
  /\ currentScope' = <<0>>
  /\ localDecls' = << >>
  /\ localDeclStack' = << >>
  /\ localScope' = {}
  /\ sizes' = << >>
  /\ exprs' = << >>

\* BuildVarDecl, for a parameter or a local variable; mentioned are the names in
\* its initializer.  The scope is taken before anything is checked.
BuildVarDecl(name, mentioned) ==
  /\ stage = "method"
  /\ currentScope' = NextIn(Front(currentScope))
  /\ LET decl == [name |-> name, scope |-> currentScope'] IN
     IF name \in mentioned \/ name \in localScope
     THEN /\ stage' = "refused"
          /\ UNCHANGED <<localDecls, localDeclStack, localScope>>
     ELSE /\ localScope' = localScope \cup {name}
          /\ localDecls' = Append(localDecls, decl)
          /\ localDeclStack' = Append(localDeclStack, decl)
          /\ UNCHANGED stage
  /\ UNCHANGED <<sizes, exprs>>

EnterNewScope ==
  /\ stage = "method"
  /\ currentScope' = NextIn(currentScope)
  /\ sizes' = Append(sizes, Len(localDeclStack))
  /\ UNCHANGED <<stage, localDecls, localDeclStack, localScope, exprs>>

InForce == {localDeclStack[i] : i \in DOMAIN localDeclStack}

\* Mutant: the names of a block stay.
NamesKept(size) == localScope

\* The names when a block that began with size declarations is left.
NamesAfterBlock(size) ==
  localScope \ {localDeclStack[i].name : i \in (size + 1)..Len(localDeclStack)}

ScopeAfterBlock == NextIn(Front(Front(currentScope)))

ExitScope ==
  /\ stage = "method" /\ sizes # << >>
  /\ LET size == Last(sizes) IN
     /\ localScope' = NamesAfterBlock(size)
     /\ localDeclStack' = SubSeq(localDeclStack, 1, size)
  /\ currentScope' = ScopeAfterBlock
  /\ sizes' = Front(sizes)
  /\ UNCHANGED <<stage, localDecls, exprs>>

\* An expression gets the scope that is current when it has been visited.
VisitExpression ==
  /\ stage = "method"
  /\ exprs' = Append(exprs, [scope |-> currentScope, inForce |-> InForce])
  /\ UNCHANGED <<stage, currentScope, localDecls, localDeclStack, localScope, sizes>>

\* The declarations collected become the method's.
BuildMethodDecl ==
  /\ stage = "method" /\ sizes = << >>
  /\ stage' = "built"
  /\ UNCHANGED <<currentScope, localDecls, localDeclStack, localScope, sizes, exprs>>

ScopesNext ==
  \/ ClearLocalScope
  \/ \E name \in Names, mentioned \in SUBSET Names : BuildVarDecl(name, mentioned)
  \/ EnterNewScope
  \/ ExitScope
  \/ VisitExpression
  \/ BuildMethodDecl

ScopesSpec == ScopesInit /\ [][ScopesNext]_scopeVars

-----------------------------------------------------------------------------
Scopes == {s \in Seq(Nat) : Len(s) > 0}
LocalDeclarations == [name : Names, scope : Scopes]
Expressions == [scope : Scopes, inForce : SUBSET LocalDeclarations]

ScopesTypeOK ==
  /\ stage \in {"outside", "method", "built", "refused"}
  /\ currentScope \in Seq(Nat)
  /\ stage # "outside" => Len(currentScope) > 0
  /\ localDecls \in Seq(LocalDeclarations)
  /\ localDeclStack \in Seq(LocalDeclarations)
  /\ localScope \subseteq Names
  /\ sizes \in Seq(Nat)
  /\ exprs \in Seq(Expressions)

\* What an expression can view by the scope numbers, when all declarations of
\* the method are there, is what was in force when it was read: nothing of a
\* block that was closed or opened since, nothing declared after it.
LookupsAgree ==
  \A k \in DOMAIN exprs, i \in DOMAIN localDecls :
    CanView(exprs[k].scope, localDecls[i].scope)
      <=> localDecls[i] \in exprs[k].inForce

\* A name has one declaration in force at most, wherever it is looked up: the
\* set of names that refuses a redeclaration holds exactly the names in force,
\* however blocks were left.
NamesAreUnique ==
  /\ localScope = {localDeclStack[i].name : i \in DOMAIN localDeclStack}
  /\ \A k \in DOMAIN exprs : \A d, e \in exprs[k].inForce :
       d.name = e.name => d = e
=============================================================================
