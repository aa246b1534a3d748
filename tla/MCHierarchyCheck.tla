-------------------------- MODULE MCHierarchyCheck --------------------------
(***************************************************************************)
(* Two families of programs, numbered by the choices that make each one:    *)
(* the ways two classes and two interfaces can extend and implement each   *)
(* other, legal or not, with no methods, and a chain of three classes and  *)
(* an interface, in which one method is declared in several ways.          *)
(***************************************************************************)
EXTENDS HierarchyCheck

MCObject == "Object"

Type(kind, extends, interfaces, declared, modifiers) ==
  [kind |-> kind, extends |-> extends, interfaces |-> interfaces,
   methods |-> declared, modifiers |-> modifiers]

Declaration(signature, result, modifiers) ==
  <<[signature |-> signature, result |-> result, constructor |-> FALSE,
     modifiers |-> modifiers]>>

Plain(declared) == Type("class", << >>, << >>, declared, {})
-----------------------------------------------------------------------------
\* Program n of a family makes choice n \div weight, in rotation, of each list.
Choice(options, n, weight) == options[((n \div weight) % Len(options)) + 1]

None == << >>

Shape(n) ==
  (MCObject :> Plain(<< >>)
     @@ "A" :> Type("class", Choice(<<None, <<"B">>>>, n, 1),
                    Choice(<<None, <<"I", "J">>>>, n, 2), << >>, {})
     @@ "B" :> Type("class", Choice(<<None, <<"A">>, <<"I">>>>, n, 4),
                    Choice(<<None, <<"J">>>>, n, 12), << >>, {})
     @@ "I" :> Type("interface", << >>,
                    Choice(<<None, <<"J">>, <<"J", "I">>>>, n, 24), << >>, {})
     @@ "J" :> Type("interface", << >>, Choice(<<None, <<"I">>>>, n, 72), << >>, {}))

\* The method is called A, and the class may have a constructor that looks the
\* same.
Constructor ==
  <<[signature |-> "A()", result |-> "void", constructor |-> TRUE, modifiers |-> {"public"}]>>

Abstract  == Declaration("A()", "int", {"public", "abstract"})
Concrete  == Declaration("A()", "int", {"public"})
Final     == Declaration("A()", "int", {"public", "final"})
Static    == Declaration("A()", "int", {"public", "static"})
Protected == Declaration("A()", "int", {"protected"})
Other     == Declaration("A()", "char", {"public"})
Twice     == Concrete \o Abstract

Chain(n) ==
  (MCObject :> Plain(Choice(<<None, Other>>, n, 1))
     @@ "A" :> Type("class", << >>, << >>,
          Choice(<<Constructor, Abstract, Concrete, Final, Protected, Twice>>, n, 2),
          {"abstract"})
     @@ "B" :> Type("class", <<"A">>, << >>, Choice(<<None, Abstract, Concrete>>, n, 12),
                    Choice(<<{}, {"abstract"}>>, n, 36))
     @@ "C" :> Type("class", <<"B">>, Choice(<<None, <<"I">>>>, n, 72),
                    Choice(<<None, Concrete, Static, Other>>, n, 144), {})
     @@ "I" :> Type("interface", << >>, << >>, Choice(<<None, Abstract>>, n, 72), {}))

All == [n \in 1..144 |-> Shape(n)] \o [n \in 1..576 |-> Chain(n)]

MCProgramOf == All
=============================================================================
