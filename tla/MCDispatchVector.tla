-------------------------- MODULE MCDispatchVector --------------------------
(***************************************************************************)
(* Programs of java.lang.Object, two or three classes in each hierarchy    *)
(* they can form, and an interface, every vertex order of each.            *)
(***************************************************************************)
EXTENDS DispatchVector, TLC

\* Methods are named by type and signature; "new" is a constructor.
Of(t, sigs) == {<<t, s>> : s \in sigs}

Object == "Object"

MCMethods == UNION {Of(Object, {"new", "f"}), Of("A", {"new", "newInt", "f", "g"}),
                    Of("B", {"new", "f"}), Of("C", {"new", "g"}), Of("I", {"f"})}

\* parentOfB and parentOfC fix the hierarchy, the rest what is declared.
Make(parentOfB, parentOfC, inA, inB, inC) ==
  [classes      |-> {Object, "A", "B", "C"},
   interfaces   |-> {"I"},
   root         |-> Object,
   parent       |-> ("A" :> Object @@ "B" :> parentOfB @@ "C" :> parentOfC),
   declares     |-> (Object :> Of(Object, {"new", "f"}) @@ "A" :> Of("A", inA)
                       @@ "B" :> Of("B", inB) @@ "C" :> Of("C", inC)
                       @@ "I" :> Of("I", {"f"})),
   constructors |-> {m \in MCMethods : m[2] \in {"new", "newInt"}},
   fields       |-> (Object :> << >> @@ "A" :> <<"x">> @@ "B" :> <<"y">> @@ "C" :> <<"z">>)]

\* A chain of two constructors and three methods, one with an override in the
\* middle, a fan, and a chain beside a class of its own.
All ==
  <<Make("A", "B", {"new", "newInt", "f"}, {"new"}, {"new", "g"}),
    Make("A", "B", {"new", "g"}, {"new", "f"}, {"new"}),
    Make("A", "A", {"new", "f"}, {"new", "f"}, {"new"}),
    Make(Object, "A", {"new", "g"}, {"new", "f"}, {"new", "g"})>>

MCProgramOf == All
MCPrograms == DOMAIN All
MCFields == {"x", "y", "z"}
-----------------------------------------------------------------------------
\* The method an object of class c runs for a signature: the nearest one
\* declared on the way up.
RECURSIVE Implementation(_, _)
Implementation(c, sig) ==
  IF <<c, sig>> \in p.declares[c] THEN <<c, sig>>
  ELSE Implementation(p.parent[c], sig)

\* What a call through declaration m finds in an object of class c.
LookUp(c, m) ==
  IF colour[m] \in DOMAIN classDVs[c].methods THEN classDVs[c].methods[colour[m]]
  ELSE NoMethod

\* README.md's dynamic dispatch: whichever declaration a call was resolved to,
\* an object runs its class's own implementation of it.
CallsReachImplementations ==
  pc = "done" =>
    \A c \in p.classes : \A a \in Superclasses(c) :
      \A m \in p.declares[a] \ p.constructors :
        LookUp(c, m) = Implementation(c, m[2])
=============================================================================
