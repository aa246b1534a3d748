--------------------------- MODULE HierarchyCheck ---------------------------
(***************************************************************************)
(* staticCheck/hierarchyCheck.hpp: for each declared type, the search for  *)
(* cycles among its supertypes, the methods it inherits, and what its own  *)
(* methods may replace.  Types are met in the order of the packages' hash  *)
(* maps, which is any order.  The two recursions are stacks of frames      *)
(*                                                                         *)
(*   [type, next]    next counts the steps of the loops in a call's body   *)
(*                                                                         *)
(* A program is a function from its types, java.lang.Object among them, to *)
(* records                                                                 *)
(*                                                                         *)
(*   kind         "class" or "interface"                                   *)
(*   extends      the class named by extends, if any, as a sequence        *)
(*   interfaces   the interfaces implemented or extended, in order         *)
(*   methods      its methods and constructors, in order, as records       *)
(*                [signature, result, constructor, modifiers]              *)
(*   modifiers    "abstract", "final" or neither                           *)
(***************************************************************************)
EXTENDS Naturals, Sequences, FiniteSets, SequencesExt

CONSTANTS
  ProgramOf,   \* the programs, numbered
  Object       \* java.lang.Object

Method == [signature : STRING, result : STRING, constructor : BOOLEAN,
           modifiers : SUBSET {"public", "protected", "static", "abstract", "final"}]

\* What the type linker hands over: every name means some type, and Object
\* names none (resolveJavaLangObject clears its superclasses).
IsProgram(p) ==
  /\ IsFiniteSet(DOMAIN p) /\ Object \in DOMAIN p
  /\ \A t \in DOMAIN p :
       /\ p[t].kind \in {"class", "interface"}
       /\ p[t].extends \in Seq(DOMAIN p) /\ Len(p[t].extends) <= 1
       /\ p[t].interfaces \in Seq(DOMAIN p)
       /\ p[t].methods \in Seq(Method)
       /\ p[t].modifiers \subseteq {"abstract", "final"}
  /\ p[Object].kind = "class"
  /\ p[Object].extends = << >> /\ p[Object].interfaces = << >>

ASSUME ProgramsAssumption == \A n \in DOMAIN ProgramOf : IsProgram(ProgramOf[n])

VARIABLES
  program,
  unchecked,        \* the types traverseTree has not come to
  current,          \* the type being checked
  pc,
  stack,            \* the calls of checkAcyclicHelper, or of getInheritedMethods
  visited, inStack, \* the two sets of checkAcyclicHelper
  abstractMethods, methods, implements  \* the maps and set of getInheritedMethods

vars == <<program, unchecked, current, pc, stack, visited, inStack,
          abstractMethods, methods, implements>>

search      == <<visited, inStack>>
inheritance == <<abstractMethods, methods, implements>>

p == ProgramOf[program]
Types == DOMAIN p

isClass(t)     == p[t].kind = "class"
isInterface(t) == p[t].kind = "interface"

\* getSuperClasses: the class extended, then java.lang.Object.
SuperClasses(t) ==
  IF ~isClass(t) \/ t = Object THEN << >> ELSE Append(p[t].extends, Object)

SuperInterfaces(t) == p[t].interfaces

\* The supertypes in the order checkAcyclicHelper looks at them.
Supertypes(t) == SuperClasses(t) \o SuperInterfaces(t)

\* The supertypes in the order getInheritedMethods looks at them.
Candidates(t) == SuperInterfaces(t) \o SuperClasses(t)

\* Those it calls itself for: sanitizedSuperClasses leaves java.lang.Object out.
Follows(t, n) ==
  /\ n <= Len(SuperInterfaces(t)) => isInterface(Candidates(t)[n])
  /\ n > Len(SuperInterfaces(t)) =>
       isClass(Candidates(t)[n]) /\ Candidates(t)[n] # Object

Parents(t) == {Candidates(t)[n] : n \in {k \in DOMAIN Candidates(t) : Follows(t, k)}}

NoMap == [s \in {} |-> 0]

Init ==
  /\ program \in DOMAIN ProgramOf
  /\ unchecked = Types
  /\ current = Object
  /\ pc = "next"
  /\ stack = << >>
  /\ visited = {} /\ inStack = {}
  /\ abstractMethods = NoMap /\ methods = NoMap /\ implements = {}

\* checkProperExtends
ProperExtends(t) ==
  /\ \A s \in Range(SuperClasses(t)) : isClass(s) /\ "final" \notin p[s].modifiers
  /\ \A s \in Range(SuperInterfaces(t)) : isInterface(s)
  /\ IsInjective(SuperInterfaces(t))

Frame(t) == [type |-> t, next |-> 1]

CheckDecl ==
  /\ pc = "next"
  /\ \E t \in unchecked :
       /\ unchecked' = unchecked \ {t}
       /\ current' = t
       /\ IF ProperExtends(t)
          THEN /\ pc' = "acyclic"
               /\ stack' = <<Frame(t)>>
               /\ visited' = {t} /\ inStack' = {t}
          ELSE pc' = "refused" /\ UNCHANGED <<stack, search>>
  /\ UNCHANGED <<program, inheritance>>

Accept ==
  /\ pc = "next" /\ unchecked = {}
  /\ pc' = "accepted"
  /\ UNCHANGED <<program, unchecked, current, stack, search, inheritance>>
-----------------------------------------------------------------------------
(***************************************************************************)
(* checkAcyclicHelper.                                                     *)
(***************************************************************************)
Top == Last(stack)

\* Mutant: the caller is where it was before the call.
ReturnedToCall(frames) == Front(frames)

\* The stack after its last call has returned.
Returned(frames) ==
  IF Len(frames) = 1 THEN << >>
  ELSE [Front(frames) EXCEPT ![Len(frames) - 1].next = @ + 1]

\* The supertype the top call is at.
AtSupertype == pc = "acyclic" /\ Top.next \in DOMAIN Supertypes(Top.type)
Supertype   == Supertypes(Top.type)[Top.next]

Descend ==
  /\ AtSupertype /\ Supertype \notin visited
  /\ stack' = Append(stack, Frame(Supertype))
  /\ visited' = visited \cup {Supertype}
  /\ inStack' = inStack \cup {Supertype}
  /\ UNCHANGED <<program, unchecked, current, pc, inheritance>>

Skip ==
  /\ AtSupertype /\ Supertype \in visited \ inStack
  /\ stack' = [stack EXCEPT ![Len(stack)].next = @ + 1]
  /\ UNCHANGED <<program, unchecked, current, pc, search, inheritance>>

\* A class does not look at what the call for an interface of its returns.
Ignores(frame) == isClass(frame.type) /\ frame.next > Len(SuperClasses(frame.type))

\* false is returned from call to call, up to the last one that ignores it; the
\* types of the calls it leaves stay in inStack.
MeetCycle ==
  /\ AtSupertype /\ Supertype \in inStack
  /\ LET ignoring == {n \in 1..(Len(stack) - 1) : Ignores(stack[n])}
     IN  \/ ignoring = {} /\ pc' = "cyclic" /\ UNCHANGED stack
         \/ \E n \in ignoring :
              /\ \A o \in ignoring : o <= n
              /\ stack' = Returned(SubSeq(stack, 1, n + 1))
              /\ UNCHANGED pc
  /\ UNCHANGED <<program, unchecked, current, search, inheritance>>

\* Mutant: a type leaves the search for ever once it has been looked at.
ForgetStack == inStack' = {}

LeaveStack == inStack' = inStack \ {Top.type}

EndSupertypes ==
  /\ pc = "acyclic" /\ Top.next \notin DOMAIN Supertypes(Top.type)
  /\ LeaveStack
  /\ stack' = Returned(stack)
  /\ pc' = IF Len(stack) = 1 THEN "duplicates" ELSE pc
  /\ UNCHANGED <<program, unchecked, current, visited, inheritance>>

\* checkDuplicateSignatures, then the call of getInheritedMethods
DuplicateSignatures(t) ==
  \E m, n \in DOMAIN p[t].methods :
    /\ m # n
    /\ p[t].methods[m].signature = p[t].methods[n].signature
    /\ p[t].methods[m].constructor = p[t].methods[n].constructor

CheckDuplicateSignatures ==
  /\ pc = "duplicates"
  /\ IF DuplicateSignatures(current)
     THEN pc' = "refused" /\ UNCHANGED <<stack, inheritance>>
     ELSE /\ pc' = "inherit"
          /\ stack' = <<Frame(current)>>
          /\ abstractMethods' = NoMap /\ methods' = NoMap /\ implements' = {}
  /\ UNCHANGED <<program, unchecked, current, search>>
-----------------------------------------------------------------------------
(***************************************************************************)
(* getInheritedMethods: a call goes through what its type inherits, then   *)
(* through the type's own methods.  Nothing remembers the types it has     *)
(* been to, so a cycle among them is followed for ever: a stack that would *)
(* hold some type twice stands for one without end.                        *)
(***************************************************************************)
Conflicts(m) ==
  \E map \in {abstractMethods, methods} :
    m.signature \in DOMAIN map /\ map[m.signature].result # m.result

AddIfAbsent(map, m) ==
  [s \in DOMAIN map \cup {m.signature} |-> IF s \in DOMAIN map THEN map[s] ELSE m]

IsAbstract(t, m) == isInterface(t) \/ "abstract" \in m.modifiers

AtCandidate == pc = "inherit" /\ Top.next \in DOMAIN Candidates(Top.type)

PassOver ==
  /\ AtCandidate /\ ~Follows(Top.type, Top.next)
  /\ stack' = [stack EXCEPT ![Len(stack)].next = @ + 1]
  /\ UNCHANGED <<program, unchecked, current, pc, search, inheritance>>

InheritFrom ==
  /\ AtCandidate /\ Follows(Top.type, Top.next)
  /\ IF Len(stack) = Cardinality(Types)
     THEN pc' = "overflow" /\ UNCHANGED stack
     ELSE /\ stack' = Append(stack, Frame(Candidates(Top.type)[Top.next]))
          /\ UNCHANGED pc
  /\ UNCHANGED <<program, unchecked, current, search, inheritance>>

\* The method of its own the top call is at.
AtOwnMethod(m) ==
  LET own == p[Top.type].methods
      n   == Top.next - Len(Candidates(Top.type))
  IN  n \in DOMAIN own /\ m = own[n]

\* Mutant: a new abstract declaration leaves what implemented the last one.
KeepImplemented(m) == implements

AfterAbstract(m) == implements \ {m.signature}

AddAbstract(m) ==
  /\ abstractMethods' = AddIfAbsent(abstractMethods, m)
  /\ implements' = AfterAbstract(m)
  /\ UNCHANGED methods

\* Mutant: every method with a body implements something.
AddConcreteAlways(m) ==
  /\ methods' = AddIfAbsent(methods, m)
  /\ implements' = implements \cup {m.signature}
  /\ UNCHANGED abstractMethods

AddConcrete(m) ==
  /\ methods' = AddIfAbsent(methods, m)
  /\ implements' = IF m.signature \in DOMAIN abstractMethods
                   THEN implements \cup {m.signature} ELSE implements
  /\ UNCHANGED abstractMethods

AddOwnMethod ==
  /\ pc = "inherit"
  /\ \E m \in Range(p[Top.type].methods) :
       /\ AtOwnMethod(m)
       /\ IF ~m.constructor /\ Conflicts(m)
          THEN pc' = "refused" /\ UNCHANGED <<stack, inheritance>>
          ELSE /\ stack' = [stack EXCEPT ![Len(stack)].next = @ + 1]
               /\ IF m.constructor THEN UNCHANGED inheritance
                  ELSE IF IsAbstract(Top.type, m) THEN AddAbstract(m)
                  ELSE AddConcrete(m)
               /\ UNCHANGED pc
  /\ UNCHANGED <<program, unchecked, current, search>>

EndInherited ==
  /\ pc = "inherit"
  /\ Top.next > Len(Candidates(Top.type)) + Len(p[Top.type].methods)
  /\ stack' = Returned(stack)
  /\ pc' = IF Len(stack) = 1 THEN "overrides" ELSE pc
  /\ UNCHANGED <<program, unchecked, current, search, inheritance>>
-----------------------------------------------------------------------------
(***************************************************************************)
(* The end of checkInheritence and the checks on overriding, which compare *)
(* a type's methods with those its direct supertypes declare.              *)
(***************************************************************************)
Own(t) == Range(p[t].methods)

Unimplemented == DOMAIN abstractMethods \ implements

ImplementsAll(t) ==
  isClass(t) /\ "abstract" \notin p[t].modifiers =>
    /\ \A m \in Own(t) : "abstract" \notin m.modifiers
    /\ Unimplemented = {}

\* What m of t is compared with.
Replaced(t, m) ==
  LET direct == IF isClass(t) THEN {s \in Range(SuperClasses(t)) : isClass(s)}
                ELSE {s \in Range(SuperInterfaces(t)) : isInterface(s)}
  IN  {n \in UNION {Own(s) : s \in direct} : n.signature = m.signature}

\* checkStaticMethodOverride, checkNonStaticMethodOverride
KeepsStatic(m, n) == "static" \in m.modifiers <=> "static" \in n.modifiers

\* checkFinalMethodOverride, and part of checkMethodReturnTypeOverride
NotFinal(n) == "final" \notin n.modifiers

\* Mutant: the result of what a class's method replaces is left to
\* getInheritedMethods, which does not see java.lang.Object.
MayReplaceAnyResult(t, m) ==
  /\ \A n \in Replaced(t, m) : KeepsStatic(m, n) /\ NotFinal(n)
  /\ isInterface(t) =>
       \A n \in Own(Object) :
         n.signature = m.signature => n.result = m.result /\ NotFinal(n)

MayReplace(t, m) ==
  /\ \A n \in Replaced(t, m) : KeepsStatic(m, n) /\ NotFinal(n)
  /\ isClass(t) => \A n \in Replaced(t, m) : n.result = m.result
  /\ isInterface(t) =>
       \A n \in Own(Object) :
         n.signature = m.signature => n.result = m.result /\ NotFinal(n)

\* checkProtectedMethodOverride, where it reaches a verdict: the method it
\* judges is the first one getInheritedMethods met.
SatisfiesPublic(t) ==
  isClass(t) /\ "abstract" \notin p[t].modifiers =>
    \A i \in {s \in Range(SuperInterfaces(t)) : isInterface(s)} :
      \A n \in Own(i) :
        "public" \in n.modifiers /\ n.signature \in DOMAIN methods =>
          "protected" \notin methods[n.signature].modifiers

CheckOverrides ==
  /\ pc = "overrides"
  /\ pc' = IF /\ ImplementsAll(current)
              /\ \A m \in Own(current) : MayReplace(current, m)
              /\ SatisfiesPublic(current)
           THEN "next" ELSE "refused"
  /\ UNCHANGED <<program, unchecked, current, stack, search, inheritance>>
-----------------------------------------------------------------------------
Ended == pc \in {"accepted", "refused", "cyclic", "overflow"}

Next ==
  \/ CheckDecl \/ Accept
  \/ Descend \/ Skip \/ MeetCycle \/ EndSupertypes
  \/ CheckDuplicateSignatures
  \/ PassOver \/ InheritFrom \/ AddOwnMethod \/ EndInherited
  \/ CheckOverrides

Spec == Init /\ [][Next]_vars /\ WF_vars(Next)
-----------------------------------------------------------------------------
(***************************************************************************)
(* Properties.                                                             *)
(***************************************************************************)
FrameSet == [type : Types, next : Nat \ {0}]

\* The two maps hold methods under their signatures, and what is implemented
\* is among what is abstract.
TypeOK ==
  /\ program \in DOMAIN ProgramOf
  /\ unchecked \subseteq Types /\ current \in Types
  /\ pc \in {"next", "acyclic", "duplicates", "inherit", "overrides",
             "accepted", "refused", "cyclic", "overflow"}
  /\ stack \in Seq(FrameSet) /\ Len(stack) <= Cardinality(Types)
  /\ pc \in {"acyclic", "inherit", "overflow"} => stack # << >>
  /\ visited \subseteq Types /\ inStack \subseteq visited
  /\ \A map \in {abstractMethods, methods} :
       \A s \in DOMAIN map : map[s] \in Method /\ map[s].signature = s
  /\ implements \subseteq DOMAIN abstractMethods

\* Some type of every set of types has no supertype in the set: no chain of
\* supertypes comes back to where it started.
Acyclic ==
  \A S \in SUBSET Types : S # {} => \E t \in S : Range(Supertypes(t)) \cap S = {}

\* The supertypes whose verdict checkAcyclicHelper does not drop.
Kin(t) == Range(IF isClass(t) THEN SuperClasses(t) ELSE SuperInterfaces(t))

\* No chain of kin from t comes to a cycle.
NoCycleAbove(t) ==
  \A S \in SUBSET Types : t \in S => \E s \in S : Kin(s) \cap S = {}

\* checkAcyclic decides what it is for: a type that passes has no cycle above
\* it among types of its kind, though a search stops at what it has seen; when
\* every type has passed there is no cycle at all, though classes drop the
\* verdict on their interfaces; a type that fails shows a cycle, types left
\* behind in inStack included; and inherited methods are gathered without end
\* round a cycle only.
DecidesAcyclicity ==
  /\ pc = "duplicates" => NoCycleAbove(current)
  /\ pc = "accepted"   => Acyclic
  /\ pc \in {"cyclic", "overflow"} => ~Acyclic

\* The types t inherits from, and t.
Ancestors(t) ==
  {a \in Types : \A S \in SUBSET Types :
     t \in S /\ (\A s \in S : Parents(s) \subseteq S) => a \in S}

\* The methods of t that others inherit, of one signature.
Declared(t, sig) == {m \in Own(t) : ~m.constructor /\ m.signature = sig}

Declarers(c, sig) == {d \in Ancestors(c) : isClass(d) /\ Declared(d, sig) # {}}

\* The nearest class to declare sig, from c upwards, gives it a body.
HasBody(c, sig) ==
  \E d \in Declarers(c, sig) :
    /\ Declarers(c, sig) \subseteq Ancestors(d)
    /\ \E m \in Declared(d, sig) : ~IsAbstract(d, m)

AbstractIn(t, sig) == \E m \in Declared(t, sig) : IsAbstract(t, m)

\* What a class must define to be concrete: what is abstract in some type it
\* inherits from, unless the nearest class to declare it has a body for it.
Required(c) ==
  {sig \in {m.signature : m \in UNION {Own(t) : t \in Ancestors(c)}} :
     (\E t \in Ancestors(c) : AbstractIn(t, sig)) /\ ~HasBody(c, sig)}

\* No type that t inherits from, which may be yet to be checked, declares a
\* signature twice.
DeclaresOnce(t) == \A a \in Ancestors(t) : ~DuplicateSignatures(a)

\* getInheritedMethods gathers, in one pass over the supertypes with one set
\* that it adds to and takes from, exactly what a concrete class still lacks;
\* and no class of a program that is accepted lacks anything, though types are
\* checked before those they inherit from.
FindsUnimplemented ==
  /\ pc = "overrides" /\ DeclaresOnce(current) => Unimplemented = Required(current)
  /\ pc = "accepted" =>
       \A c \in Types : isClass(c) /\ "abstract" \notin p[c].modifiers => Required(c) = {}

\* Once every type is accepted, two methods of one signature that any type
\* inherits, java.lang.Object's among them, have the same result, although
\* each check compares a method with one or two others only.
SameSignatureSameResult ==
  pc = "accepted" =>
    \A t \in Types : \A a, b \in Ancestors(t) \cup {Object} :
      \A m \in Own(a), n \in Own(b) :
        m.signature = n.signature /\ ~m.constructor /\ ~n.constructor => m.result = n.result

\* The checks end, on every program and in every order of its types, unless
\* the inherited methods of a type are gathered round a cycle.
CheckEnds == <>Ended

\* README.md's "ensuring no cycles in class hierarchies": no cycle is left for
\* the passes after checkAcyclic to follow.
CyclesAreRefused == pc # "overflow"

\* The compiler's "cannot override final method from superclass": no class
\* accepted declares again a final method of any class it inherits from.
FinalMethodsStayFinal ==
  pc = "accepted" =>
    \A t \in Types : \A a \in Ancestors(t) \ {t} :
      \A m \in Own(t), n \in Own(a) :
        m.signature = n.signature /\ ~m.constructor => "final" \notin n.modifiers
=============================================================================
