--------------------------- MODULE DispatchVector ---------------------------
(***************************************************************************)
(* codeGen/dispatchVector.hpp and .cpp with ast/populateMethodPass.hpp:    *)
(* the conflict graph of the methods, its greedy colouring, and the        *)
(* dispatch vectors and field layouts of the classes, in the order         *)
(* joosc/main.cpp runs them.  The graph is coloured in the order of a hash *)
(* map and a vector is filled in the order of a hash set, which are any    *)
(* order.                                                                  *)
(*                                                                         *)
(* A program is a record                                                   *)
(*                                                                         *)
(*   classes, interfaces   the declared types, java.lang.Object among them *)
(*   root                  java.lang.Object                                *)
(*   parent                the class each class but root extends: root if  *)
(*                         its declaration names none                      *)
(*   declares              the methods and constructors of each type       *)
(*   constructors          which of them are constructors                  *)
(*   fields                the fields of each class, in order              *)
(***************************************************************************)
EXTENDS Naturals, Sequences, FiniteSets, Functions

CONSTANTS
  Programs,    \* the programs that passed the hierarchy check
  ProgramOf,
  Methods,     \* method declarations
  Fields,      \* field declarations
  NoMethod     \* a null entry of a dispatch vector

Types(p) == p.classes \cup p.interfaces

\* PopulateMethodPass: the methods of a class and of the class it extends,
\* java.lang.Object's besides.
AllMethods(p, c) ==
  p.declares[c] \cup p.declares[p.root]
    \cup (IF c = p.root THEN {} ELSE p.declares[p.parent[c]])

\* The methods and constructors of a program.
Declared(p) == UNION {p.declares[t] : t \in Types(p)}

\* A finite program with no cycle of classes, as checkAcyclic leaves them.
IsProgram(p) ==
  /\ p.root \in p.classes
  /\ p.parent \in [p.classes \ {p.root} -> p.classes]
  /\ \A S \in SUBSET p.classes :
       S # {} => \E c \in S : c = p.root \/ p.parent[c] \notin S
  /\ p.declares \in [Types(p) -> SUBSET Methods]
  /\ IsFiniteSet(Types(p)) /\ IsFiniteSet(Declared(p))
  /\ p.constructors \subseteq Methods
  /\ p.fields \in [p.classes -> Seq(Fields)]

ASSUME ProgramsAssumption == \A n \in Programs : IsProgram(ProgramOf[n])
ASSUME NoMethodAssumption == NoMethod \notin Methods

VARIABLES
  program,     \* the program being compiled
  unvisited,   \* types whose methods are not in the graph yet
  methods,     \* graph.methods: what getAssignment knows
  neighbours,  \* graph.neighbours: methods that must differ in colour
  colour,      \* graph.colour: 0 until a colour is assigned
  unprinted,   \* classes main's debugging output has not come to
  calls,       \* the classes whose dispatch vectors are being constructed
  classDVs,    \* the dispatch vectors constructed so far
  pc

vars == <<program, unvisited, methods, neighbours, colour, unprinted, calls, classDVs, pc>>

p == ProgramOf[program]

Init ==
  /\ program \in Programs
  /\ unvisited = Types(p)
  /\ methods = {}
  /\ neighbours = [m \in Methods |-> {}]
  /\ colour = [m \in Methods |-> 0]
  /\ unprinted = p.classes
  /\ calls = << >>
  /\ classDVs = << >>
  /\ pc = "visit"
-----------------------------------------------------------------------------
\* Mutant: a class brings only the methods it declares itself.
DeclaredMembers(t) == p.declares[t]

\* Mutant: a null method is among the members.
MembersAndNull(t) == p.declares[t] \cup {NoMethod}

\* The methods visitAST hands to addMethodsToGraph for a type.
Members(t) == IF t \in p.classes THEN AllMethods(p, t) ELSE p.declares[t]

\* visitAST and addMethodsToGraph: all members of a type conflict, except that
\* two constructors do not; constructors are vertices but not in methods.
Visit(t) ==
  /\ pc = "visit" /\ t \in unvisited
  /\ unvisited' = unvisited \ {t}
  /\ methods' = methods \cup (Members(t) \ p.constructors)
  /\ neighbours' =
       [m \in Methods |->
          IF m \notin Members(t) THEN neighbours[m]
          ELSE neighbours[m] \cup
                 {o \in Members(t) \ {m} : ~({m, o} \subseteq p.constructors)}]
  /\ pc' = IF t \in p.classes /\ Members(t) = {} THEN "error" ELSE "visit"
  /\ UNCHANGED <<program, colour, unprinted, calls, classDVs>>

Vertices == {m \in Methods : neighbours[m] # {}}

Uncoloured == {m \in Vertices : colour[m] = 0}

UsedAround(m) == {colour[o] : o \in neighbours[m]} \ {0}

\* Mutant: the search for a free colour looks at 1 only.
SecondIfFirstUsed(m, k) == k = IF 1 \in UsedAround(m) THEN 2 ELSE 1

\* The smallest positive number no coloured neighbour has.
IsFirstFree(m, k) == k \notin UsedAround(m) /\ (1..(k - 1)) \subseteq UsedAround(m)

\* assignColours, one vertex.  The first vertex takes colour 1 unseen, which is
\* the first free colour of a graph without colours.
AssignColour(m) ==
  /\ pc = "visit" /\ unvisited = {}
  /\ m \in Uncoloured
  /\ \E k \in 1..(Cardinality(neighbours[m]) + 1) :
       IsFirstFree(m, k) /\ colour' = [colour EXCEPT ![m] = k]
  /\ UNCHANGED <<program, unvisited, methods, neighbours, unprinted, calls, classDVs, pc>>

ColouringEnds ==
  /\ pc = "visit" /\ unvisited = {} /\ Uncoloured = {}
  /\ pc' = "print"
  /\ UNCHANGED <<program, unvisited, methods, neighbours, colour, unprinted, calls, classDVs>>
-----------------------------------------------------------------------------
\* The methods a dispatch vector has an entry for.
Callable(c) == AllMethods(p, c) \ p.constructors

\* main prints the dispatch vector of every class; getDV finds it or starts
\* its construction.
PrintVector(c) ==
  /\ pc = "print" /\ calls = << >> /\ c \in unprinted
  /\ unprinted' = unprinted \ {c}
  /\ calls' = IF c \in DOMAIN classDVs THEN << >> ELSE <<c>>
  /\ UNCHANGED <<program, unvisited, methods, neighbours, colour, classDVs, pc>>

\* Mutant: the memo of dispatch vectors is not consulted.
AlwaysNeedsParent(c) == c # p.root

\* The constructor asks getDV for the class's parent first.
NeedsParent(c) == c # p.root /\ p.parent[c] \notin DOMAIN classDVs

ConstructParent ==
  /\ pc = "print" /\ calls # << >> /\ NeedsParent(Head(calls))
  /\ calls' = <<p.parent[Head(calls)]>> \o calls
  /\ UNCHANGED <<program, unvisited, methods, neighbours, colour, unprinted, classDVs, pc>>

\* Mutant: a class's own fields come first.
OwnFieldsFirst(c) ==
  IF c = p.root THEN p.fields[c] ELSE p.fields[c] \o classDVs[p.parent[c]].fields

\* The parent's fields, then the class's own.
FieldVector(c) ==
  IF c = p.root THEN p.fields[c] ELSE classDVs[p.parent[c]].fields \o p.fields[c]

\* One method for each colour used in class c: if several have it, any of them
\* may be the last one written to their slot.
LastWritten(c) ==
  {kept \in SUBSET Callable(c) :
     /\ \A m \in Callable(c) : \E k \in kept : colour[k] = colour[m]
     /\ \A k, l \in kept : colour[k] = colour[l] => k = l}

\* A vector has a slot for every colour up to the largest used.
MethodVector(c, kept) ==
  [slot \in UNION {0..colour[m] : m \in Callable(c)} |->
     IF \E m \in kept : colour[m] = slot THEN CHOOSE m \in kept : colour[m] = slot
     ELSE NoMethod]

\* getAssignment throws for a method the graph does not have.
Construct ==
  /\ pc = "print" /\ calls # << >> /\ ~NeedsParent(Head(calls))
  /\ LET c == Head(calls)
     IN  \E kept \in LastWritten(c) :
           classDVs' = [d \in DOMAIN classDVs \cup {c} |->
                          IF d = c THEN [methods |-> MethodVector(c, kept),
                                         fields  |-> FieldVector(c)]
                          ELSE classDVs[d]]
  /\ calls' = Tail(calls)
  /\ pc' = IF Callable(Head(calls)) \subseteq methods THEN pc ELSE "error"
  /\ UNCHANGED <<program, unvisited, methods, neighbours, colour, unprinted>>

\* verifyColoured throws if a method shares its colour with a neighbour.
VerifyColoured ==
  /\ pc = "print" /\ calls = << >> /\ unprinted = {}
  /\ pc' = IF \E m \in methods : \E o \in neighbours[m] : colour[m] = colour[o]
           THEN "error" ELSE "done"
  /\ UNCHANGED <<program, unvisited, methods, neighbours, colour, unprinted, calls, classDVs>>

Next ==
  \/ \E t \in Types(p) : Visit(t)
  \/ \E m \in Methods : AssignColour(m)
  \/ ColouringEnds
  \/ \E c \in p.classes : PrintVector(c)
  \/ ConstructParent
  \/ Construct
  \/ VerifyColoured

\* The passes run to their end on one thread.
Spec == Init /\ [][Next]_vars /\ WF_vars(Next)
-----------------------------------------------------------------------------
\* The typing of the state: the graph and the colouring cover every method.
TypeOK ==
  /\ program \in Programs
  /\ unvisited \subseteq Types(p)
  /\ methods \subseteq Methods
  /\ neighbours \in [Methods -> SUBSET Methods]
  /\ colour \in [Methods -> Nat]
  /\ unprinted \subseteq p.classes
  /\ calls \in Seq(p.classes)
  /\ DOMAIN classDVs \subseteq p.classes
  /\ pc \in {"visit", "print", "done", "error"}

\* At no moment do two coloured methods that meet in one type share a colour,
\* in whatever order the hash map lists the vertices.
ColoursAreProper ==
  \A m \in Methods : \A o \in neighbours[m] :
    colour[m] # 0 => colour[m] # colour[o]

\* No slot is written twice: each method of a class is found in the class's
\* dispatch vector at its own colour.
SlotsHoldTheirMethods ==
  \A c \in DOMAIN classDVs : \A m \in Callable(c) :
    /\ colour[m] \in DOMAIN classDVs[c].methods
    /\ classDVs[c].methods[colour[m]] = m

\* Classes on the way from c to java.lang.Object.
ClosedUnderParent(c, S) ==
  /\ c \in S
  /\ \A d \in S \ {p.root} : p.parent[d] \in S

Superclasses(c) == {a \in p.classes : \A S \in SUBSET p.classes :
                                        ClosedUnderParent(c, S) => a \in S}

\* Code compiled for a superclass finds its fields in every subclass's objects:
\* a field's offset is the same in the vectors of both, in whatever order the
\* vectors were constructed.
FieldsKeepTheirOffsets ==
  \A c \in DOMAIN classDVs : \A a \in Superclasses(c) :
    /\ a \in DOMAIN classDVs
    /\ \A k \in DOMAIN classDVs[a].fields :
         /\ k \in DOMAIN classDVs[c].fields
         /\ classDVs[c].fields[k] = classDVs[a].fields[k]

\* Neither getAssignment nor verifyColoured ever throws on a program whose
\* classes have methods.
NeverThrows ==
  (\A c \in p.classes : AllMethods(p, c) # {}) => pc # "error"

\* Every class gets its dispatch vector.
Termination == <>(pc = "done" /\ DOMAIN classDVs = p.classes)
=============================================================================
