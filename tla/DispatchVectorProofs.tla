------------------------ MODULE DispatchVectorProofs ------------------------
(***************************************************************************)
(* For every program and every order of the vertices, the greedy colouring *)
(* is proper, so no slot of a dispatch vector is written twice, and field  *)
(* offsets agree along the hierarchy; a colour is always found, and each   *)
(* step brings the three passes closer to their end.                       *)
(***************************************************************************)
EXTENDS DispatchVector, WorklistLemmas, FiniteSetTheorems, WellFoundedInduction

LEMMA ProgramIsWellFormed ==
  ASSUME program \in Programs
  PROVE  /\ p.root \in p.classes
         /\ p.classes \subseteq Types(p)
         /\ \A c \in p.classes \ {p.root} : p.parent[c] \in p.classes
         /\ \A t \in Types(p) : p.declares[t] \subseteq Methods
         /\ \A c \in p.classes : AllMethods(p, c) \subseteq Methods
         /\ \A t \in Types(p) : Members(t) \subseteq Methods
         /\ \A c \in p.classes : Callable(c) \subseteq Methods
         /\ \A c \in p.classes : p.fields[c] \in Seq(Fields)
<1>1. IsProgram(p)
  BY ProgramsAssumption DEF p
<1>2. /\ p.root \in p.classes
      /\ p.classes \subseteq Types(p)
      /\ \A c \in p.classes \ {p.root} : p.parent[c] \in p.classes
      /\ \A t \in Types(p) : p.declares[t] \subseteq Methods
      /\ \A c \in p.classes : p.fields[c] \in Seq(Fields)
  BY <1>1 DEF IsProgram, Types
<1>3. \A c \in p.classes : AllMethods(p, c) \subseteq Methods
  BY <1>2 DEF AllMethods
<1>4. QED
  BY <1>2, <1>3 DEF Members, Callable

\* No step changes the program being compiled.
LEMMA ProgramIsFixed ==
  ASSUME [Next]_vars
  PROVE  program' = program /\ p' = p
BY DEF Next, vars, Visit, AssignColour, ColouringEnds, PrintVector, ConstructParent,
       Construct, VerifyColoured, p

LEMMA InitEstablishesTypeOK == Init => TypeOK
<1> SUFFICES ASSUME Init
             PROVE  TypeOK
  OBVIOUS
<1>1. calls \in Seq(p.classes) /\ DOMAIN classDVs = {}
  BY DEF Init
<1>2. QED
  BY <1>1 DEF Init, TypeOK

LEMMA StepKeepsTypeOK == TypeOK /\ [Next]_vars => TypeOK'
<1> SUFFICES ASSUME TypeOK, [Next]_vars
             PROVE  TypeOK'
  OBVIOUS
<1> USE ProgramIsFixed, ProgramIsWellFormed
<1>1. ASSUME NEW t \in Types(p), Visit(t)
      PROVE  TypeOK'
  <2>1. Members(t) \subseteq Methods
    BY <1>1 DEF TypeOK
  <2>2. neighbours' \in [Methods -> SUBSET Methods]
    BY <1>1, <2>1 DEF Visit, TypeOK
  <2>3. QED
    BY <1>1, <2>1, <2>2 DEF Visit, TypeOK
<1>2. ASSUME NEW m \in Methods, AssignColour(m)
      PROVE  TypeOK'
  <2>1. PICK k \in 1..(Cardinality(neighbours[m]) + 1) : colour' = [colour EXCEPT ![m] = k]
    BY <1>2 DEF AssignColour
  <2>2. k \in Nat
    BY <2>1
  <2>3. QED
    BY <1>2, <2>1, <2>2 DEF AssignColour, TypeOK
<1>3. CASE ColouringEnds
  BY <1>3 DEF ColouringEnds, TypeOK
<1>4. ASSUME NEW c \in p.classes, PrintVector(c)
      PROVE  TypeOK'
  <2>1. <<c>> \in Seq(p.classes)
    BY <1>4, SingletonQueue
  <2>2. << >> \in Seq(p.classes)
    OBVIOUS
  <2>3. QED
    BY <1>4, <2>1, <2>2 DEF PrintVector, TypeOK
<1>5. CASE ConstructParent
  <2>1. Head(calls) \in p.classes /\ Head(calls) # p.root
    BY <1>5 DEF ConstructParent, NeedsParent, TypeOK
  <2>2. p.parent[Head(calls)] \in p.classes
    BY <2>1 DEF TypeOK
  <2>3. <<p.parent[Head(calls)]>> \o calls \in Seq(p.classes)
    <3>1. <<p.parent[Head(calls)]>> \in Seq(p.classes)
      BY <2>2, SingletonQueue
    <3>2. QED
      BY <3>1 DEF TypeOK
  <2>4. QED
    BY <1>5, <2>3 DEF ConstructParent, TypeOK
<1>6. CASE Construct
  <2>1. Head(calls) \in p.classes /\ Tail(calls) \in Seq(p.classes)
    BY <1>6 DEF Construct, TypeOK
  <2>2. DOMAIN classDVs' = DOMAIN classDVs \cup {Head(calls)}
    BY <1>6 DEF Construct
  <2>3. QED
    BY <1>6, <2>1, <2>2 DEF Construct, TypeOK
<1>7. CASE VerifyColoured
  BY <1>7 DEF VerifyColoured, TypeOK
<1>8. CASE UNCHANGED vars
  BY <1>8 DEF vars, TypeOK
<1>9. QED
  BY <1>1, <1>2, <1>3, <1>4, <1>5, <1>6, <1>7, <1>8 DEF Next

\* Type correctness of the graph, the colouring and the construction stack.
THEOREM TypeCorrect == Spec => []TypeOK
<1>1. QED
  BY InitEstablishesTypeOK, StepKeepsTypeOK, PTL DEF Spec
-----------------------------------------------------------------------------
(***************************************************************************)
(* The inductive invariant.  That a slot is written once follows from the  *)
(* colouring being proper and complete and the graph being complete on the *)
(* members of each visited type; a colour, once assigned, never changes.   *)
(***************************************************************************)
GraphIsSimple ==
  \A m \in Methods : /\ m \notin neighbours[m]
                     /\ \A o \in neighbours[m] : m \in neighbours[o]

\* The members of a visited type conflict, constructors apart.
VisitedTypesConflict ==
  \A t \in Types(p) \ unvisited :
    /\ Members(t) \ p.constructors \subseteq methods
    /\ \A m, o \in Members(t) \ p.constructors : m # o => o \in neighbours[m]

\* Colours are assigned when the graph is complete, and to every vertex.
ColouringFollowsGraph ==
  /\ pc = "visit" /\ unvisited # {} => \A m \in Methods : colour[m] = 0
  /\ pc \in {"print", "done"} => unvisited = {} /\ Uncoloured = {}

\* Dispatch vectors are constructed when the colouring is complete.
VectorsFollowColours ==
  pc = "visit" => DOMAIN classDVs = {} /\ calls = << >>

GInv ==
  /\ TypeOK
  /\ GraphIsSimple
  /\ VisitedTypesConflict
  /\ ColouringFollowsGraph
  /\ VectorsFollowColours
  /\ ColoursAreProper

LEMMA InitEstablishesGInv == Init => GInv
<1> SUFFICES ASSUME Init
             PROVE  GInv
  OBVIOUS
<1>1. TypeOK
  BY InitEstablishesTypeOK
<1>2. GraphIsSimple /\ ColoursAreProper
  BY DEF Init, GraphIsSimple, ColoursAreProper
<1>3. VisitedTypesConflict /\ ColouringFollowsGraph
  BY DEF Init, VisitedTypesConflict, ColouringFollowsGraph
<1>4. VectorsFollowColours
  BY DEF Init, VectorsFollowColours
<1>5. QED
  BY <1>1, <1>2, <1>3, <1>4 DEF GInv

LEMMA StepKeepsGInv == GInv /\ [Next]_vars => GInv'
<1> SUFFICES ASSUME GInv, [Next]_vars
             PROVE  GInv'
  OBVIOUS
<1>0. TypeOK'
  BY StepKeepsTypeOK DEF GInv
<1> USE ProgramIsFixed, ProgramIsWellFormed DEF GInv
<1>1. ASSUME NEW t \in Types(p), Visit(t)
      PROVE  GInv'
  <2> DEFINE N(m) == {o \in Members(t) \ {m} : ~({m, o} \subseteq p.constructors)}
  <2>1. /\ \A m \in Methods \ Members(t) : neighbours'[m] = neighbours[m]
        /\ \A m \in Members(t) : neighbours'[m] = neighbours[m] \cup N(m)
        /\ Members(t) \subseteq Methods
    BY <1>1 DEF Visit, TypeOK
  <2>2. pc = "visit" /\ colour' = colour /\ \A m \in Methods : colour[m] = 0
    BY <1>1 DEF Visit, ColouringFollowsGraph
  <2>3. GraphIsSimple'
    <3>1. ASSUME NEW m \in Methods
          PROVE  m \notin neighbours'[m]
      BY <2>1 DEF GraphIsSimple
    <3>2. ASSUME NEW m \in Methods, NEW o \in neighbours'[m]
          PROVE  m \in neighbours'[o]
      <4>1. CASE o \in neighbours[m]
        <5>1. o \in Methods /\ m \in neighbours[o]
          BY <4>1 DEF GraphIsSimple, TypeOK
        <5>2. QED
          BY <2>1, <5>1
      <4>2. CASE o \notin neighbours[m]
        <5>1. m \in Members(t) /\ o \in N(m)
          BY <2>1, <3>2, <4>2
        <5>2. o \in Members(t) /\ m \in N(o)
          BY <5>1
        <5>3. QED
          BY <2>1, <5>2
      <4>3. QED
        BY <4>1, <4>2
    <3>3. QED
      BY <3>1, <3>2 DEF GraphIsSimple
  <2>4. VisitedTypesConflict'
    <3>1. ASSUME NEW u \in Types(p) \ unvisited', NEW m \in Members(u) \ p.constructors
          PROVE  /\ m \in methods'
                 /\ \A o \in Members(u) \ p.constructors : m # o => o \in neighbours'[m]
      <4>1. CASE u = t
        BY <1>1, <2>1, <3>1, <4>1 DEF Visit
      <4>2. CASE u # t
        <5>1. u \in Types(p) \ unvisited
          BY <1>1, <3>1, <4>2 DEF Visit
        <5>2. m \in Methods /\ neighbours[m] \subseteq neighbours'[m] /\ methods \subseteq methods'
          BY <1>1, <2>1, <3>1 DEF Visit, TypeOK
        <5>3. QED
          BY <3>1, <5>1, <5>2 DEF VisitedTypesConflict
      <4>3. QED
        BY <4>1, <4>2
    <3>2. QED
      BY <3>1 DEF VisitedTypesConflict, Members
  <2>5. ColouringFollowsGraph' /\ VectorsFollowColours'
    BY <1>1, <2>2 DEF Visit, ColouringFollowsGraph, VectorsFollowColours
  <2>6. ColoursAreProper'
    BY <2>2 DEF ColoursAreProper
  <2>7. QED
    BY <1>0, <2>3, <2>4, <2>5, <2>6
<1>2. ASSUME NEW m \in Methods, AssignColour(m)
      PROVE  GInv'
  <2>1. PICK k \in 1..(Cardinality(neighbours[m]) + 1) :
               IsFirstFree(m, k) /\ colour' = [colour EXCEPT ![m] = k]
    BY <1>2 DEF AssignColour
  <2>2. /\ k # 0 /\ k \notin UsedAround(m)
        /\ colour'[m] = k
        /\ \A o \in Methods \ {m} : colour'[o] = colour[o]
    BY <2>1 DEF IsFirstFree, TypeOK
  <2>3. UNCHANGED <<unvisited, methods, neighbours, classDVs, calls, pc>> /\ pc = "visit" /\ unvisited = {}
    BY <1>2 DEF AssignColour
  <2>4. ColoursAreProper'
    <3>1. ASSUME NEW a \in Methods, NEW b \in neighbours[a], colour'[a] # 0
          PROVE  colour'[a] # colour'[b]
      <4>1. b \in Methods /\ a \in neighbours[b] /\ a # b
        BY <3>1 DEF GraphIsSimple, TypeOK
      <4>2. CASE a = m
        <5>1. colour[b] = 0 \/ colour[b] \in UsedAround(m)
          BY <3>1, <4>2 DEF UsedAround
        <5>2. QED
          BY <2>2, <4>1, <4>2, <5>1
      <4>3. CASE b = m
        <5>1. colour[a] \in UsedAround(m)
          BY <2>2, <3>1, <4>1, <4>3 DEF UsedAround
        <5>2. QED
          BY <2>2, <4>1, <4>3, <5>1
      <4>4. CASE a # m /\ b # m
        BY <2>2, <3>1, <4>1, <4>4 DEF ColoursAreProper
      <4>5. QED
        BY <4>2, <4>3, <4>4
    <3>2. QED
      BY <2>3, <3>1 DEF ColoursAreProper
  <2>5. GraphIsSimple' /\ VisitedTypesConflict'
    BY <2>3 DEF GraphIsSimple, VisitedTypesConflict, Members
  <2>6. ColouringFollowsGraph' /\ VectorsFollowColours'
    BY <2>3 DEF ColouringFollowsGraph, VectorsFollowColours
  <2>7. QED
    BY <1>0, <2>4, <2>5, <2>6
<1>3. ASSUME \/ ColouringEnds
             \/ Construct
             \/ UNCHANGED vars
             \/ \E c \in p.classes : PrintVector(c)
             \/ ConstructParent
             \/ VerifyColoured
      PROVE  GInv'
  <2>1. UNCHANGED <<unvisited, methods, neighbours, colour>>
    BY <1>3 DEF ColouringEnds, Construct, vars, PrintVector, ConstructParent, VerifyColoured
  <2>2. GraphIsSimple' /\ VisitedTypesConflict' /\ ColoursAreProper'
    BY <2>1 DEF GraphIsSimple, VisitedTypesConflict, ColoursAreProper, Members
  <2>3. Uncoloured' = Uncoloured
    BY <2>1 DEF Uncoloured, Vertices
  <2>4. pc' = "visit" => pc = "visit" /\ UNCHANGED <<classDVs, calls>>
    BY <1>3 DEF ColouringEnds, Construct, vars, PrintVector, ConstructParent, VerifyColoured
  <2>5. pc' \in {"print", "done"} => unvisited = {} /\ Uncoloured = {}
    BY <1>3 DEF ColouringEnds, Construct, vars, PrintVector, ConstructParent, VerifyColoured,
                ColouringFollowsGraph
  <2>6. ColouringFollowsGraph'
    BY <2>1, <2>3, <2>4, <2>5 DEF ColouringFollowsGraph
  <2>7. VectorsFollowColours'
    BY <2>4 DEF VectorsFollowColours
  <2>8. QED
    BY <1>0, <2>2, <2>6, <2>7
<1>4. QED
  BY <1>1, <1>2, <1>3 DEF Next

LEMMA GInvIsInvariant == Spec => []GInv
<1>1. QED
  BY InitEstablishesGInv, StepKeepsGInv, PTL DEF Spec

\* The greedy colouring is proper at every moment, in every vertex order.
THEOREM ColouringIsProper == Spec => []ColoursAreProper
<1>1. GInv => ColoursAreProper
  BY DEF GInv
<1>2. QED
  BY <1>1, GInvIsInvariant, PTL
-----------------------------------------------------------------------------
\* Once the colouring is complete, the methods of a class have colours of
\* their own.
LEMMA MethodsOfAClassDiffer ==
  ASSUME GInv, pc = "print", NEW c \in p.classes,
         NEW m \in Callable(c), NEW o \in Callable(c), m # o
  PROVE  colour[m] # colour[o]
<1> USE ProgramIsWellFormed DEF GInv
<1>1. m \in Methods /\ o \in Methods /\ c \in Types(p) \ unvisited
  BY DEF TypeOK, ColouringFollowsGraph
<1>2. m \in Members(c) \ p.constructors /\ o \in Members(c) \ p.constructors
  BY DEF Callable, Members
<1>3. o \in neighbours[m]
  BY <1>1, <1>2 DEF VisitedTypesConflict
<1>4. colour[m] # 0
  BY <1>1, <1>3 DEF ColouringFollowsGraph, Uncoloured, Vertices
<1>5. QED
  BY <1>1, <1>3, <1>4 DEF ColoursAreProper

\* A vector's slots hold the methods of its class, whichever is written last.
LEMMA VectorHoldsMethods ==
  ASSUME GInv, pc = "print", NEW c \in p.classes, NEW kept \in LastWritten(c),
         NEW m \in Callable(c)
  PROVE  /\ colour[m] \in DOMAIN MethodVector(c, kept)
         /\ MethodVector(c, kept)[colour[m]] = m
<1>1. m \in Methods /\ colour[m] \in Nat
  BY ProgramIsWellFormed DEF GInv, TypeOK
<1>2. kept \subseteq Callable(c)
  BY DEF LastWritten
<1>3. \A k \in kept : colour[k] = colour[m] => k = m
  BY <1>2, MethodsOfAClassDiffer
<1>4. m \in kept
  <2>1. PICK k \in kept : colour[k] = colour[m]
    BY DEF LastWritten
  <2>2. QED
    BY <1>3, <2>1
<1>5. (CHOOSE k \in kept : colour[k] = colour[m]) = m
  BY <1>3, <1>4
<1>6. colour[m] \in UNION {0..colour[k] : k \in Callable(c)}
  BY <1>1
<1>7. QED
  BY <1>4, <1>5, <1>6 DEF MethodVector

\* Each vector continues its parent's field layout.
LayoutsExtend ==
  \A c \in DOMAIN classDVs :
    /\ classDVs[c].fields \in Seq(Fields)
    /\ c = p.root => classDVs[c].fields = p.fields[c]
    /\ c # p.root => /\ p.parent[c] \in DOMAIN classDVs
                     /\ classDVs[c].fields = classDVs[p.parent[c]].fields \o p.fields[c]

VInv == GInv /\ SlotsHoldTheirMethods /\ LayoutsExtend

LEMMA InitEstablishesVInv == Init => VInv
<1> SUFFICES ASSUME Init
             PROVE  VInv
  OBVIOUS
<1>1. GInv
  BY InitEstablishesGInv
<1>2. DOMAIN classDVs = {}
  BY DEF Init
<1>3. QED
  BY <1>1, <1>2 DEF VInv, SlotsHoldTheirMethods, LayoutsExtend

LEMMA StepKeepsVInv == VInv /\ [Next]_vars => VInv'
<1> SUFFICES ASSUME VInv, [Next]_vars
             PROVE  VInv'
  OBVIOUS
<1>0. GInv'
  BY StepKeepsGInv DEF VInv
<1> USE ProgramIsFixed DEF VInv
<1>1. CASE Construct
  <2> DEFINE c == Head(calls)
  <2>1. c \in p.classes /\ pc = "print"
    BY <1>1 DEF Construct, GInv, TypeOK
  <2>2. PICK kept \in LastWritten(c) :
          classDVs' = [d \in DOMAIN classDVs \cup {c} |->
                         IF d = c THEN [methods |-> MethodVector(c, kept),
                                        fields  |-> FieldVector(c)]
                         ELSE classDVs[d]]
    BY <1>1 DEF Construct
  <2>3. /\ DOMAIN classDVs' = DOMAIN classDVs \cup {c}
        /\ classDVs'[c].methods = MethodVector(c, kept)
        /\ classDVs'[c].fields = FieldVector(c)
        /\ \A d \in DOMAIN classDVs \ {c} : classDVs'[d] = classDVs[d]
    BY <2>2
  <2>4. SlotsHoldTheirMethods'
    <3>1. \A m \in Callable(c) : /\ colour[m] \in DOMAIN classDVs'[c].methods
                                 /\ classDVs'[c].methods[colour[m]] = m
      BY <2>1, <2>3, VectorHoldsMethods
    <3>2. colour' = colour
      BY <1>1 DEF Construct
    <3>3. QED
      BY <2>3, <3>1, <3>2 DEF SlotsHoldTheirMethods, Callable
  <2>5. ASSUME c # p.root
        PROVE  /\ p.parent[c] \in DOMAIN classDVs
               /\ FieldVector(c) = classDVs[p.parent[c]].fields \o p.fields[c]
    BY <1>1, <2>5 DEF Construct, NeedsParent, FieldVector
  <2>6. FieldVector(c) \in Seq(Fields)
    <3>1. p.fields[c] \in Seq(Fields)
      BY <2>1, ProgramIsWellFormed DEF GInv, TypeOK
    <3>2. CASE c = p.root
      BY <3>1, <3>2 DEF FieldVector
    <3>3. CASE c # p.root
      <4>1. classDVs[p.parent[c]].fields \in Seq(Fields)
        BY <2>5, <3>3 DEF LayoutsExtend
      <4>2. classDVs[p.parent[c]].fields \o p.fields[c] \in Seq(Fields)
        BY ONLY <3>1, <4>1, Concatenation
      <4>3. QED
        BY <2>5, <3>3, <4>2
    <3>4. QED
      BY <3>2, <3>3
  <2>7. LayoutsExtend'
    <3>1. c \in DOMAIN classDVs => classDVs[c].fields = FieldVector(c)
      BY <2>5 DEF LayoutsExtend, FieldVector
    <3>2. \A d \in DOMAIN classDVs : classDVs'[d].fields = classDVs[d].fields
      BY <2>3, <3>1
    <3>3. ASSUME NEW d \in DOMAIN classDVs'
          PROVE  /\ classDVs'[d].fields \in Seq(Fields)
                 /\ d = p.root => classDVs'[d].fields = p.fields[d]
                 /\ d # p.root =>
                      /\ p.parent[d] \in DOMAIN classDVs'
                      /\ classDVs'[d].fields = classDVs'[p.parent[d]].fields \o p.fields[d]
      <4>1. CASE d = c
        BY <2>3, <2>5, <2>6, <3>2, <4>1 DEF FieldVector
      <4>2. CASE d # c
        <5>1. d \in DOMAIN classDVs
          BY <2>3, <3>3, <4>2
        <5>2. QED
          BY <2>3, <3>2, <5>1 DEF LayoutsExtend
      <4>3. QED
        BY <4>1, <4>2
    <3>4. QED
      BY <3>3 DEF LayoutsExtend
  <2>8. QED
    BY <1>0, <2>4, <2>7
<1>2. CASE pc = "visit"
  <2>1. DOMAIN classDVs = {} /\ classDVs' = classDVs
    BY <1>2 DEF GInv, VectorsFollowColours, Next, vars, Visit, AssignColour, ColouringEnds,
                PrintVector, ConstructParent, Construct, VerifyColoured
  <2>2. QED
    BY <1>0, <2>1 DEF SlotsHoldTheirMethods, LayoutsExtend
<1>3. CASE pc # "visit" /\ ~Construct
  <2>1. classDVs' = classDVs /\ colour' = colour
    BY <1>3 DEF Next, vars, Visit, AssignColour, ColouringEnds, PrintVector, ConstructParent,
                VerifyColoured
  <2>2. SlotsHoldTheirMethods'
    BY <2>1 DEF SlotsHoldTheirMethods, Callable
  <2>3. LayoutsExtend'
    BY <2>1 DEF LayoutsExtend
  <2>4. QED
    BY <1>0, <2>2, <2>3
<1>4. QED
  BY <1>1, <1>2, <1>3

LEMMA VInvIsInvariant == Spec => []VInv
<1>1. QED
  BY InitEstablishesVInv, StepKeepsVInv, PTL DEF Spec

\* Each method of a class is found in the class's vector at its own colour.
THEOREM NoSlotIsSharedByMethods == Spec => []SlotsHoldTheirMethods
<1>1. VInv => SlotsHoldTheirMethods
  BY DEF VInv
<1>2. QED
  BY <1>1, VInvIsInvariant, PTL

\* A field lies at one offset in the objects of a class and of its subclasses.
THEOREM FieldOffsetsAgree == Spec => []FieldsKeepTheirOffsets
<1>1. ASSUME VInv
      PROVE  FieldsKeepTheirOffsets
  <2> USE ProgramIsWellFormed DEF VInv, GInv, TypeOK
  <2> DEFINE Extends(a, c) ==
               \A k \in DOMAIN classDVs[a].fields :
                 /\ k \in DOMAIN classDVs[c].fields
                 /\ classDVs[c].fields[k] = classDVs[a].fields[k]
  <2>1. ASSUME NEW d \in DOMAIN classDVs \ {p.root}
        PROVE  p.parent[d] \in DOMAIN classDVs /\ Extends(p.parent[d], d)
    <3>1. /\ p.parent[d] \in DOMAIN classDVs
          /\ classDVs[p.parent[d]].fields \in Seq(Fields)
          /\ p.fields[d] \in Seq(Fields)
          /\ classDVs[d].fields = classDVs[p.parent[d]].fields \o p.fields[d]
      BY <1>1, <2>1 DEF LayoutsExtend
    <3>2. PICK s \in Seq(Fields), t \in Seq(Fields) :
            s = classDVs[p.parent[d]].fields /\ t = p.fields[d]
      BY ONLY <3>1
    <3>3. Extends(p.parent[d], d)
      <4>1. \A k \in DOMAIN s : k \in DOMAIN (s \o t) /\ (s \o t)[k] = s[k]
        BY ONLY Concatenation
      <4>2. classDVs[p.parent[d]].fields = s /\ classDVs[d].fields = s \o t
        BY ONLY <3>1, <3>2
      <4>3. QED
        BY ONLY <4>1, <4>2, Zenon
    <3>4. QED
      BY <3>1, <3>3
  <2>2. ASSUME NEW c \in DOMAIN classDVs, NEW a \in Superclasses(c)
        PROVE  a \in DOMAIN classDVs /\ Extends(a, c)
    <3> DEFINE S == {b \in DOMAIN classDVs : Extends(b, c)}
    <3>1. S \subseteq p.classes /\ c \in S
      BY <1>1
    <3>2. ASSUME NEW d \in S \ {p.root}
          PROVE  p.parent[d] \in S
      BY <2>1, <3>2
    <3>3. ClosedUnderParent(c, S)
      BY <3>1, <3>2 DEF ClosedUnderParent
    <3>4. QED
      BY <3>1, <3>3 DEF Superclasses
  <2>3. QED
    BY <2>2 DEF FieldsKeepTheirOffsets
<1>2. QED
  BY <1>1, VInvIsInvariant, PTL

\* Neither the lookup of a colour nor the verification of the colouring throws.
THEOREM ColouringNeverThrows == Spec => []NeverThrows
<1>1. Init => NeverThrows
  BY DEF Init, NeverThrows
<1>2. NeverThrows /\ GInv /\ [Next]_vars => NeverThrows'
  <2> SUFFICES ASSUME NeverThrows, GInv, [Next]_vars, \A c \in p.classes : AllMethods(p, c) # {}
               PROVE  pc' # "error"
    BY ProgramIsFixed DEF NeverThrows
  <2> USE ProgramIsWellFormed DEF GInv, TypeOK
  <2>0. pc # "error"
    BY DEF NeverThrows
  <2>1. ASSUME NEW t \in Types(p), Visit(t)
        PROVE  pc' # "error"
    BY <2>1 DEF Visit, Members
  <2>2. CASE Construct
    <3>1. Head(calls) \in p.classes /\ pc = "print" /\ unvisited = {}
      BY <2>2 DEF Construct, ColouringFollowsGraph
    <3>2. Callable(Head(calls)) \subseteq methods
      BY <3>1 DEF Callable, Members, VisitedTypesConflict
    <3>3. QED
      BY <2>2, <3>1, <3>2 DEF Construct
  <2>3. CASE VerifyColoured
    <3>1. ASSUME NEW m \in methods, NEW o \in neighbours[m]
          PROVE  colour[m] # colour[o]
      <4>1. m \in Methods /\ colour[m] # 0
        BY <2>3, <3>1 DEF VerifyColoured, ColouringFollowsGraph, Uncoloured, Vertices
      <4>2. QED
        BY <3>1, <4>1 DEF ColoursAreProper
    <3>2. QED
      BY <2>3, <3>1 DEF VerifyColoured
  <2>4. CASE \/ \E m \in Methods : AssignColour(m)
             \/ ColouringEnds
             \/ \E c \in p.classes : PrintVector(c)
             \/ ConstructParent
             \/ UNCHANGED vars
    BY <2>0, <2>4 DEF AssignColour, ColouringEnds, PrintVector, ConstructParent, vars
  <2>5. QED
    BY <2>1, <2>2, <2>3, <2>4 DEF Next
<1>3. QED
  BY <1>1, <1>2, GInvIsInvariant, PTL DEF Spec
-----------------------------------------------------------------------------
(***************************************************************************)
(* Progress.  A free colour is always found, no later than one above the   *)
(* number of neighbours, so the bound AssignColour puts on the colour cuts *)
(* off nothing; and every step uses up something there is finitely much    *)
(* of, the recursion of getDV included.                                    *)
(***************************************************************************)

\* The conflict graph never leaves the program.
GraphWithinProgram ==
  \A m \in Methods : /\ neighbours[m] \subseteq Declared(p)
                     /\ neighbours[m] # {} => m \in Declared(p)

LEMMA MembersAreDeclared ==
  ASSUME program \in Programs, NEW t \in Types(p)
  PROVE  Members(t) \subseteq Declared(p)
<1>1. /\ p.root \in Types(p)
      /\ \A c \in p.classes \ {p.root} : p.parent[c] \in Types(p)
  BY ProgramIsWellFormed
<1>2. \A u \in Types(p) : p.declares[u] \subseteq Declared(p)
  BY DEF Declared
<1>3. QED
  BY <1>1, <1>2 DEF Members, AllMethods

LEMMA GraphStaysWithinProgram == Spec => []GraphWithinProgram
<1>1. Init => GraphWithinProgram
  BY DEF Init, GraphWithinProgram
<1>2. TypeOK /\ GraphWithinProgram /\ [Next]_vars => GraphWithinProgram'
  <2> SUFFICES ASSUME TypeOK, GraphWithinProgram, [Next]_vars
               PROVE  GraphWithinProgram'
    OBVIOUS
  <2>1. p' = p
    BY ProgramIsFixed
  <2>2. ASSUME NEW t \in Types(p), Visit(t)
        PROVE  GraphWithinProgram'
    <3>1. Members(t) \subseteq Declared(p)
      BY MembersAreDeclared DEF TypeOK
    <3>2. ASSUME NEW m \in Methods
          PROVE  /\ neighbours'[m] \subseteq Declared(p)
                 /\ neighbours'[m] # {} => m \in Declared(p)
      <4>1. CASE m \in Members(t)
        <5>1. neighbours'[m] \subseteq neighbours[m] \cup Members(t)
          BY <2>2, <4>1 DEF Visit
        <5>2. QED
          BY <3>1, <4>1, <5>1 DEF GraphWithinProgram
      <4>2. CASE m \notin Members(t)
        <5>1. neighbours'[m] = neighbours[m]
          BY <2>2, <4>2 DEF Visit
        <5>2. QED
          BY <5>1 DEF GraphWithinProgram
      <4>3. QED
        BY <4>1, <4>2
    <3>3. QED
      BY <2>1, <3>2 DEF GraphWithinProgram, Declared
  <2>3. CASE neighbours' = neighbours
    BY <2>1, <2>3 DEF GraphWithinProgram, Declared
  <2>4. QED
    BY <2>2, <2>3 DEF Next, vars, AssignColour, ColouringEnds, PrintVector, ConstructParent,
                      Construct, VerifyColoured
<1>3. QED
  BY <1>1, <1>2, TypeCorrect, PTL DEF Spec

LEMMA GraphIsFinite ==
  ASSUME TypeOK, GraphWithinProgram
  PROVE  /\ \A m \in Methods : IsFiniteSet(neighbours[m])
         /\ IsFiniteSet(Uncoloured)
         /\ IsFiniteSet(unvisited) /\ IsFiniteSet(p.classes)
<1>1. IsProgram(p)
  BY ProgramsAssumption DEF TypeOK, p
<1>2. IsFiniteSet(Declared(p)) /\ IsFiniteSet(Types(p))
  BY <1>1 DEF IsProgram
<1>3. Uncoloured \subseteq Declared(p)
  BY DEF Uncoloured, Vertices, GraphWithinProgram
<1>4. \A m \in Methods : neighbours[m] \in SUBSET Declared(p)
  BY DEF GraphWithinProgram
<1>5. unvisited \in SUBSET Types(p) /\ p.classes \in SUBSET Types(p)
  BY DEF TypeOK, Types
<1>6. \A S \in SUBSET Declared(p) : IsFiniteSet(S)
  BY ONLY <1>2, FS_Subset
<1>7. \A S \in SUBSET Types(p) : IsFiniteSet(S)
  BY ONLY <1>2, FS_Subset
<1>8. QED
  BY <1>3, <1>4, <1>5, <1>6, <1>7

\* A non-empty set of numbers has a least one.
LEMMA LeastNumber ==
  ASSUME NEW S \in SUBSET Nat, S # {}
  PROVE  \E n \in S : \A k \in S : n <= k
<1> DEFINE R == OpToRel(<, Nat)
<1>1. IsWellFoundedOn(R, Nat)
  BY NatLessThanWellFounded
<1>2. \A i, j \in Nat : i < j => <<i, j>> \in R
  BY DEF OpToRel
<1> HIDE DEF R
<1>3. PICK n \in S : \A k \in S : <<k, n>> \notin R
  BY <1>1, WFMin
<1>4. \A k \in S : ~(k < n)
  BY <1>2, <1>3
<1>5. \A k \in S : n <= k
  BY <1>4
<1>6. QED
  BY <1>5

\* Among one number more than a vertex has neighbours, one is nobody's colour.
LEMMA SomeColourIsUnused ==
  ASSUME TypeOK, GraphWithinProgram, NEW m \in Methods
  PROVE  /\ Cardinality(neighbours[m]) \in Nat
         /\ \E k \in 1..(Cardinality(neighbours[m]) + 1) : k \notin UsedAround(m)
<1> DEFINE N == neighbours[m]
           c == Cardinality(N)
           g == [k \in 1..(c + 1) |-> CHOOSE o \in N : colour[o] = k]
<1>1. IsFiniteSet(N)
  BY GraphIsFinite
<1>2. c \in Nat
  BY <1>1, FS_CardinalityType
<1>3. ASSUME \A k \in 1..(c + 1) : k \in UsedAround(m)
      PROVE  FALSE
  <2>1. \A k \in 1..(c + 1) : \E o \in N : colour[o] = k
    BY <1>3 DEF UsedAround
  <2>2. \A k \in 1..(c + 1) : g[k] \in N /\ colour[g[k]] = k
    BY <2>1
  <2>3. g \in [1..(c + 1) -> N]
    BY <2>2
  <2>4. IsFiniteSet(1..(c + 1)) /\ Cardinality(1..(c + 1)) = c + 1
    BY <1>2, FS_Interval
  <2>5. c < Cardinality(1..(c + 1))
    BY <1>2, <2>4
  <2> HIDE DEF g
  <2>6. PICK x, y \in 1..(c + 1) : x # y /\ g[x] = g[y]
    BY <1>1, <2>3, <2>4, <2>5, FS_PigeonHole
  <2>7. QED
    BY <2>2, <2>6
<1>4. QED
  BY <1>2, <1>3

\* The loop of assignColours always finds a colour, and the bound the model
\* puts on it is never in its way.
ColourIsFree ==
  \A m \in Methods :
    \E k \in 1..(Cardinality(neighbours[m]) + 1) : IsFirstFree(m, k)

\* At every moment each method has a first free colour, at most one above the
\* number of its neighbours: assignColours never searches in vain.
THEOREM AColourIsAlwaysFree == Spec => []ColourIsFree
<1>1. ASSUME TypeOK, GraphWithinProgram
      PROVE  ColourIsFree
  <2> SUFFICES ASSUME NEW m \in Methods
               PROVE  \E k \in 1..(Cardinality(neighbours[m]) + 1) : IsFirstFree(m, k)
    BY DEF ColourIsFree
  <2> DEFINE c == Cardinality(neighbours[m])
             Free == {k \in 1..(c + 1) : k \notin UsedAround(m)}
  <2>1. c \in Nat /\ Free # {}
    BY <1>1, SomeColourIsUnused
  <2>2. Free \in SUBSET Nat
    BY <2>1
  <2>3. PICK k \in Free : \A j \in Free : k <= j
    BY <2>1, <2>2, LeastNumber
  <2>4. k \in 1..(c + 1) /\ k \notin UsedAround(m)
    BY <2>3
  <2>5. ASSUME NEW j \in 1..(k - 1)
        PROVE  j \in UsedAround(m)
    <3>1. j \in 1..(c + 1) /\ ~(k <= j)
      BY <2>1, <2>4, <2>5
    <3>2. QED
      BY <2>3, <3>1
  <2>6. QED
    BY <2>4, <2>5 DEF IsFirstFree
<1>2. QED
  BY <1>1, TypeCorrect, GraphStaysWithinProgram, PTL
-----------------------------------------------------------------------------
(***************************************************************************)
(* The recursion of getDV: the classes it has been called for are a chain  *)
(* of subclasses, each once, none with a vector.  A parent it is called    *)
(* for is new to the chain, since the classes from the parent down to the  *)
(* one at hand would otherwise make a cycle.                               *)
(***************************************************************************)
CallsAreAChain ==
  /\ \A i \in 1..Len(calls) : calls[i] \notin DOMAIN classDVs
  /\ \A i, j \in 1..Len(calls) : calls[i] = calls[j] => i = j
  /\ \A i \in 1..Len(calls) :
       i # 1 => calls[i] # p.root /\ calls[i - 1] = p.parent[calls[i]]

\* A sequence with an element put before it.
LEMMA PutBefore ==
  ASSUME NEW S, NEW s \in Seq(S), NEW a \in S
  PROVE  /\ Len(<<a>> \o s) = Len(s) + 1
         /\ (<<a>> \o s)[1] = a
         /\ \A i \in 2..(Len(s) + 1) : (<<a>> \o s)[i] = s[i - 1]
OBVIOUS

\* A sequence without its first element.
LEMMA WithoutFirst ==
  ASSUME NEW S, NEW s \in Seq(S), s # << >>
  PROVE  /\ Len(s) \in Nat \ {0} /\ Len(Tail(s)) = Len(s) - 1
         /\ Head(s) = s[1]
         /\ \A i \in 1..(Len(s) - 1) : Tail(s)[i] = s[i + 1]
OBVIOUS

\* The parent getDV is called for is not being constructed already.
LEMMA ParentIsNew ==
  ASSUME TypeOK, CallsAreAChain, calls # << >>, Head(calls) # p.root
  PROVE  \A i \in 1..Len(calls) : calls[i] # p.parent[Head(calls)]
<1>1. /\ Len(calls) \in Nat \ {0} /\ Head(calls) = calls[1]
      /\ \A i \in 1..Len(calls) : calls[i] \in p.classes
  BY WithoutFirst DEF TypeOK
<1>2. SUFFICES ASSUME NEW j \in 1..Len(calls), calls[j] = p.parent[calls[1]]
               PROVE  FALSE
  BY <1>1
<1> DEFINE S == {calls[i] : i \in 1..j}
<1>3. S \in SUBSET p.classes /\ calls[1] \in S
  BY <1>1
<1>4. IsProgram(p)
  BY ProgramsAssumption DEF TypeOK, p
<1>5. PICK d \in S : d = p.root \/ p.parent[d] \notin S
  BY <1>3, <1>4 DEF IsProgram
<1>6. PICK i \in 1..j : d = calls[i]
  BY <1>5
<1>7. CASE i = 1
  BY <1>1, <1>2, <1>5, <1>6, <1>7
<1>8. CASE i # 1
  <2>1. i \in 1..Len(calls) /\ i - 1 \in 1..j
    BY <1>1, <1>6, <1>8
  <2>2. calls[i] # p.root /\ calls[i - 1] = p.parent[calls[i]]
    BY <1>8, <2>1 DEF CallsAreAChain
  <2>3. QED
    BY <1>5, <1>6, <2>1, <2>2
<1>9. QED
  BY <1>7, <1>8

LEMMA CallsStayAChain == Spec => []CallsAreAChain
<1>1. Init => CallsAreAChain
  BY DEF Init, CallsAreAChain
<1>2. TypeOK /\ CallsAreAChain /\ [Next]_vars => CallsAreAChain'
  <2> SUFFICES ASSUME TypeOK, CallsAreAChain, [Next]_vars
               PROVE  CallsAreAChain'
    OBVIOUS
  <2>1. p' = p
    BY ProgramIsFixed
  <2>2. ASSUME NEW c \in p.classes, PrintVector(c)
        PROVE  CallsAreAChain'
    <3>1. classDVs' = classDVs
      BY <2>2 DEF PrintVector
    <3>2. CASE c \in DOMAIN classDVs
      <4>1. Len(calls') = 0
        BY <2>2, <3>2 DEF PrintVector
      <4>2. QED
        BY <4>1 DEF CallsAreAChain
    <3>3. CASE c \notin DOMAIN classDVs
      <4>1. Len(calls') = 1 /\ calls'[1] = c
        BY <2>2, <3>3 DEF PrintVector
      <4>2. QED
        BY <3>1, <3>3, <4>1 DEF CallsAreAChain
    <3>4. QED
      BY <3>2, <3>3
  <2>3. CASE ConstructParent
    <3> DEFINE h == Head(calls)
               n == Len(calls)
    <3>1. /\ calls # << >> /\ h # p.root /\ p.parent[h] \notin DOMAIN classDVs
          /\ calls' = <<p.parent[h]>> \o calls /\ classDVs' = classDVs
      BY <2>3 DEF ConstructParent, NeedsParent
    <3>2. n \in Nat \ {0} /\ h = calls[1] /\ calls \in Seq(p.classes)
      BY <3>1, WithoutFirst DEF TypeOK
    <3>3. p.parent[h] \in p.classes
      <4>1. h \in p.classes
        BY <3>1, <3>2
      <4>2. QED
        BY <3>1, <4>1, ProgramIsWellFormed DEF TypeOK
    <3>4. /\ Len(calls') = n + 1 /\ calls'[1] = p.parent[h]
          /\ \A i \in 2..(n + 1) : calls'[i] = calls[i - 1]
      BY <3>1, <3>2, <3>3, PutBefore
    <3>5. \A i \in 1..n : calls[i] # p.parent[h]
      BY <3>1, ParentIsNew
    <3> HIDE DEF h, n
    <3>6. /\ \A i \in 1..n : calls[i] \notin DOMAIN classDVs
          /\ \A i, j \in 1..n : calls[i] = calls[j] => i = j
          /\ \A i \in 1..n : i # 1 => calls[i] # p.root /\ calls[i - 1] = p.parent[calls[i]]
      BY DEF CallsAreAChain, n
    <3>7. \A i \in 1..(n + 1) : i = 1 \/ (i \in 2..(n + 1) /\ i - 1 \in 1..n)
      BY <3>2
    <3>8. \A i \in 1..(n + 1) : calls'[i] \notin DOMAIN classDVs'
      BY <3>1, <3>4, <3>6, <3>7
    <3>9. \A i, j \in 1..(n + 1) : calls'[i] = calls'[j] => i = j
      <4> SUFFICES ASSUME NEW i \in 1..(n + 1), NEW j \in 1..(n + 1), calls'[i] = calls'[j]
                   PROVE  i = j
        OBVIOUS
      <4>1. CASE i = 1 \/ j = 1
        BY <3>4, <3>5, <3>7, <4>1
      <4>2. CASE i # 1 /\ j # 1
        <5>1. i - 1 \in 1..n /\ j - 1 \in 1..n /\ calls[i - 1] = calls[j - 1]
          BY <3>4, <3>7, <4>2
        <5>2. i - 1 = j - 1
          BY <3>6, <5>1
        <5>3. QED
          BY <3>2, <5>2
      <4>3. QED
        BY <4>1, <4>2
    <3>10. ASSUME NEW i \in 1..(n + 1), i # 1
           PROVE  calls'[i] # p.root /\ calls'[i - 1] = p.parent[calls'[i]]
      <4>1. i \in 2..(n + 1) /\ i - 1 \in 1..n /\ calls'[i] = calls[i - 1]
        BY <3>4, <3>7, <3>10
      <4>2. CASE i = 2
        BY <3>1, <3>2, <3>4, <4>1, <4>2
      <4>3. CASE i # 2
        <5>1. i - 1 \in 2..(n + 1) /\ i - 1 # 1 /\ (i - 1) - 1 = i - 2
          BY <3>2, <4>1, <4>3
        <5>2. calls'[i - 1] = calls[i - 2]
          BY <3>4, <5>1
        <5>3. calls[i - 1] # p.root /\ calls[i - 2] = p.parent[calls[i - 1]]
          BY <3>6, <4>1, <5>1
        <5>4. QED
          BY <4>1, <5>2, <5>3
      <4>4. QED
        BY <4>2, <4>3
    <3>11. QED
      BY <2>1, <3>4, <3>8, <3>9, <3>10 DEF CallsAreAChain
  <2>4. CASE Construct
    <3> DEFINE n == Len(calls)
    <3>1. /\ calls # << >> /\ calls' = Tail(calls)
          /\ DOMAIN classDVs' = DOMAIN classDVs \cup {Head(calls)}
      BY <2>4 DEF Construct
    <3>2. /\ n \in Nat \ {0} /\ Len(calls') = n - 1 /\ Head(calls) = calls[1]
          /\ \A i \in 1..(n - 1) : calls'[i] = calls[i + 1]
      BY <3>1, WithoutFirst DEF TypeOK
    <3> HIDE DEF n
    <3>3. /\ \A i \in 1..n : calls[i] \notin DOMAIN classDVs
          /\ \A i, j \in 1..n : calls[i] = calls[j] => i = j
          /\ \A i \in 1..n : i # 1 => calls[i] # p.root /\ calls[i - 1] = p.parent[calls[i]]
      BY DEF CallsAreAChain, n
    <3>4. \A i \in 1..(n - 1) : i + 1 \in 1..n /\ i + 1 # 1 /\ (i + 1) - 1 = i
      BY <3>2
    <3>5. 1 \in 1..n
      BY <3>2
    <3>6. \A i \in 1..(n - 1) : calls'[i] \notin DOMAIN classDVs'
      BY <3>1, <3>2, <3>3, <3>4, <3>5
    <3>7. \A i, j \in 1..(n - 1) : calls'[i] = calls'[j] => i = j
      <4> SUFFICES ASSUME NEW i \in 1..(n - 1), NEW j \in 1..(n - 1), calls'[i] = calls'[j]
                   PROVE  i = j
        OBVIOUS
      <4>1. i + 1 = j + 1
        BY <3>2, <3>3, <3>4
      <4>2. QED
        BY <3>2, <4>1
    <3>8. ASSUME NEW i \in 1..(n - 1), i # 1
          PROVE  calls'[i] # p.root /\ calls'[i - 1] = p.parent[calls'[i]]
      <4>1. i - 1 \in 1..(n - 1) /\ (i - 1) + 1 = i
        BY <3>2, <3>8
      <4>2. calls'[i] = calls[i + 1] /\ calls'[i - 1] = calls[i]
        BY <3>2, <4>1
      <4>3. QED
        BY <3>3, <3>4, <4>2
    <3>9. QED
      BY <2>1, <3>2, <3>6, <3>7, <3>8 DEF CallsAreAChain
  <2>5. CASE UNCHANGED <<calls, classDVs>>
    BY <2>1, <2>5 DEF CallsAreAChain
  <2>6. QED
    BY <2>2, <2>3, <2>4, <2>5 DEF Next, vars, Visit, AssignColour, ColouringEnds, VerifyColoured
<1>3. QED
  BY <1>1, <1>2, TypeCorrect, PTL DEF Spec
-----------------------------------------------------------------------------
\* What a step can use up.
Shrinks(new, old) == IsFiniteSet(old) /\ new \subseteq old /\ new # old

\* The program's three passes, one after the other.
PassEnds ==
  \/ pc = "visit" /\ pc' # "visit"
  \/ pc = "print" /\ pc' \in {"done", "error"}

Unbuilt == p.classes \ DOMAIN classDVs

\* The classes getDV has not been called for.
Uncalled == {c \in p.classes : \A i \in 1..Len(calls) : calls[i] # c}

\* The variant, the weightiest first.
Advances ==
  \/ PassEnds
  \/ pc' = pc /\ Shrinks(unvisited', unvisited)
  \/ UNCHANGED <<pc, unvisited>> /\ Shrinks(Uncoloured', Uncoloured)
  \/ UNCHANGED <<pc, unvisited, Uncoloured>> /\ Shrinks(Unbuilt', Unbuilt)
  \/ UNCHANGED <<pc, unvisited, Uncoloured, Unbuilt>> /\ Shrinks(unprinted', unprinted)
  \/ /\ UNCHANGED <<pc, unvisited, Uncoloured, Unbuilt, unprinted>>
     /\ Shrinks(Uncalled', Uncalled)

LEMMA StepAdvances ==
  ASSUME TypeOK, GraphWithinProgram, CallsAreAChain, Next
  PROVE  Advances
<1>0. p' = p
  BY ProgramIsFixed
<1>1. /\ IsFiniteSet(unvisited) /\ IsFiniteSet(Uncoloured) /\ IsFiniteSet(p.classes)
      /\ unprinted \in SUBSET p.classes
  BY GraphIsFinite DEF TypeOK
<1>2. IsFiniteSet(Unbuilt) /\ IsFiniteSet(unprinted) /\ IsFiniteSet(Uncalled)
  <2>1. Unbuilt \in SUBSET p.classes /\ Uncalled \in SUBSET p.classes
    BY DEF Unbuilt, Uncalled
  <2>2. QED
    BY <1>1, <2>1, FS_Subset
<1>3. ASSUME NEW t \in Types(p), Visit(t)
      PROVE  Advances
  <2>1. Shrinks(unvisited', unvisited)
    BY <1>1, <1>3 DEF Visit, Shrinks
  <2>2. pc = "visit"
    BY <1>3 DEF Visit
  <2>3. QED
    BY <2>1, <2>2 DEF Advances, PassEnds
<1>4. ASSUME NEW m \in Methods, AssignColour(m)
      PROVE  Advances
  <2>1. PICK k \in 1..(Cardinality(neighbours[m]) + 1) : colour' = [colour EXCEPT ![m] = k]
    BY <1>4 DEF AssignColour
  <2>2. k # 0
    BY <2>1
  <2>3. UNCHANGED <<pc, unvisited, neighbours>> /\ m \in Uncoloured
    BY <1>4 DEF AssignColour
  <2>4. colour'[m] = k /\ \A o \in Methods \ {m} : colour'[o] = colour[o]
    BY <2>1 DEF TypeOK
  <2>5. m \notin Uncoloured' /\ Uncoloured' \subseteq Uncoloured
    BY <2>2, <2>3, <2>4 DEF Uncoloured, Vertices
  <2>6. Shrinks(Uncoloured', Uncoloured)
    BY <1>1, <2>3, <2>5 DEF Shrinks
  <2>7. QED
    BY <2>3, <2>6 DEF Advances
<1>5. CASE ColouringEnds \/ VerifyColoured
  BY <1>5 DEF ColouringEnds, VerifyColoured, Advances, PassEnds
<1>6. ASSUME NEW c \in p.classes, PrintVector(c)
      PROVE  Advances
  <2>1. UNCHANGED <<pc, unvisited, neighbours, colour, classDVs>>
    BY <1>6 DEF PrintVector
  <2>2. UNCHANGED <<pc, unvisited, Uncoloured, Unbuilt>>
    BY <1>0, <2>1 DEF Uncoloured, Vertices, Unbuilt
  <2>3. Shrinks(unprinted', unprinted)
    BY <1>2, <1>6 DEF PrintVector, Shrinks
  <2>4. QED
    BY <2>2, <2>3 DEF Advances
<1>7. CASE ConstructParent
  <2> DEFINE a == p.parent[Head(calls)]
  <2>1. /\ calls # << >> /\ Head(calls) # p.root /\ calls' = <<a>> \o calls
        /\ UNCHANGED <<pc, unvisited, neighbours, colour, classDVs, unprinted>>
    BY <1>7 DEF ConstructParent, NeedsParent
  <2>2. UNCHANGED <<pc, unvisited, Uncoloured, Unbuilt, unprinted>>
    BY <1>0, <2>1 DEF Uncoloured, Vertices, Unbuilt
  <2>3. calls \in Seq(p.classes) /\ Head(calls) \in p.classes /\ Len(calls) \in Nat
    BY <2>1 DEF TypeOK
  <2>4. a \in p.classes
    BY <2>1, <2>3, ProgramIsWellFormed DEF TypeOK
  <2>5. a \in Uncalled
    BY <2>1, <2>4, ParentIsNew DEF Uncalled
  <2> HIDE DEF a
  <2>6. /\ Len(calls') = Len(calls) + 1 /\ calls'[1] = a
        /\ \A i \in 2..(Len(calls) + 1) : calls'[i] = calls[i - 1]
    BY <2>1, <2>3, <2>4, PutBefore
  <2>7. a \notin Uncalled'
    BY <2>3, <2>6 DEF Uncalled
  <2>8. Uncalled' \subseteq Uncalled
    <3>1. \A i \in 1..Len(calls) : i + 1 \in 2..(Len(calls) + 1) /\ (i + 1) - 1 = i
      BY <2>3
    <3>2. \A i \in 1..Len(calls) : i + 1 \in 1..Len(calls') /\ calls'[i + 1] = calls[i]
      BY <2>3, <2>6, <3>1
    <3>3. QED
      BY <1>0, <3>2 DEF Uncalled
  <2>9. Shrinks(Uncalled', Uncalled)
    BY <1>2, <2>5, <2>7, <2>8 DEF Shrinks
  <2>10. QED
    BY <2>2, <2>9 DEF Advances
<1>8. CASE Construct
  <2>1. /\ calls # << >> /\ pc = "print"
        /\ DOMAIN classDVs' = DOMAIN classDVs \cup {Head(calls)}
        /\ pc' \in {"print", "error"}
        /\ UNCHANGED <<unvisited, neighbours, colour>>
    BY <1>8 DEF Construct
  <2>2. Head(calls) \in p.classes /\ Head(calls) = calls[1] /\ 1 \in 1..Len(calls)
    BY <2>1, WithoutFirst DEF TypeOK
  <2>3. Head(calls) \in Unbuilt
    BY <2>2 DEF CallsAreAChain, Unbuilt
  <2>4. Shrinks(Unbuilt', Unbuilt)
    BY <1>0, <1>2, <2>1, <2>3 DEF Unbuilt, Shrinks
  <2>5. UNCHANGED <<unvisited, Uncoloured>>
    BY <2>1 DEF Uncoloured, Vertices
  <2>6. QED
    BY <2>1, <2>4, <2>5 DEF Advances, PassEnds
<1>9. QED
  BY <1>3, <1>4, <1>5, <1>6, <1>7, <1>8 DEF Next

\* Every step ends a pass, or uses up a type, an uncoloured method, a missing
\* vector, a class to print or, calling getDV for a parent, a class not yet
\* called for, of each of which there are finitely many.  So the passes end, and
\* the recursion that constructs the vectors is no deeper than the classes.
THEOREM ConstructionAdvances == Spec => [][Advances]_vars
<1>1. TypeOK /\ GraphWithinProgram /\ CallsAreAChain /\ [Next]_vars => [Advances]_vars
  BY StepAdvances
<1>2. QED
  BY <1>1, TypeCorrect, GraphStaysWithinProgram, CallsStayAChain, PTL DEF Spec
=============================================================================
