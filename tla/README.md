# Verification of the Joos compiler

TLA+ models of the compiler in this repository (`joosc`, a C++ compiler from a
Java 1.3 subset to x86), TLC configurations that check them on small instances,
and TLAPS proofs for all values of the constants.  Every definition follows the
code under `src/`; `PROJECT.json` gives the lines each one stands for.

## The system

`driver/joosc/main.cpp` runs a fixed sequence of passes over all files of a
program in one thread.  A pass that finds an error ends the compiler with exit
code 42; an exception that escapes one ends it as well.  Passes share the AST
(which they annotate in place), the environment and a few builders; nothing is
persistent, and nothing runs concurrently.  What makes the code hard is
elsewhere: the iteration order of hash containers keyed by strings and
pointers, work lists that must end and end right, memoised recursion that runs
before what it depends on has been verified, state left behind by one method
when the next is processed, and run-time behaviour of generated code that no
pass looks at again.

| Component | State it keeps | Operations | Talks to | Correct when |
|---|---|---|---|---|
| Lexer, parser | tokens, parse tree | parse, weed | the visitor | the tree means what the text says |
| Parse tree visitor, environment manager | the current scope number, the stack of local declarations, the set of names in use, the scope of the last field | visit a field, method, block, loop, declaration, expression | produces the AST and stamps expressions and variables with scope numbers | what an expression can view by its number is what was in force where it stands; no name is declared twice in force |
| Type linker | package trie, one context of names per file | build the table, add imports, packages and types to a context, resolve a name | AST, used by every later pass | a simple name has the one meaning the Java rules give it, whatever the order of files and imports |
| Hierarchy check | visited sets, inherited-method maps | acyclicity, overriding, abstract methods | linked types | exactly the ill-formed hierarchies are refused, and the check ends on cyclic ones |
| Expression resolver | evaluator stack, context of the declaration under work | classify names, choose fields, methods and constructors | AST, linker, hierarchy check, type resolver | the declaration found is the one Java chooses |
| Type and static resolver | evaluator stack, static context | type expressions, static access | AST | ill-typed expressions and instance members in static contexts are refused |
| AST validator, forward check | none | conditions, returns, initialisers, superclass constructors; forward references | resolved AST | a value fits where it goes; no field is read before its initialiser |
| CFG builder | graph under construction | one method per statement form, folding of loop conditions | AST | an edge exists when control may take it under the Java rules |
| Reachability analysis | mark per node, queue | breadth-first search, two checks | CFG | refuses exactly methods with an unreachable statement or a missing return |
| Live variable analysis | in and out sets, queue and its guard set | work list, dead assignment check | CFG | the least solution of the liveness equations |
| Method population, dispatch vectors | `allMethods`, conflict graph, colours, memoised vectors | populate, colour, build, print, verify | AST; read by the IR converter | each method of an object has its own slot, a field one offset along the hierarchy, and a call reaches the object's implementation |
| IR converter, TIR builder | label counters | templates for statements and expressions | AST, dispatch vectors | evaluation order and short-circuiting are those of Java |
| Canonicalizer | fresh temporaries | flatten nested calls and statements | IR | the same effects in the same order |
| Instruction selector | tile cache | one tile per IR node | IR, abstract assembly | the tiles compute what the node means |
| Basic allocator | slots of registers, next offset | number the registers, wrap instructions in loads and stores | one object for all methods, assembly generator | generated code does what the selected instructions do |
| Linear scan allocator | intervals, active set, free registers | scan, spill | refused by the driver | not reachable from the driver |
| Assembly generator, linking | symbols per file | prologue, labels, imports | allocator | frames hold what the allocator numbered |

## Modules

The modules follow the driver.  The front end decides what each name and
expression means (`FrontEnd`, made of the scopes, the linker and the resolvers);
the hierarchy check and the two flow analyses are algorithms in their own
right; the back end fixes what the generated program does: from the tree to
instructions with virtual registers (`Compilation`), from there to real
registers (`BasicAllocator`), and the tables it calls through
(`DispatchVector`).

| Module | Models |
|---|---|
| `LocalScopes` | `envManager`, `ScopeID`: entering and leaving blocks, declaring variables, the number an expression gets |
| `TypeLinker` | `typeLinker.cpp`: the symbol table, the five steps that make a file's context, the types a file names, `populateJavaLang` |
| `TypeResolver` | `typeResolver.cpp`: assignability, casts, the type of every expression |
| `ExprResolver` | `exprResolver.cpp`: names, field accesses, calls and object creations, with the choice among overloads, and the inherited members `hierarchyCheck.hpp` gives it |
| `StaticResolver` | `staticResolver.cpp`, `astValidator.cpp`, `forwardChecker.hpp`: the checks on resolved expressions |
| `FrontEnd` | the driver's passes from the visitor (`parseTreeVisitor.cpp`) to the forward check, one after another; composes the five above |
| `JavaTyping` | what the language says of the same programs, with no scope numbers, contexts or orders: the reference for `FrontEnd` |
| `HierarchyCheck` | `hierarchyCheck.hpp`: the cycle search, duplicate signatures, gathering of inherited methods, checks on overriding |
| `CFG` | `cfg.hpp`: graphs as records of nodes and edges, with reachability and liveness as graph notions |
| `CFGBuilder` | `cfgBuilder.cpp` and the use/def computation of `liveVariableAnalysis.cpp`, as operators from statements to graphs, constant folding included |
| `MethodBodies` | builder and reachability analysis composed, with the Java rules for unreachable statements as recursive functions on statements (`CompletesNormally`, `SomethingUnreachable`, `UpdateCutOff`), which rest on those for constant expressions, on the tree an expression spells (`JavaValue`), and not on the builder's folder; and the conditions the folder gets right (`KnownToFolder`) |
| `MethodBodyCheck` | what the two reachability checks promise, in one step: `Decide` |
| `ReachabilityAnalysis` | `reachabilityAnalysis.cpp` as a state machine: `Visit`, `Expand`, `EndExpand`, the two checks in the driver's order |
| `DeadAssignmentCheck` | what the live variable analysis promises |
| `LiveVariableAnalysis` | the work list of `liveVariableAnalysis.cpp`, from any initial order |
| `DispatchVector` | `populateMethodPass.hpp`, `dispatchVector.hpp/.cpp`: visiting classes, colouring, building each vector after its parent's, printing, verifying |
| `Ast` | the expressions and statements the back end takes, names being resolved, and the reverse Polish form (`Rpn`) the parse tree visitor makes of an expression |
| `TIR` | the nodes of `include/tir`, and `Call::makeExpr`, which turns arguments round |
| `ExprIRConverter` | `exprIRConverter.cpp` and the stack of `evaluator.hpp`: `evaluateList` and one operator per `eval...` function |
| `TIRBuilder` | `TIRBuilder.cpp`: statements, methods, static fields, filling of dispatch vectors |
| `Canonicalizer` | `canonicalizer.cpp`: expressions to statements and a pure expression, left to right |
| `InstructionSelector` | `instructionSelector.cpp`: the tile of every IR node |
| `Compilation` | the passes one after another, `assemblyGenerator.hpp`, and the program produced: a machine with frames, memory, the runtime |
| `JavaMeaning` | what a program means: an evaluator after the language, not the compiler |
| `JavaRun` | what compilation promises, as an abstract specification: the program writes what it should and ends as it should |
| `Arithmetic` | words, their signed values, division towards zero |
| `RegisterMachine` | executing an instruction on a register file, the meaning of its operation being a parameter (`Outcomes`) |
| `Instructions` | what `instruction.hpp` records of an instruction: operands, registers read and written unnamed, jumps, the stack |
| `X86` | the instruction classes one by one, with the registers each constructor marks, and what each does (`Execution`) |
| `VirtualMachine` | what allocation must preserve: the selected instructions on a machine with all the registers they name |
| `BasicAllocator` | `basicAllocator.hpp`, `registerAllocator.hpp`, the prologue of `assemblyGenerator.hpp`, and the execution of the code produced |
| `EnvironmentProofs` (linker and scopes), `WorklistLemmas`, `HierarchyProofs`, `CFGBuilderProofs`, `ReachabilityProofs`, `LiveVariableProofs`, `DispatchVectorProofs`, `BasicAllocatorProofs` | the theorems |
| `MC...` | the instances TLC checks |

How state and actions correspond to the code:

* *Scopes.*  A `ScopeID` is the sequence of the positions on the way to it;
  `parent_` is `Front`, and comparing parents by pointer is comparing sequences,
  because positions only grow and so no two scopes of a method are equal
  without being one.  `sizes` is what the visitor's frames hold: the
  value `EnterNewScope` returned, for the `ExitScope` to come.
* *Visitor.*  `script` is what is left to visit of a method, made when
  the method starts: calls on the environment manager in the order the visitor
  makes them, and in either order where C++ leaves it open (the condition and
  the else branch of an `if` are arguments of one call).
* *Linker.*  The trie is `packages` and `types`, sets of paths.  One action
  per step of `initContext`.  Entries of a package are met in any order, as the
  trie keeps children in an `unordered_map`, hence `pending`.
* *Resolvers.*  One step resolves one expression; inside, evaluation is an
  operator on trees, since the evaluator's stack is the recursion over its
  reverse Polish form.  `methodMap` iterates in any order: `order` lists the
  methods that share a name and a number of parameters, and the step picks
  it.  A result is `refused` where the code throws; an exception of any kind
  ends the compiler with the same code.
* *Hierarchy check.*  The recursions of `checkAcyclicHelper` and
  `getInheritedMethods` are stacks of frames, one step of a loop a step of the
  model.  Types are picked with `\E`, because `traverseTree` iterates over hash
  maps.  `Candidates` are the superinterfaces and then the superclasses, in the
  code's order, `Follows` the ones the loops call themselves for: what
  `sanitizedSuperClasses` leaves out, `java.lang.Object` and supertypes of the
  wrong kind, is passed over (`PassOver`).  `getInheritedMethods` remembers no
  types; a stack that would grow higher than there are types stands for the
  recursion that never ends (`pc = "overflow"`), which is proved to happen below
  a cycle only.
* *Analyses.*  A node of a `CFG` is a `CFGNode`; `marked` (`in`, `out`) are the
  fields of its analysis info; the queue is the local `std::queue`.  The
  statement under work and the index in its successors are state, because a
  step of the model is one pass through the inner loop.
* *Builder.*  Node k is the k-th that `cfgBuilder.cpp` makes, `Null` its null
  pointer.  The recursion of `buildStmt` is a recursive function from a statement
  and what comes after it to the graph so far and the entry of what was built;
  `Statements` are the statements of all methods, with those inside them.
* *Dispatch vectors.*  Hash sets and maps are listed in every order: classes,
  vertices and methods are picked with `\E` where the code iterates over an
  unordered container.  The recursion of `getDV` is a stack.
* *Compilation.*  `BuildIR`, `Canonicalize` and `Generate` are the three passes
  of the driver, `Load` what the loader does with the data section.  Then `pc`
  walks the instructions: `Step` executes the ones that only touch registers,
  flags and memory, the other actions those that use the stack (`push`, `add
  esp`, `call`, `ret`, a load above `ebp`).  A frame is a function's activation:
  its virtual registers, the words it has pushed, the arguments it was given,
  the way back.  `__malloc`, `__exception` and `nativeWrite` are not part of the
  repository; they are actions that do what the code around calls relies on
  (argument and result in `eax`).  Names stand for labels and fresh temporaries:
  the place of a node in the tree makes them unique, as counters do in the code.
  What the machine cannot do is no step of it: reading a register or a word
  of memory nobody has written, touching memory outside an object, jumping to
  where there is no code, dividing with an `edx` that is not the sign of `eax`.
  A program that gets there stops, which `RunsAsMeant` forbids.
* *Allocator.*  `registerOffsets` counts words (the code counts bytes, four a
  word).  A block of `newInstructions` keeps the loads, the instruction and the
  stores apart so that execution can name its place.  The code of a method is
  run as soon as it is made, which no later generation step can notice.
  Returning from a call is part of the `call` instruction's outcome: it leaves
  anything in the registers.

## Runs

| Run | Instance | Question |
|---|---|---|
| `front_end` | 1668 programs of three to six files with `java.lang.Object` and `java.lang.String`: imports of both kinds with clashes of types and packages; every operator on every pair of kinds of types, casts and assignments; names that are locals, fields, inherited fields, types and packages, at class, instance and static level, before and after their declaration; fields that one or two subclasses declare again with another type; calls, constructors and overloads with arguments of every kind, public, protected and static; statements whose scopes nest, end and redeclare | are scopes, contexts, names, calls, types and static contexts those of the language in every program accepted, and does each come to a verdict? |
| `overloads` (violation) | calls `this.m(e)` with two candidates | is a valid call never refused for want of a method?  It is: see below |
| `hierarchy` | two classes and two interfaces in 144 shapes, cyclic and improper ones included, and chains of three classes with one method declared abstract, concrete, final, static, protected, with another result as a constructor or twice by one class (576 programs); every order of the types | is acyclicity decided, is what a type lacks found exactly, do results agree, and do the checks end? |
| `hierarchy_cycles` (violation) | the same | is no cycle left for the passes after the search? |
| `hierarchy_final` (violation) | the same | is a final method never declared again below? |
| `reachability` | the graph of every method body up to two statements deep, with loops, returns and constant conditions whose values overflow, comparisons, quotients and null among them | does the search decide what graph reachability says, and what Java's rules for unreachable statements say where the folder knows the conditions; does a condition fold to its value in Java (two exceptions, below); does the search end? |
| `live_variables` | bodies with loops and assignments in up to three variables; every order of the initial work list | the least solution, exactly the dead assignments, and an end |
| `dispatch_vectors` | chains and trees of three classes with declared, inherited and overriding methods and fields, all iteration orders | properness, own slots, common field offsets, no exception, an end |
| `dispatch_calls` (violation) | the same | does a virtual call reach the object's implementation?  It does not: see below |
| `compiled` | 31 programs: every operator at the edges of words, short circuits, operands that change each other, nested calls with effects, recursion, loops, arrays and all their exceptions, objects with inherited and redeclared methods and fields, initialisers and a constructor, static fields of several classes in two orders | does the compiled program do what the source means, and do the forms the next stage takes for granted hold? |
| `constructor_arguments` (violation) | `new P(1, 2)` with two parameters | does a program that ends, end as the source means?  It does not: see below |
| `basic_allocator` | tiles of the instruction selector as methods, two or three in a row; words 0, 1, 2; every hash order and leftover | is the spilled code an implementation of the code with all its registers? |

The bounds and why they are enough.  A front-end program holds one unit that
varies, with at most seven members and expressions of at most three operators,
beside a class, an interface and a subclass to name (`MCFrontEnd`,
families `Linking`, `Operators`, `NamesPrograms`, `HidingPrograms`, `CallPrograms`,
`StatementPrograms`).  A pair of types, or of candidates, is what typing rules
and the choice of an overload compare; a hidden name needs one declaration in
front of another; a scope goes wrong when a block is left and another entered.
Many programs of every family are accepted and many refused, which
the properties about accepted programs need.  The hierarchy's hazards need a cycle met
from outside it (a class above two interfaces), a search left through a cycle
and gone on with (a second interface of the same class), and a declaration two
links up (three classes).  The analyses' hazards are joins, loops and
order: two levels of nesting give a loop in a branch, a branch in a loop, code
behind both, and every order of at most a handful of nodes.  The dispatch
hazards need a class between a class and its grandparent, hence three classes.
The allocator's need three registers in one instruction (the most a tile
names), a method after another one, a push and a call between two uses of a
register, and a way back; a stack of six words holds the largest frame and its
two arguments.  Words modulo 3 tell values apart there; in
`CFGBuilder` overflow decides verdicts, so its instances compute with 16 words
(`WordSize`) and have conditions that go beyond the largest; the proofs are for every even
number of words, 2^32 among them.

The back end's templates are compositional, so that each program needs a
construct in the places where the context matters: as a left and a right
operand, as an argument, as a condition, in a loop.  A template is the
same whatever the width of a word, so words have 16 bits, which keeps programs,
static fields (from `StaticBase`) and the heap (from `HeapBase`) at addresses
apart and lets products and sums overflow; `MaxArguments` is the most a checked
method has, with `this`.  The programs have one behaviour each: the machine is
deterministic, and what they do not do (below) is excluded by name.

`front_end` has safety properties only: whether a pass can take a step depends
on the whole resolution of an expression, which makes `ENABLED`, and with it
fairness, too costly for TLC.  It checks for deadlock instead: only a program
with a verdict has a step that changes nothing (`Verdict`), and every other step
goes forward, so that each program comes to a verdict.

Elsewhere fairness is `WF_vars(Next)` but in `Compilation`: each component is straight-line code of
one thread that always goes on, and has no environment that could delay it.
For `BasicAllocator` the generated program may loop for ever; the liveness
property concerns the allocation only.  `Compilation` assumes that the driver goes on to the next pass (`WF_phase(NextPass)`,
stated with the phase because a pass sets one and only then) and that the
process it made runs (`WF_vars(Run)`); programs end, because their meaning is
computed.  `CHECK_DEADLOCK FALSE` is set but in `front_end` and `overloads`, because
every one of these machines stops when its work is done.

### What the violation runs show

`overloads`: `areParameterTypesApplicable` asks whether the argument's type is
assigned *to* from the parameter's (`isAssignableTo(argument, parameter)`, where
the first is the type assigned to, exprResolver.cpp:1519).  It agrees with Java
when the types are equal.  A call that needs a conversion, or passes `null`,
finds nothing, or finds a method with narrower parameters, which the type
resolver then refuses, since it asks the right way round.  So a wrong method is never
accepted (`NamesAreJavas` holds), but valid calls are refused, contrary to
README.md:64 and to the comment at exprResolver.cpp:1416.

`hierarchy_cycles`: `checkAcyclicHelper` drops what the recursive call says of a
class's interface (the `if` at hierarchyCheck.hpp:166-168 has an empty body).
A class that implements an interface below a cycle of two interfaces passes when
it is met before them, and `getInheritedMethods` follows the cycle for ever.  In
the other order the program is refused properly: the hash map decides.  What the
proof shows is the rest of the story: no cyclic program is ever *accepted*.

`hierarchy_final`: `checkFinalMethodOverride` compares a class's methods with
those declared by its direct superclass and `java.lang.Object`.  With a class in
between that does not declare the method, a final method can be declared again.
The checks for static methods look no further either; results are compared in
`getInheritedMethods` as well, along the whole chain, and do agree.

`dispatch_calls`: the README of the compiler says the dispatch vector maps
method calls to the actual implementation at run time.
`DispatchVectorBuilder::addMethodsToGraph` connects all methods a class has,
among them an override and what it overrides, so that they have different
colours; the IR converter indexes the vector with the colour of the statically
resolved declaration.  On an object of the subclass that slot holds the
superclass's method, which the subclass also has.  `compiled` therefore gives
`B.get` and the `C.get` that overrides it different slots, as the builder does,
and asks objects of C for `C.get` through C's declaration and for methods that C
inherits; with a call of `B.get` on such an object `RunsAsMeant` fails.

`constructor_arguments`: an expression list is popped off a stack, so that
arguments come out in reverse (evaluator.hpp:81 notes it).  `Call::makeExpr` turns
those of a method round, but `evalNewObject` builds the constructor's `Call`
directly (exprIRConverter.cpp:1478): `new P(1, 2)` runs the constructor as
`P(2, 1)`, while the README of the compiler (README.md:95) has the translation
maintain semantic meaning.  One argument is its own reverse, which is why the
programs of `compiled` have constructors with at most one.

## Proofs

| Theorem | For every | Says |
|---|---|---|
| `EnvironmentProofs!NumbersFindWhatWasInForce`, `OneDeclarationPerName`, `ScopesTyped` | set of names, order of declarations, blocks and expressions | scope numbers find exactly what was in force; a name has one declaration in force |
| `EnvironmentProofs!ContextsAreShadowing`, `VerdictIsTheLanguages`, `LinkerTyped`, `LinkerReachesVerdict` | set of programs, order of files, imports and package entries | contexts follow shadowing; the linker accepts and links exactly as the language says; it comes to a verdict |
| `HierarchyProofs!AcyclicityIsDecided` | program, order of its types | a type that passes the cycle search has no cycle of its kind above it; an accepted program has no cycle; a refusal for a cycle, or a recursion without end, shows one |
| `HierarchyProofs!UnimplementedIsFound`, `ResultsAreKept`, `HierarchyTypes` | the same | `getInheritedMethods` leaves abstract exactly what a type lacks; methods of one signature agree in their result in an accepted program; its maps and stacks are typed |
| `HierarchyProofs!ChecksAdvance` | the same | every step brings the checks closer to their end |
| `CFGBuilderProofs!BuiltGraphsAreCFGs`, `BuiltSetsAreOfLocals` | set of statements of any size and depth, method made of them, width of a word | `buildCFG` makes the graphs the two analyses assume |
| `CFGBuilderProofs!GraphsFollowTheRules` | the same | control reaches the end of the graph just if the body can complete, and misses another node just if the Java rules, with Java's own constant expressions, call a statement unreachable or an update clause is cut off, when the folder knows the conditions of all loops (`KnownConditions`) |
| `CFGBuilderProofs!VerdictAgreesWithStatements` | the same, and set of methods | builder, folding and search together decide the Java rules on methods whose conditions the folder knows |
| `CFGBuilderProofs!FoldingIsJavas` | the same; conditions of any length | a condition that folds has, in Java, the value it folds to, unless it takes a remainder of a negative number or compares null with null |
| `ReachabilityProofs!TypeCorrect`, `MarksOnlyReachable`, `ForgetsNoFrontier`, `ImplementsMethodBodyCheck` | set of well-formed graphs | the search decides reachability: it implements `MethodBodyCheck` |
| `ReachabilityProofs!SearchAdvances`, `LiveVariableProofs!WorklistAdvances`, `NothingFoundIsDropped` | set of graphs, initial order | every step brings the searches closer to their end; the liveness sets only grow |
| `LiveVariableProofs!TypeCorrect`, `QueueAgreesWithSet`, `NoChangeUnnoticed`, `FindsOnlyLive`, `ImplementsDeadAssignmentCheck` | set of graphs, initial order | the work list decides liveness: it implements `DeadAssignmentCheck` |
| `DispatchVectorProofs!TypeCorrect`, `ColouringIsProper`, `NoSlotIsSharedByMethods`, `FieldOffsetsAgree`, `ColouringNeverThrows` | set of programs, order of classes, vertices and methods | the colouring is proper, so methods of a class do not share slots; field offsets agree |
| `DispatchVectorProofs!AColourIsAlwaysFree`, `ConstructionAdvances` | the same | a first free colour exists within the bound the model names; every step brings the passes closer to their end, the recursion of `getDV` included |
| `BasicAllocatorProofs!TypeCorrect`, `SlotsNeverShared`, `Implements` | program, table of outcomes, stack size, hash order | spilled code implements the selected instructions |
| `BasicAllocatorProofs!AllocatorAdvances` | the same | every step brings the allocation of a method closer to its end |

The arguments.

* *Scopes.*  An expression sees a declaration when the declaration's parent
  is a prefix of its scope and the element after it is no smaller.  So `ScopesInv` says: positions grow
  along a scope and with time; a declaration of the stack is an ancestor of the
  current scope, or a place before one; a declaration that is no longer on the
  stack is out of its view for good, because leaving a block counts
  its parent on by one; each block's declarations are the stack's part above its
  `sizes` entry; names on the stack differ and are `localScope`.
* *Linker.*  For each step of `initContext` an invariant says what the context
  holds after it (the meaning of a name by the steps done), with `pending` telling
  which types of the package on hand are not in yet, so that the order does not
  matter: a second type of a name makes it ambiguous, and an ambiguous
  name stays so until a later step names it.  The verdict follows: a
  step refuses when one clause of `WellFormed` fails, and at the end all of them have
  been asked.
* *Hierarchy.*  A type leaves `inStack` when all supertypes whose verdict counts
  have left it, so it has no cycle above it (`NoCycleAbove`, stated with sets: in
  every set that holds the type, some type has none of its kin in the set, which
  is passed up without induction).  What stays in `inStack` without being on the
  stack was left behind by a cycle.  Meeting a type of the stack again gives a
  set whose every member has a supertype in it.  When all types have passed, a
  set with an interface has a minimal one among its interfaces, one without has
  a minimal class, because `checkProperExtends` keeps the kinds apart: that makes
  up for the verdicts that classes dropped.
* *What is inherited.*  `InheritInv` follows the recursion of
  `getInheritedMethods`: the calls in progress are a chain of supertypes; each
  of them has noted, in the map of abstract or of concrete methods, what the
  candidates before its index inherit and the own methods it has been past
  (`FrameGathered`), all agreeing in their result; and for the last of them
  `implements` is, among the abstract signatures, what its own methods so far
  say, and failing those what the superclass it has returned from has a body
  for (`Settled`).  One set is added to and taken from, so the order matters:
  superinterfaces come before superclasses and both before a type's own methods.
  That a body found in a superclass is the type's own uses that no
  class is above itself, which the cycle search has shown before
  (`NoCycleAbove`).  A class that declares a signature twice, abstract once,
  breaks this until it is checked itself, hence `DeclaresOnce` in
  `FindsUnimplemented`: without it TLC has a counterexample in which the subclass is
  checked first.  An accepted program has checked them all, and each type that
  passed keeps its judgement, because none depends on the state.
* *Endings.*  For the linker, the hierarchy checks, the analyses, the dispatch
  vectors and the allocator a variant is proved: every step takes it down lexicographically, in orders that have no infinite descent
  (finite sets that shrink, numbers bounded by a length).  That is what liveness
  needs besides fairness and the absence of a deadlock, both of which stay with
  TLC.  For the hierarchy's walk the variant is the position in a finite
  set of walks, ordered as the recursion visits them: as nothing is remembered
  it may visit a type once for each path to it, but no path twice, and a path longer
  than there are types repeats one, by the pigeonhole principle.  For the work
  list it counts the facts not found yet, then the steps left without a new
  one: it needs that the sets only grow, since the equations are monotone.  For
  `getDV` it is the classes it was not called for: the parent of the class at hand is
  never among those under construction, or the program would have a cycle of
  classes.
* *Graphs.*  What is built for a statement is a region: the nodes it adds,
  entered at one node and left for one other (`Region`), together with two
  answers, whether control gets out of it and whether it misses one of its
  nodes.  One lemma for each way to put regions together (one after the other,
  an `if` with or without `else`, round a loop) gives the answers for the whole
  from those for the parts; a region does not notice edges added elsewhere
  (`SameEdges`).  One lemma per `Build...` operator shows that it puts its parts
  together in one of those ways and the answers are the ones the Java rules
  give; `EveryFragment` is the induction over the depth of a statement, made
  without an operator as parameter by taking a statement of least depth among
  those that fail.  `BuildStmt` and the rules are recursive functions: that they satisfy
  their equations is shown first, as the values at depths below n exist for every n (`RecursionByDepth`).
  The regions are built by what a condition folds to, the rules ask whether it is
  constant in Java; where the folder knows the condition (`KnownToFolder`) the two
  are the same (next point), in both directions.  So the theorem is about bodies
  whose loops have such conditions: with a variable, or made of numbers and
  truth values by the operators the folder has.
  With the sentinel in front the region is the graph, and the search's own
  theorem does the rest.
* *Folding.*  The folder runs along an expression with a stack, Java's value is
  a recursion on the tree it spells.  `InStep` joins them: behind each node either the
  folder has ended, or its stack is the one in front of the operand that
  ends there with that operand's value on top.  The folder's words are unsigned
  and Java's signed; they are congruent modulo `WordSize`, which sums,
  differences, products and negatives respect, and congruent signed words are
  equal.  Unsigned remainders respect it only for operands that are not
  negative: the code takes `-7 % 3 == -1` for false.  And the folder pushes false
  for the literal null (cfgBuilder.cpp:84-90), so that `null == null` is true for
  it and `while (null == null)` counts as a loop without end, although null is no constant expression.
  `FoldingAgreesWithJava` leaves out both (`NoNegativeRemainders`,
  `NoNullsCompared`).  The other way round it does not hold: comparisons
  with `<` and its like and quotients are constant in Java and unknown to the folder,
  so that code behind `while (1 < 2)` is not reported; conditions with them are
  outside `KnownToFolder`, as are the two above.
  The induction is along the nodes, by the first that is out of step.
* *Reachability.*  A mark is only put behind a mark, so marked nodes are
  reachable; and a marked node is queued, being expanded, or has its successors
  marked.  When the queue is empty the marked set is closed under successors
  and contains the entry, so it is the reachable set.  `FrontierIsQueued` is not
  inductive alone: it needs the index into the successor list of the node under
  work and the queue's contents being marked.
* *Liveness.*  Each set is below the least solution at any time; a node not
  waiting solves its equations.  With an empty queue the sets solve all
  equations and are below the least solution, hence are it.  The liveness notion
  in `CFG` is a path to a use without a definition between, not the equations.
* *Dispatch vectors.*  A colour is picked apart from the neighbours' colours
  and never changed, so properness is kept; all members of a class are pairwise
  neighbours, so a vector, filled in any order, has each member at its colour.
  A parent's fields are copied before its children's are appended, and a vector
  in the memo is never replaced.  That a colour is free is the pigeonhole
  principle on the neighbours' colours, that a first one is the least number of
  a set.
* *Allocator.*  `Inv` says that slots are numbered from 1 without gap or
  sharing; that exactly the registers of the method end up with one; that each
  block loads, names and stores the same registers by one injective assignment
  of instruction registers; that execution stays in the code and pushed words
  stay below the frame; and that the loads done for the instruction at hand
  still hold their slots' words.  The mapping reads a virtual register at its
  slot, or, while the stores run, in the instruction register about to be
  stored there.  Loads, stores and the allocator's own steps stutter; executing
  a block's instruction is the virtual machine's step, because its inputs have
  been loaded and its outputs wait to be stored.

The assumptions are those the modules name: graphs are well formed
(`CFG!IsCFG`: the graphs made by the builder are, by `BuiltGraphsAreCFGs` and `BuiltSetsAreOfLocals`),
statements are finitely deep, as a syntax tree is, with the grammar's clauses in a
`for` and declarations of locals (`StatementsAssumption`, `Depth` being how deep
each one goes), the graphs compared with the rules have been built without the
folder bringing the compiler down (`GraphsAreBuilt`: a remainder by a constant
zero does, and a `for` without a condition), loop conditions are in postfix form with operands of the types their
operators take, as the type resolver leaves them (`ConditionsAssumption`), programs are finite and acyclic (the hierarchy check has run, see `AcyclicityIsDecided`),
the code is made of tiles (`IsInstruction`: tiles name neither the three
instruction registers nor a written virtual register in a jump, a call writes
only eax).  TLC evaluates each of them on the instance it checks.

Only model-checked: liveness itself (`Termination`, `CheckEnds`, `AllocationEnds`),
for fairness is about `ENABLED`, which is beyond the provers; what is proved of it are
the variants above;
that names, calls, types and contexts are the language's (`NamesAreJavas`,
`TypesAreJavas`, `ContextsAreRespected`) and `FrontTypeOK`, because resolving an
expression and its reference are recursive on trees;
everything about `Compilation`, whose passes are recursive on trees (`RECURSIVE`
operators, induction over data): that compiled programs refine `JavaRun`, that
canonical form is canonical, that a conditional jump's false label follows it,
and that the argument words of a call are gone where paths meet.

## Plan

Done, in this order: the hierarchy check, the flow analyses, dispatch vectors
and the basic allocator; the back end from the tree to instructions; the front
end from the visitor to the forward check.

What is left, by what it would add:

1. Strings, casts and `instanceof` in `ExprIRConverter`, with the runtime's
   string methods, so that `compiled` covers every expression the front end types.
2. `LinearScan`: the interval list and active set against interference.  The
   driver refuses this allocator, so that nothing depends on it.
3. The IR simulator, whose meaning of the IR could be compared with
   `Compilation`'s machine.

Theorems worth having beyond those proved: canonical form preserves the trace of
effects for the statement forms whose definition is not recursive.

## Not modelled

Lexer and parser translate text, and their results are the inputs here.  Of the
visitor the models have what it asks of the environment (`FrontEnd`) and the
order it gives the nodes of an expression (`Ast`), not the shapes of parse nodes,
the ranges of literals and the checks on modifiers.

Of the front end: programs have passed the hierarchy check, so that there are no
static methods hidden by instance ones, and no cycles; that no class declares
a field twice is for the AST to refuse (astNode.cpp:81).  A subclass may declare
a field of its superclass again, which hides it.  That the nearest declaration
is found is checked for the class's own fields; where two superclasses
declare the name and the class does not, `getInheritedFields` keeps the topmost
(hierarchyCheck.hpp:430), so that with C below B below A and an f in A and in B,
`c.f` is A's.  There `NamesAreJavas` takes either field for right (`FieldsMeant` in
`JavaTyping`); with `FieldsOf` in its place `front_end` fails.  The programs
checked leave out what the code is known, by reading, not to do as Java does, so
that `NamesAreJavas`, `TypesAreJavas` and `ContextsAreRespected` say nothing about
it: static methods declared again in a subclass (`getInheritedMethods` keeps the
topmost), a cast of `null` to a primitive type, protected members named
through a qualifier that is not a variable or through a sibling subclass of the
same package, a user's class named `String`, and forward references between
static fields.  The code refuses more than Java, which those properties allow:
arguments that need conversion (`overloads`), an inherited field by its simple
name or a later static one in an instance initialiser, an unqualified call there
(a null pointer), `"a" == null`, comparing arrays, and methods that a class has
from `Object` only.

Of the expression converter: strings and their concatenation, casts and
`instanceof`, and the dispatch vectors of interfaces.  The programs checked
avoid what the code is known, by reading, not to do as Java does, so that
`RunsAsMeant` says nothing about it:

* objects made by a static initialiser, before vectors are filled
  (assemblyGenerator.hpp:141-171), and field initialisers that use `this`, fields
  of the object or `new` (exprIRConverter.cpp:1447-1450 refuses the last);
* the superclass's constructor, which is never called (a TODO at
  exprIRConverter.cpp:1475), and effects in field initialisers, which run before
  the constructor's arguments are evaluated;
* effects on both sides of `x.f = e` and `a[i] = e`: `e` comes first in the one, the
  bounds check in the other;
* a method called through a superclass's declaration on an object whose class
  overrides it, which runs the overridden method (`dispatch_calls`);
* the least int divided by -1, where `idiv` traps;
* fields and methods of null, which nothing checks;
* `for` without a condition, which `buildForStmt` dereferences.

Files, output directories and assembly text are input and output.
The simulator and the test driver are tools beside the compiler.
`nameDisambiguator.cpp`, `codeGen/cfgBuilder.cpp` and `greedyReordering.cpp`
are not built.  The components of the plan above are listed in `PROJECT.json`
with what stands in for them meanwhile.
