---------------------------- MODULE Compilation ----------------------------
(***************************************************************************)
(* The back end of driver/joosc/main.cpp on one program, and the program   *)
(* it makes: IR, canonical IR, instructions (codeGen/                      *)
(* assemblyGenerator.hpp), which then run.  Registers are virtual: their   *)
(* allocation is the module BasicAllocator's.  The runtime the assembly is *)
(* linked with is not part of the repository: its functions are here as    *)
(* the code uses them.                                                     *)
(***************************************************************************)
EXTENDS TIRBuilder, Canonicalizer, InstructionSelector, TLC

CONSTANTS
  Programs,       \* bound: the programs compiled
  MeaningOf(_)    \* what a program means, as [out, exit]

VARIABLES
  program, meaning,
  phase,   \* "source", "IR", "canonical", "assembly", "running"
  units,   \* the compilation units, one per class
  canon,   \* the units in canonical form
  code,    \* the instructions, linked
  pc,
  frames,  \* the frames of the functions called, innermost last
  gprs,    \* what the real registers hold, those that have been written
  world,   \* flags and memory
  heap,    \* where the next object goes
  out,     \* the bytes written
  exit     \* empty, or how the program has ended

vars == <<program, meaning, phase, units, canon, code, pc, frames, gprs, world, heap, out, exit>>

Runtime == <<"__malloc", "__exception", "NATIVEjava.io.OutputStream.nativeWrite">>

StaticBase == 4096
HeapBase   == 8192   \* bound: room for static fields below, for code below both
Argc       == 1      \* on the stack when a process starts

Pseudo(kind, label) == To(Instruction(kind, << >>), label)
-----------------------------------------------------------------------------
(***************************************************************************)
(* AssemblyGenerator: the functions, and _start, which initialises every   *)
(* static field, then fills every vector, then calls the entry.            *)
(***************************************************************************)
FunctionCode(f) == <<To(Label, f[1])>> \o selectTile(f[2], f[1])

SelectedAll(parts, n) ==
  FlattenSeq([k \in DOMAIN parts |-> selectTile(parts[k], n \o ToString(k))])

StartCode(lowered, entry) ==
  LET fields == FlattenSeq([u \in DOMAIN lowered |-> [k \in DOMAIN lowered[u].fields |-> lowered[u].fields[k][2]]])
      starts == FlattenSeq([u \in DOMAIN lowered |-> lowered[u].start])
  IN  <<To(Label, "_start")>> \o SelectedAll(fields, "static") \o SelectedAll(starts, "dv")
      \o <<Pseudo("leave", ""), Call(entry), Pseudo("exit", "")>>

StaticFields(lowered) ==
  FlattenSeq([u \in DOMAIN lowered |-> [k \in DOMAIN lowered[u].fields |-> lowered[u].fields[k][1]]])

StaticAddress(names, name) == StaticBase + 4 * SelectInSeq(names, LAMBDA x : x = name)

\* Labels become positions, names of static fields addresses.
Linked(unlinked, names) ==
  LET labels == [k \in DOMAIN unlinked |->
                   IF unlinked[k].op.kind = "label" THEN unlinked[k].op.label ELSE ""]
      position(label) == SelectInSeq(labels, LAMBDA x : x = label)
      link(i) == IF i.op.label = "" THEN i
                 ELSE CASE i.op.kind \in {"jmp", "je", "jnz"} -> [i EXCEPT !.target = position(i.op.label)]
                        [] i.op.kind \in {"call", "const"} -> [i EXCEPT !.op.value = position(i.op.label)]
                        [] i.op.kind \in {"loadStatic", "storeStatic"} ->
                             [i EXCEPT !.op.value = StaticAddress(names, i.op.label)]
                        [] OTHER -> i
  IN  [k \in DOMAIN unlinked |-> link(unlinked[k])]

generateAssembly(lowered, entry) ==
  LET functions == FlattenSeq([u \in DOMAIN lowered |-> lowered[u].functions])
      stubs     == FlattenSeq([k \in DOMAIN Runtime |->
                                 <<To(Label, Runtime[k]), Pseudo("runtime", Runtime[k])>>])
  IN  Linked(StartCode(lowered, entry)
               \o FlattenSeq([k \in DOMAIN functions |-> FunctionCode(functions[k])]) \o stubs,
             StaticFields(lowered))
-----------------------------------------------------------------------------
NewFrame(returnTo, args) == [returnTo |-> returnTo, args |-> args, virtual |-> << >>, pushed |-> << >>]

Init ==
  /\ program \in Programs
  /\ meaning = MeaningOf(program)
  /\ phase = "source"
  /\ units = << >> /\ canon = << >> /\ code = << >> /\ pc = 1
  /\ frames = <<NewFrame(0, << >>)>>
  /\ gprs = << >>
  /\ world = [zero |-> FALSE, less |-> FALSE, memory |-> << >>, cells |-> {}]
  /\ heap = HeapBase
  /\ out = << >> /\ exit = << >>

Machine == <<pc, frames, gprs, world, heap, out, exit>>

BuildIR ==
  /\ phase = "source" /\ phase' = "IR"
  /\ units' = [k \in DOMAIN program.classes |-> buildProgram(program, program.classes[k])]
  /\ UNCHANGED <<program, meaning, canon, code, Machine>>

Canonicalize ==
  /\ phase = "IR" /\ phase' = "canonical"
  /\ canon' = [k \in DOMAIN units |-> canonicalizeCompUnit(units[k])]
  /\ UNCHANGED <<program, meaning, units, code, Machine>>

Generate ==
  /\ phase = "canonical" /\ phase' = "assembly"
  /\ code' = generateAssembly(canon, program.entry)
  /\ UNCHANGED <<program, meaning, units, canon, Machine>>

\* The data section: a word of zero for every static field.
Load ==
  LET names   == StaticFields(canon)
      statics == {StaticAddress(names, names[k]) : k \in DOMAIN names}
  IN  /\ phase = "assembly" /\ phase' = "running"
      /\ world' = [world EXCEPT !.memory = [a \in statics |-> 0], !.cells = statics]
      /\ UNCHANGED <<program, meaning, units, canon, code, pc, frames, gprs, heap, out, exit>>
-----------------------------------------------------------------------------
Compiled == <<program, meaning, phase, units, canon, code>>

Now       == code[pc]
Frame     == Last(frames)
Registers == Frame.virtual @@ gprs

\* A register that has not been written cannot be read.
Readable == ReadRegisters(Now) \subseteq DOMAIN Registers

At(kinds) == phase = "running" /\ exit = << >> /\ pc \in DOMAIN code /\ Now.op.kind \in kinds

Assignment(regs, value) == [r \in regs |-> value]

WithTop(frame) == [frames EXCEPT ![Len(frames)] = frame]

\* Real registers are left as they are, virtual ones belong to the frame.
SetRegisters(value, fixed) ==
  LET assigned == Assigned(Now)
      virtual  == Virtual(assigned)
      implied  == Now.writeGPRs \cup Now.clobbers
  IN  /\ frames' = WithTop([Frame EXCEPT !.virtual = Assignment(virtual, value) @@ @])
      /\ gprs' = Assignment(assigned \ virtual, value) @@ [g \in implied |-> fixed[g]] @@ gprs

Step ==
  /\ phase = "running" /\ exit = << >> /\ pc \in DOMAIN code
  /\ ~At({"loadAboveEBP", "push", "add", "call", "ret", "leave", "exit", "runtime"})
  /\ Readable
  /\ \E o \in Execution(Now.op,
                        [k \in DOMAIN Now.operands |->
                           IF Now.operands[k].read THEN Registers[Now.operands[k].reg] ELSE 0],
                        gprs, world) :
       /\ SetRegisters(o.result, o.fixed)
       /\ world' = o.world
       /\ pc' = IF Now.target # 0 /\ o.jump THEN Now.target ELSE pc + 1
  /\ UNCHANGED <<Compiled, heap, out, exit>>

\* Above ebp: its old value, the return address, the arguments.
LoadArgument ==
  /\ At({"loadAboveEBP"})
  /\ LET above == <<0, Frame.returnTo>> \o Frame.args
         word  == (Now.op.value \div 4) + 1
     IN  /\ word \in DOMAIN above
         /\ SetRegisters(above[word], gprs)
  /\ pc' = pc + 1
  /\ UNCHANGED <<Compiled, world, heap, out, exit>>

PushWord ==
  /\ At({"push"}) /\ Readable
  /\ frames' = WithTop([Frame EXCEPT !.pushed = Append(@, Registers[Now.operands[1].reg])])
  /\ pc' = pc + 1
  /\ UNCHANGED <<Compiled, gprs, world, heap, out, exit>>

DropWords ==
  /\ At({"add"}) /\ Now.count <= Len(Frame.pushed)
  /\ frames' = WithTop([Frame EXCEPT !.pushed = SubSeq(@, 1, Len(@) - Now.count)])
  /\ pc' = pc + 1
  /\ UNCHANGED <<Compiled, gprs, world, heap, out, exit>>

\* What is pushed last is the first argument.
CallFunction ==
  /\ At({"call"}) /\ Readable
  /\ pc' = IF Now.operands = << >> THEN Now.op.value ELSE Registers[Now.operands[1].reg]
  /\ frames' = Append(frames, NewFrame(pc + 1, Reverse(Frame.pushed)))
  /\ UNCHANGED <<Compiled, gprs, world, heap, out, exit>>

LeaveFunction ==
  /\ pc' = Frame.returnTo
  /\ frames' = Front(frames)

ReturnFromFunction ==
  /\ At({"ret"}) /\ LeaveFunction
  /\ UNCHANGED <<Compiled, gprs, world, heap, out, exit>>

\* _start leaves its frame before it calls the entry.
LeaveStart ==
  /\ At({"leave"})
  /\ frames' = WithTop([Frame EXCEPT !.pushed = <<Argc>>])
  /\ pc' = pc + 1
  /\ UNCHANGED <<Compiled, gprs, world, heap, out, exit>>

Exit ==
  /\ At({"exit"})
  /\ exit' = <<[raised |-> FALSE, value |-> gprs["eax"]]>>
  /\ UNCHANGED <<Compiled, pc, frames, gprs, world, heap, out>>
-----------------------------------------------------------------------------
(***************************************************************************)
(* The runtime.                                                            *)
(***************************************************************************)
InRuntime(label) == At({"runtime"}) /\ Now.op.label = label

\* As many bytes as eax says.  Between objects is a word nobody may touch.
Malloc ==
  /\ InRuntime("__malloc")
  /\ LET size == gprs["eax"]
     IN  /\ world' = [world EXCEPT !.cells = @ \cup {heap + 4 * k : k \in 0..((size \div 4) - 1)}]
         /\ heap' = heap + size + 4
         /\ gprs' = [gprs EXCEPT !["eax"] = heap]
  /\ LeaveFunction
  /\ UNCHANGED <<Compiled, out, exit>>

NativeWriteByte ==
  /\ InRuntime("NATIVEjava.io.OutputStream.nativeWrite")
  /\ out' = Append(out, gprs["eax"] % 256)
  /\ LeaveFunction
  /\ UNCHANGED <<Compiled, gprs, world, heap, exit>>

RaiseException ==
  /\ InRuntime("__exception")
  /\ exit' = <<[raised |-> TRUE, value |-> 0]>>
  /\ UNCHANGED <<Compiled, pc, frames, gprs, world, heap, out>>

Passes == BuildIR \/ Canonicalize \/ Generate \/ Load

Run ==
  \/ Step \/ LoadArgument \/ PushWord \/ DropWords
  \/ CallFunction \/ ReturnFromFunction \/ LeaveStart \/ Exit
  \/ Malloc \/ NativeWriteByte \/ RaiseException

Next == Passes \/ Run

\* Nothing holds the driver between two passes, or a process between two steps.
Behind == [source |-> "IR", IR |-> "canonical", canonical |-> "assembly", assembly |-> "running"]
NextPass == phase # "running" /\ phase' = Behind[phase]

Spec == Init /\ [][Next]_vars /\ WF_phase(NextPass) /\ WF_vars(Run)
-----------------------------------------------------------------------------
(***************************************************************************)
(* Properties.                                                             *)
(***************************************************************************)
\* Registers, frames, memory and output hold words; the selected instructions
\* are code the register allocator takes (BasicAllocator): no tile names a
\* register that is used to load spilled ones, every jump has its label.
TypeOK ==
  /\ phase \in {"source", "IR", "canonical", "assembly", "running"}
  /\ phase = "assembly" => IsCode(code)
  /\ phase = "running" => pc \in DOMAIN code
  /\ Range(gprs) \subseteq Words
  /\ \A k \in DOMAIN frames :
       /\ frames[k].returnTo \in 0..Len(code)
       /\ Range(frames[k].virtual) \cup Range(frames[k].pushed) \cup Range(frames[k].args) \subseteq Words
  /\ DOMAIN world.memory \subseteq world.cells
  /\ Range(world.memory) \subseteq Words
  /\ heap < WordSize \div 2

\* The compiled program writes what the source means, byte by byte, and ends as
\* the source ends: with the value of the entry method, or by an exception.  It
\* does end: it never reads a register or a word of memory nobody has written,
\* touches memory that is not an object's or jumps to where no function is
\* (README.md: the IR "maintaining semantic meaning").
Java == INSTANCE JavaRun
RunsAsMeant == Java!Spec

\* When a program ends, its end and its output are those the source means.
EndsAsMeant == exit # << >> => exit = meaning.exit /\ out = meaning.out

StatementsOf(lowered) ==
  UNION {Range([k \in DOMAIN lowered[u].functions |-> lowered[u].functions[k][2]])
           \cup Range([k \in DOMAIN lowered[u].fields |-> lowered[u].fields[k][2]])
           \cup Range(lowered[u].start) : u \in DOMAIN lowered}

RECURSIVE NoEffects(_)
NoEffects(e) ==
  CASE e.kind = "BinOp" -> NoEffects(e.left) /\ NoEffects(e.right)
    [] e.kind = "Mem"   -> NoEffects(e.address)
    [] OTHER            -> e.kind \in {"Const", "Temp", "Name"}

IsCanonical(s) ==
  CASE s.kind = "Move"     -> NoEffects(s.source) /\ NoEffects(s.target)
    [] s.kind = "CJump"    -> NoEffects(s.condition)
    [] s.kind = "Return"   -> NoEffects(s.ret)
    [] s.kind = "CallStmt" -> NoEffects(s.call.target) /\ \A k \in DOMAIN s.call.args : NoEffects(s.call.args[k])
    [] OTHER               -> s.kind \in {"Jump", "Label"}

\* Behind the canonicalizer no expression has a statement or a call in it: the
\* selector throws on those (instructionSelector.cpp: "Call should not exist in
\* canonicalized IR!").
CanonicalForm ==
  phase = "canonical" =>
    \A stmts \in StatementsOf(canon) : \A k \in DOMAIN stmts : IsCanonical(stmts[k])

\* The false label of a conditional jump is the statement behind it: the selector
\* emits no jump to it, and the canonicalizer reorders nothing, so that it is for
\* the converters to place every label there.
FalseBranchFallsThrough ==
  phase = "canonical" =>
    \A stmts \in StatementsOf(canon) : \A k \in DOMAIN stmts :
      stmts[k].kind = "CJump" =>
        k + 1 \in DOMAIN stmts /\ stmts[k + 1] = LabelAt(stmts[k].falseLabel)

\* Where two paths meet, and where a function ends, nothing is left on the stack
\* of the arguments of the calls before: a loop does not use it up, though the
\* epilogue would hide what is left of a call.
StackIsBalanced == At({"label", "ret", "leave"}) => Frame.pushed = << >>
=============================================================================
