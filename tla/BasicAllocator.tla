--------------------------- MODULE BasicAllocator ---------------------------
(***************************************************************************)
(* codeGen/registerAllocator: BasicAllocator gives every virtual register  *)
(* of a method a word of the stack frame, and replaceVirtualRegisters      *)
(* wraps each instruction in loads and stores of the words it uses.  One   *)
(* allocator object serves every method (assemblyGenerator.hpp).           *)
(*                                                                         *)
(* The code is run as soon as it is generated: generating the next method  *)
(* does not touch it any more.  Words are counted, not bytes: the word at  *)
(* slot s is the one at ebp - 4 s.  Sets of registers are hash sets and    *)
(* are listed in any order.                                                *)
(***************************************************************************)
EXTENDS RegisterMachine

CONSTANTS
  Programs,   \* sequences of methods, the code of _start the last of them
  StackSize,  \* bound: the words below ebp
  Leftovers   \* bound: what the stack and the registers may hold on entry

ASSUME ProgramsAssumption ==
  \A p \in Programs : p \in Seq(Range(p)) /\ \A m \in DOMAIN p : IsCode(p[m])
ASSUME StackAssumption ==
  /\ StackSize \in Nat
  /\ Leftovers \subseteq [stack : [1..StackSize -> Values], gprs : [GPRs -> Values]]

VARIABLES
  program,
  method,           \* the method being allocated and run
  registerOffsets,  \* the slot of each virtual register
  offset,           \* the next free slot
  k,                \* the next instruction to look at
  newInstructions,  \* per instruction: loads, the instruction, stores
  pc,
  at, part, j,      \* where execution is: instruction, its part, index in it
  gprs, stack,      \* the machine's registers and the words below ebp
  esp,              \* how many words are below ebp
  world

allocator == <<registerOffsets, offset, k, newInstructions>>
machine   == <<at, part, j, gprs, stack, esp, world>>
vars == <<program, method, pc, allocator, machine>>

Code == program[method]

Init ==
  /\ program \in Programs
  /\ method = 1
  /\ registerOffsets = << >>
  /\ offset = 1
  /\ k = 1
  /\ newInstructions = << >>
  /\ pc = "allocate"
  /\ at = 0 /\ part = "load" /\ j = 1
  /\ \E old \in Leftovers : gprs = old.gprs /\ stack = old.stack
  /\ esp = 0
  /\ world \in Worlds

\* Mutant: the allocator is not cleared between two methods.
KeepOffsets == UNCHANGED <<registerOffsets, offset>>

ClearOffsets == registerOffsets' = << >> /\ offset' = 1

AllocateFor ==
  /\ pc = "allocate" /\ method \in DOMAIN program
  /\ ClearOffsets
  /\ k' = 1
  /\ newInstructions' = << >>
  /\ pc' = "populate"
  /\ UNCHANGED <<program, method, machine>>

\* The virtual registers of instruction n that have no slot yet.
Unassigned(n) == Virtual(AllUsedRegisters(Code[n])) \ DOMAIN registerOffsets

\* Mutant: the next slot is not moved on.
SameOffset == offset

NextOffset == offset + 1

PopulateOffset ==
  /\ pc = "populate" /\ k \in DOMAIN Code
  /\ \E reg \in Unassigned(k) :
       /\ registerOffsets' = [r \in DOMAIN registerOffsets \cup {reg} |->
                                IF r = reg THEN offset ELSE registerOffsets[r]]
       /\ offset' = NextOffset
  /\ UNCHANGED <<program, method, k, newInstructions, pc, machine>>

\* Mutant: the loop looks at the same instruction again.
SameInstruction == UNCHANGED k

FollowingInstruction == k' = k + 1

NextInstruction ==
  /\ pc = "populate" /\ k \in DOMAIN Code
  /\ Unassigned(k) = {}
  /\ FollowingInstruction
  /\ UNCHANGED <<program, method, registerOffsets, offset, newInstructions, pc, machine>>

EndPopulate ==
  /\ pc = "populate" /\ k \notin DOMAIN Code
  /\ k' = 1
  /\ pc' = "replace"
  /\ UNCHANGED <<program, method, registerOffsets, offset, newInstructions, machine>>

\* The orders a hash set may list its elements in.
Orders(S) == {s \in [1..Cardinality(S) -> S] : Range(s) = S}

\* The used virtual registers take the instruction registers from the first.
VirtualToGPR(used) ==
  {[r \in used |-> instructionRegisters[CHOOSE n \in DOMAIN s : s[n] = r]] : s \in Orders(used)}

\* Loads from, or stores to, the slots of the registers listed.
Transfers(regs, virtualToGPR) ==
  [n \in DOMAIN regs |-> [gpr |-> virtualToGPR[regs[n]], slot |-> registerOffsets[regs[n]]]]

\* Mutant: only what an instruction does not read is stored.
OnlyWritten(i) == Virtual(WriteRegisters(i) \ ReadRegisters(i))

StoredRegisters(i) == Virtual(WriteRegisters(i))

\* replaceVirtualRegisters; it throws when an instruction uses too many.
Replace ==
  /\ pc = "replace" /\ k \in DOMAIN Code
  /\ LET used == Virtual(AllUsedRegisters(Code[k]))
     IN  IF Cardinality(used) > Len(instructionRegisters)
         THEN pc' = "error" /\ UNCHANGED newInstructions
         ELSE /\ \E virtualToGPR \in VirtualToGPR(used) :
                 \E loads \in Orders(Virtual(ReadRegisters(Code[k]))),
                    stores \in Orders(StoredRegisters(Code[k])) :
                   newInstructions' = Append(newInstructions,
                     [loads       |-> Transfers(loads, virtualToGPR),
                      instruction |-> ReplaceRegisters(Code[k], virtualToGPR),
                      stores      |-> Transfers(stores, virtualToGPR)])
              /\ UNCHANGED pc
  /\ k' = k + 1
  /\ UNCHANGED <<program, method, registerOffsets, offset, machine>>

StackFrame == Cardinality(DOMAIN registerOffsets)

\* emitFunctionPrologue: the frame has a word per register.
Prologue ==
  /\ pc = "replace" /\ k \notin DOMAIN Code
  /\ StackFrame <= StackSize
  /\ pc' = "run"
  /\ at' = 1 /\ part' = "load" /\ j' = 1
  /\ esp' = StackFrame
  /\ \E old \in Leftovers : gprs' = old.gprs /\ stack' = old.stack
  /\ UNCHANGED <<program, method, allocator, world>>
-----------------------------------------------------------------------------
(***************************************************************************)
(* Running the generated code.                                             *)
(***************************************************************************)
Running(p) == pc = "run" /\ at \in DOMAIN Code /\ part = p

Load ==
  /\ Running("load") /\ j \in DOMAIN newInstructions[at].loads
  /\ LET l == newInstructions[at].loads[j]
     IN  gprs' = [gprs EXCEPT ![l.gpr] = stack[l.slot]]
  /\ j' = j + 1
  /\ UNCHANGED <<program, method, pc, allocator, at, part, stack, esp, world>>

\* The words pushed and not yet dropped.
Pushed == LET frame == Cardinality(DOMAIN registerOffsets)
          IN  [n \in 1..(esp - frame) |-> stack[frame + n]]

Execute ==
  /\ Running("load") /\ j \notin DOMAIN newInstructions[at].loads
  /\ LET i == newInstructions[at].instruction
     IN  /\ i.stack # "ret"
         /\ \E o \in Results(i, gprs, world, Pushed) :
              /\ gprs' = Written(i, gprs, o)
              /\ world' = o.world
              /\ CASE i.stack = "none" -> UNCHANGED <<stack, esp>>
                   [] i.stack = "push" ->
                        /\ esp < StackSize
                        /\ esp' = esp + 1
                        /\ stack' = [stack EXCEPT ![esp + 1] = o.result]
                   [] i.stack = "drop" ->
                        /\ i.count <= Len(Pushed)
                        /\ esp' = esp - i.count
                        /\ UNCHANGED stack
              /\ IF i.target # 0 /\ o.jump
                 THEN at' = i.target /\ UNCHANGED part
                 ELSE part' = "store" /\ UNCHANGED at
  /\ j' = 1
  /\ UNCHANGED <<program, method, pc, allocator>>

Store ==
  /\ Running("store") /\ j \in DOMAIN newInstructions[at].stores
  /\ LET s == newInstructions[at].stores[j]
     IN  stack' = [stack EXCEPT ![s.slot] = gprs[s.gpr]]
  /\ j' = j + 1
  /\ UNCHANGED <<program, method, pc, allocator, at, part, gprs, esp, world>>

Advance ==
  /\ Running("store") /\ j \notin DOMAIN newInstructions[at].stores
  /\ at' = at + 1 /\ part' = "load" /\ j' = 1
  /\ UNCHANGED <<program, method, pc, allocator, gprs, stack, esp, world>>

\* The epilogue takes the frame off; the code of _start has its own.
Return ==
  /\ pc = "run"
  /\ at \in DOMAIN Code =>
       /\ part = "load" /\ j \notin DOMAIN newInstructions[at].loads
       /\ newInstructions[at].instruction.stack = "ret"
  /\ pc' = "allocate"
  /\ method' = method + 1
  /\ at' = 0 /\ part' = "load" /\ j' = 1
  /\ esp' = 0
  /\ UNCHANGED <<program, allocator, gprs, stack, world>>

Next ==
  \/ AllocateFor \/ PopulateOffset \/ NextInstruction \/ EndPopulate
  \/ Replace \/ Prologue
  \/ Load \/ Execute \/ Store \/ Advance \/ Return

\* The compiler and the program it compiles run on one thread each.
Spec == Init /\ [][Next]_vars /\ WF_vars(Next)
-----------------------------------------------------------------------------
\* The typing of the state: slots are positive and the code is as long as k says.
TypeOK ==
  /\ program \in Programs
  /\ method \in 1..(Len(program) + 1)
  /\ \A r \in DOMAIN registerOffsets : registerOffsets[r] \in 1..(offset - 1)
  /\ offset \in Nat \ {0}
  /\ k \in Nat \ {0}
  /\ pc = "replace" => Len(newInstructions) = k - 1
  /\ pc \in {"allocate", "populate", "replace", "run", "error"}
  /\ at \in Nat /\ j \in Nat \ {0}
  /\ part \in {"load", "store"}
  /\ gprs \in [GPRs -> Values]
  /\ stack \in [1..StackSize -> Values]
  /\ esp \in 0..StackSize
  /\ world \in Worlds

\* Two virtual registers never share a word; while the code runs, all their
\* words lie in the frame, below which the arguments of calls are pushed.
SlotsAreOwn ==
  /\ IsInjective(registerOffsets)
  /\ pc = "run" => /\ DOMAIN registerOffsets = RegistersOf(Code)
                   /\ \A r \in DOMAIN registerOffsets : registerOffsets[r] <= esp

\* The generated code does what the selected instructions do on a machine
\* with all their registers: a virtual register is the word at its slot, or
\* the register about to be stored there.
AwaitsStore(r) ==
  IF part = "load" THEN {}
  ELSE {n \in DOMAIN newInstructions[at].stores :
          n >= j /\ newInstructions[at].stores[n].slot = registerOffsets[r]}

VirtualRegister(r) ==
  IF AwaitsStore(r) = {} THEN stack[registerOffsets[r]]
  ELSE gprs[newInstructions[at].stores[CHOOSE n \in AwaitsStore(r) : TRUE].gpr]

Unlimited == INSTANCE VirtualMachine WITH
  at     <- IF pc # "run" THEN 0 ELSE IF part = "load" THEN at ELSE at + 1,
  regs   <- IF pc # "run" THEN << >>
            ELSE [r \in RegistersOf(Code) \cup Visible |->
                    IF isGPR(r) THEN gprs[r] ELSE VirtualRegister(r)],
  pushed <- IF pc # "run" THEN << >> ELSE Pushed

ImplementsVirtualMachine == Unlimited!Spec

\* Allocation ends, for every method it is begun for.
AllocationEnds == pc = "populate" ~> pc \in {"run", "error"}
=============================================================================
