---------------------------- MODULE Instructions ----------------------------
(***************************************************************************)
(* codeGen/assembly/instruction.hpp: what register allocation knows of an  *)
(* instruction.  An instruction is a record                                *)
(*                                                                         *)
(*   op         what it computes; immediates and data labels are part of it*)
(*   operands   the registers it names, in order: [reg, read, write].  The *)
(*              base and the index of a memory operand are registers it    *)
(*              reads, also where the operand itself is written            *)
(*   readGPRs   the registers it reads and writes without naming them      *)
(*   writeGPRs                                                             *)
(*   clobbers   what a callee may destroy: no table in the code has these  *)
(*   stack      "none", "push", "drop" (add esp) or "ret" (the epilogue)   *)
(*   count      how many words a drop takes off                            *)
(*   target     the position of the label it may jump to, or 0             *)
(*                                                                         *)
(* An 8-bit name such as al stands for the register it is a part of.       *)
(***************************************************************************)
EXTENDS Naturals, Sequences, FiniteSets, Functions

GPRs == {"eax", "edx", "ecx", "esi", "edi"}

\* Registers a spilled virtual register is loaded into.  No tile names them.
instructionRegisters == <<"ecx", "esi", "edi">>

\* The registers a tile may name.
Visible == GPRs \ Range(instructionRegisters)

isGPR(r) == r \in GPRs

\* The registers an instruction names as operands it writes.
Assigned(i) == {o.reg : o \in {p \in Range(i.operands) : p.write}}

ReadRegisters(i)  == {o.reg : o \in {p \in Range(i.operands) : p.read}} \cup i.readGPRs
WriteRegisters(i) == Assigned(i) \cup i.writeGPRs
AllUsedRegisters(i) == {o.reg : o \in Range(i.operands)} \cup i.readGPRs \cup i.writeGPRs

Virtual(regs) == {r \in regs : ~isGPR(r)}

\* The virtual registers of a method.
RegistersOf(code) == UNION {Virtual(AllUsedRegisters(code[k])) : k \in DOMAIN code}

\* replaceRegister, for each virtual register at once.
Replaced(operand, newReg) ==
  IF isGPR(operand.reg) THEN operand ELSE [operand EXCEPT !.reg = newReg[@]]

ReplaceRegisters(i, newReg) ==
  [i EXCEPT !.operands = [n \in DOMAIN @ |-> Replaced(@[n], newReg)]]

\* What the instruction selector's tiles are made of.  A jump writes nothing,
\* and so does a call, save for eax.
IsInstruction(i) ==
  /\ i.operands \in Seq([reg : STRING, read : BOOLEAN, write : BOOLEAN])
  /\ i.readGPRs \cup i.writeGPRs \subseteq Visible
  /\ AllUsedRegisters(i) \cap GPRs \subseteq Visible
  /\ i.clobbers \subseteq GPRs
  /\ i.stack \in {"none", "push", "drop", "ret"}
  /\ i.count \in Nat
  /\ i.target \in Nat
  /\ i.target # 0 \/ i.clobbers # {} => Virtual(WriteRegisters(i)) = {}

IsCode(code) ==
  /\ code \in Seq(Range(code))
  /\ \A k \in DOMAIN code : IsInstruction(code[k]) /\ code[k].target \in 0..Len(code)
=============================================================================
