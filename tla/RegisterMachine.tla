--------------------------- MODULE RegisterMachine ---------------------------
(***************************************************************************)
(* Executing an instruction on a register file, whatever it computes.      *)
(***************************************************************************)
EXTENDS Instructions

CONSTANTS
  Values,             \* what a register or a stack word holds
  Worlds,             \* the rest of the machine: flags, heap, static data, arguments
  NoValue,            \* stands in the inputs for an operand that is not read
  Outcomes(_, _, _, _) \* what op may do, given inputs, world and pushed words

Inputs(i, regs) ==
  [operands |-> [k \in DOMAIN i.operands |-> IF i.operands[k].read
                                             THEN regs[i.operands[k].reg] ELSE NoValue],
   fixed    |-> [g \in i.readGPRs |-> regs[g]]]

Outcome == [result : Values, fixed : [GPRs -> Values], world : Worlds, jump : BOOLEAN]

Results(i, regs, world, pushed) ==
  Outcomes(i.op, Inputs(i, regs), world, pushed) \cap Outcome

\* The register file behind an instruction with outcome o.
Written(i, regs, o) ==
  [r \in DOMAIN regs |->
     IF r \in Assigned(i) THEN o.result
     ELSE IF r \in i.writeGPRs \cup i.clobbers THEN o.fixed[r]
     ELSE regs[r]]

\* The instruction behind the one at position n.
Following(i, n, o) == IF i.target # 0 /\ o.jump THEN i.target ELSE n + 1
=============================================================================
