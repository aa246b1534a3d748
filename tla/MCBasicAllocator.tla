-------------------------- MODULE MCBasicAllocator --------------------------
(***************************************************************************)
(* Methods made of the instruction selector's tiles                        *)
(* (codeGen/instructionSelector.cpp), on a machine with words 0, 1 and 2.  *)
(* The virtual register p is read before it is written: it holds anything. *)
(***************************************************************************)
EXTENDS BasicAllocator, X86

MCWordSize == 3
MCStackSize == 6

\* Every address a method uses means one and the same word of memory.
MCCell(address) == 0
Machines == [zero : BOOLEAN, less : BOOLEAN, memory : [{0} -> Words], cells : {{0}}]

\* A callee returns its first argument and leaves anything, the same everywhere,
\* in the registers.
Calls(w, pushed) ==
  {[result |-> 0, world |-> w, jump |-> FALSE,
    fixed |-> [[g \in GPRs |-> v] EXCEPT !["eax"] = pushed[Len(pushed)]]] : v \in Words}

MCOutcomes(op, inputs, w, pushed) ==
  IF op.kind = "call" THEN Calls(w, pushed)
  ELSE Execution(op, inputs.operands, inputs.fixed, w)

\* t = q + p, the tile with three registers
AddTile == <<MovConst("q", 2), Mov("b", "p"), Lea("t", "q", "b"), Mov("eax", "t"), Ret>>

\* t = q * p: the right factor is loaded between the two uses of eax
MulTile == <<MovConst("q", 2), Mov("eax", "q"), IMul("p"), Mov("t", "eax"), Ret>>

\* t = q / p, guarded against a zero divisor (the label is __exception's)
DivTile == <<MovConst("q", 2), CmpConst("p", 0), Je(9), Mov("eax", "q"), Cdq, IDiv("p"),
             Mov("t", "eax"), Ret, Label>>

\* x = x - one until x < one: a comparison, a condition and a way back
LoopTiles == <<MovConst("one", 1), Mov("x", "p"),
               Label, Cmp("x", "one"), SetL("eax"), MovZX("c", "eax"), Test("c", "c"), JNZ(12),
               Sub("x", "one"), Jmp(3), Label,
               Label, Mov("eax", "x"), Ret>>

\* r = f(q, b) + q, with q alive across the call
CallTiles == <<MovConst("q", 1), MovConst("b", 2), Push("b"), Push("q"), Call("f"), AddESP(2),
               Mov("r", "eax"), Lea("s", "r", "q"), Mov("eax", "s"), Ret>>

\* _start: a static field is set up, read back and set again
StartCode == <<MovConst("s", 1), MovConst("q", 0), MovToMem("q", "s"), MovFromMem("d", "q"),
               And("d", "s"), MovToMem("q", "d")>>

MCPrograms == {<<AddTile, MulTile, StartCode>>, <<LoopTiles, CallTiles>>, <<DivTile, StartCode>>}

MCLeftovers == {[stack |-> [n \in 1..MCStackSize |-> (n * v) % 3], gprs |-> [g \in GPRs |-> v]] :
                  v \in Words}
=============================================================================
