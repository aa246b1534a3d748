-------------------------------- MODULE X86 --------------------------------
(***************************************************************************)
(* The instruction classes of codeGen/assembly/instruction.hpp, each with  *)
(* the registers its constructor marks read and written, and what the      *)
(* processor does with them.  An immediate or a label operand belongs to   *)
(* the operation.                                                          *)
(***************************************************************************)
EXTENDS Instructions, Arithmetic

CONSTANT Cell(_)   \* the cell of memory an address means

Read(r)      == [reg |-> r, read |-> TRUE, write |-> FALSE]
Write(r)     == [reg |-> r, read |-> FALSE, write |-> TRUE]
ReadWrite(r) == [reg |-> r, read |-> TRUE, write |-> TRUE]

Instruction(kind, operands) ==
  [op |-> [kind |-> kind, value |-> 0, label |-> ""], operands |-> operands,
   readGPRs |-> {}, writeGPRs |-> {}, clobbers |-> {},
   stack |-> "none", count |-> 0, target |-> 0]

WithValue(i, v) == [i EXCEPT !.op.value = v]
To(i, label)    == [i EXCEPT !.op.label = label]

\* mov between registers, from an immediate or a label, and from and to
\* memory: at an address in a register, at a label, above ebp.
Mov(dest, src)          == Instruction("mov", <<Write(dest), Read(src)>>)
MovConst(dest, value)   == WithValue(Instruction("const", <<Write(dest)>>), value)
MovLabel(dest, label)   == To(Instruction("const", <<Write(dest)>>), label)
MovFromMem(dest, base)  == Instruction("load", <<Write(dest), Read(base)>>)
MovToMem(base, src)     == Instruction("store", <<Read(base), Read(src)>>)
LoadStatic(dest, label) == To(Instruction("loadStatic", <<Write(dest)>>), label)
StoreStatic(label, src) == To(Instruction("storeStatic", <<Read(src)>>), label)
LoadAboveEBP(dest, n)   == WithValue(Instruction("loadAboveEBP", <<Write(dest)>>), n)

Sub(left, right) == Instruction("sub", <<ReadWrite(left), Read(right)>>)
And(left, right) == Instruction("and", <<ReadWrite(left), Read(right)>>)
Or(left, right)  == Instruction("or", <<ReadWrite(left), Read(right)>>)

IMul(right) == [Instruction("imul", <<Read(right)>>) EXCEPT
                  !.readGPRs = {"eax"}, !.writeGPRs = {"eax", "edx"}]
IDiv(right) == [Instruction("idiv", <<Read(right)>>) EXCEPT
                  !.readGPRs = {"eax", "edx"}, !.writeGPRs = {"eax", "edx"}]

\* Cdq's class marks no register; the processor reads eax and writes edx.
Cdq == [Instruction("cdq", << >>) EXCEPT !.readGPRs = {"eax"}, !.clobbers = {"edx"}]

\* A sum of two registers, as an address.
Lea(dest, base, index) == Instruction("lea", <<Write(dest), Read(base), Read(index)>>)

Cmp(left, right)      == Instruction("cmp", <<Read(left), Read(right)>>)
CmpConst(left, value) == WithValue(Instruction("cmpConst", <<Read(left)>>), value)
Test(left, right)     == Instruction("test", <<Read(left), Read(right)>>)
SetZ(dest)            == Instruction("setz", <<Write(dest)>>)
SetNZ(dest)           == Instruction("setnz", <<Write(dest)>>)
SetL(dest)            == Instruction("setl", <<Write(dest)>>)
SetG(dest)            == Instruction("setg", <<Write(dest)>>)
SetLE(dest)           == Instruction("setle", <<Write(dest)>>)
SetGE(dest)           == Instruction("setge", <<Write(dest)>>)
MovZX(dest, src)      == Instruction("mov", <<Write(dest), Read(src)>>)

Label  == Instruction("label", << >>)
Jmp(n) == [Instruction("jmp", << >>) EXCEPT !.target = n]
Je(n)  == [Instruction("je", << >>) EXCEPT !.target = n]
JNZ(n) == [Instruction("jnz", << >>) EXCEPT !.target = n]

Push(src) == [Instruction("push", <<Read(src)>>) EXCEPT !.stack = "push"]
AddESP(n) == [Instruction("add", << >>) EXCEPT !.stack = "drop", !.count = n]
Ret       == [Instruction("ret", << >>) EXCEPT !.stack = "ret"]

\* The class marks eax only; a callee may use every register.
Calling(operands) == [Instruction("call", operands) EXCEPT
                        !.writeGPRs = {"eax"}, !.clobbers = GPRs \ {"eax"}]
Call(label)       == To(Calling(<< >>), label)
CallRegister(reg) == Calling(<<Read(reg)>>)
-----------------------------------------------------------------------------
(***************************************************************************)
(* The processor: what an instruction other than a call may do, given the  *)
(* values x of its operands and g of the real registers it reads.  The     *)
(* world holds the flags and the memory; a cell that is not there cannot   *)
(* be read.                                                                *)
(***************************************************************************)
Effect(result, fixed, w, jump) ==
  [result |-> result, fixed |-> [eax |-> fixed[1], edx |-> fixed[2], ecx |-> 0, esi |-> 0, edi |-> 0],
   world |-> w, jump |-> jump]

Computes(w, result)  == {Effect(result, <<0, 0>>, w, FALSE)}
Compares(w, x, y)    == Computes([w EXCEPT !.zero = x = y, !.less = Signed(x) < Signed(y)], 0)
Jumps(w, condition)  == {Effect(0, <<0, 0>>, w, condition)}
Accumulates(w, a, d) == {Effect(0, <<Word(a), Word(d)>>, w, FALSE)}

Loads(w, a)  == IF Cell(a) \in DOMAIN w.memory THEN Computes(w, w.memory[Cell(a)]) ELSE {}
Stores(w, a, v) ==
  IF Cell(a) \notin w.cells THEN {}
  ELSE Computes([w EXCEPT !.memory = [c \in DOMAIN @ \cup {Cell(a)} |->
                                        IF c = Cell(a) THEN v ELSE @[c]]], 0)

\* What cdq puts into edx: the sign of eax in every bit.
SignWord(a) == Word(IF Signed(a) < 0 THEN -1 ELSE 0)

\* idiv traps on zero and on a quotient that is no word; of the dividends of two
\* words only those cdq makes are here.
Divides(w, d, a, y) ==
  IF d # SignWord(a) \/ y = 0 \/ (2 * a = WordSize /\ Signed(y) = -1) THEN {}
  ELSE Accumulates(w, Quotient(Signed(a), Signed(y)), Remainder(Signed(a), Signed(y)))

Execution(op, x, g, w) ==
  CASE op.kind = "const"       -> Computes(w, Word(op.value))
    [] op.kind = "mov"         -> Computes(w, x[2])
    [] op.kind = "load"        -> Loads(w, x[2])
    [] op.kind = "store"       -> Stores(w, x[1], x[2])
    [] op.kind = "loadStatic"  -> Loads(w, op.value)
    [] op.kind = "storeStatic" -> Stores(w, op.value, x[1])
    [] op.kind = "lea"         -> Computes(w, Word(x[2] + x[3]))
    [] op.kind = "sub"         -> Computes(w, Word(x[1] - x[2]))
    [] op.kind = "and"         -> Computes(w, Flag(x[1] # 0 /\ x[2] # 0))  \* on booleans
    [] op.kind = "or"          -> Computes(w, Flag(x[1] # 0 \/ x[2] # 0))
    [] op.kind = "imul"        -> LET product == Signed(g["eax"]) * Signed(x[1])
                                  IN  Accumulates(w, product, product \div WordSize)
    [] op.kind = "idiv"        -> Divides(w, g["edx"], g["eax"], x[1])
    [] op.kind = "cdq"         -> Accumulates(w, 0, SignWord(g["eax"]))
    [] op.kind = "cmp"         -> Compares(w, x[1], x[2])
    [] op.kind = "cmpConst"    -> Compares(w, x[1], op.value)
    [] op.kind = "test"        -> Compares(w, x[1], 0)
    [] op.kind = "setz"        -> Computes(w, Flag(w.zero))
    [] op.kind = "setnz"       -> Computes(w, Flag(~w.zero))
    [] op.kind = "setl"        -> Computes(w, Flag(w.less))
    [] op.kind = "setg"        -> Computes(w, Flag(~w.less /\ ~w.zero))
    [] op.kind = "setle"       -> Computes(w, Flag(w.less \/ w.zero))
    [] op.kind = "setge"       -> Computes(w, Flag(~w.less))
    [] op.kind = "jmp"         -> Jumps(w, TRUE)
    [] op.kind = "je"          -> Jumps(w, w.zero)
    [] op.kind = "jnz"         -> Jumps(w, ~w.zero)
    [] op.kind = "push"        -> Computes(w, x[1])
    [] OTHER                   -> Computes(w, 0)
=============================================================================
