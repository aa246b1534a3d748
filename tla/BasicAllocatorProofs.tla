------------------------ MODULE BasicAllocatorProofs ------------------------
(***************************************************************************)
(* For every program, every table of outcomes and every hash order, the    *)
(* code with spilled registers implements the selected instructions.  The  *)
(* invariant follows the allocator: slots are numbered from 1 without gaps *)
(* or sharing, each block loads, names and stores the same registers, and  *)
(* a register that has been loaded holds the word at its slot.  Each step  *)
(* of the allocator brings the allocation closer to its end.               *)
(***************************************************************************)
EXTENDS BasicAllocator, WorklistLemmas, FiniteSetTheorems, SequenceTheorems, Integers

\* The three registers are different, and no tile names them.
LEMMA InstructionRegistersAreThree ==
  /\ Len(instructionRegisters) = 3 /\ DOMAIN instructionRegisters = 1..3
  /\ Range(instructionRegisters) \cap Visible = {}
  /\ Range(instructionRegisters) \subseteq GPRs
  /\ Visible \subseteq GPRs
  /\ \A m, n \in 1..3 : instructionRegisters[m] = instructionRegisters[n] => m = n
BY DEF instructionRegisters, Visible, GPRs, Range

\* Whatever the order of the hash set, different registers get different
\* instruction registers.
LEMMA VirtualToGPRIsInjective ==
  ASSUME NEW S, IsFiniteSet(S), Cardinality(S) <= Len(instructionRegisters),
         NEW m \in VirtualToGPR(S)
  PROVE  /\ m \in [S -> Range(instructionRegisters)]
         /\ \A r, s \in S : m[r] = m[s] => r = s
<1>1. PICK o \in Orders(S) :
        m = [r \in S |-> instructionRegisters[CHOOSE n \in DOMAIN o : o[n] = r]]
  BY DEF VirtualToGPR
<1>2. Cardinality(S) \in Nat
  BY FS_CardinalityType
<1>3. DOMAIN o = 1..Cardinality(S) /\ DOMAIN o \subseteq 1..3
  BY <1>1, <1>2, InstructionRegistersAreThree DEF Orders
<1> DEFINE place(r) == CHOOSE n \in DOMAIN o : o[n] = r
<1>4. \A r \in S : place(r) \in DOMAIN o /\ o[place(r)] = r
  <2> SUFFICES ASSUME NEW r \in S
               PROVE  place(r) \in DOMAIN o /\ o[place(r)] = r
    OBVIOUS
  <2>1. \E n \in DOMAIN o : o[n] = r
    BY DEF Orders, Range
  <2>2. QED
    BY <2>1
<1> HIDE DEF place
<1>5. \A r \in S : m[r] = instructionRegisters[place(r)] /\ place(r) \in 1..3
  BY <1>1, <1>3, <1>4 DEF place
<1>6. \A r \in S : m[r] \in Range(instructionRegisters)
  BY <1>5, InstructionRegistersAreThree DEF Range
<1>7. \A r, s \in S : m[r] = m[s] => place(r) = place(s)
  BY <1>5, InstructionRegistersAreThree
<1>8. QED
  BY <1>1, <1>4, <1>6, <1>7

\* What the instructions of a program are made of.
LEMMA CodeIsWellFormed ==
  ASSUME program \in Programs, method \in DOMAIN program
  PROVE  /\ Len(Code) \in Nat
         /\ DOMAIN Code = 1..Len(Code)
         /\ \A n \in DOMAIN Code : IsInstruction(Code[n]) /\ Code[n].target \in 0..Len(Code)
         /\ \A n \in DOMAIN Code : Virtual(AllUsedRegisters(Code[n])) \subseteq RegistersOf(Code)
<1>1. IsCode(Code)
  BY ProgramsAssumption DEF Code
<1>2. Code \in Seq(Range(Code))
  BY <1>1 DEF IsCode
<1>3. QED
  BY <1>1, <1>2 DEF IsCode, RegistersOf

\* An instruction has finitely many operands.
LEMMA UsedIsFinite ==
  ASSUME NEW i, IsInstruction(i)
  PROVE  /\ IsFiniteSet(Virtual(AllUsedRegisters(i)))
         /\ Virtual(ReadRegisters(i)) \subseteq Virtual(AllUsedRegisters(i))
         /\ Virtual(WriteRegisters(i)) \subseteq Virtual(AllUsedRegisters(i))
         /\ Virtual(WriteRegisters(i)) = Virtual(Assigned(i))
<1> DEFINE T == {o.reg : o \in Range(i.operands)}
           f == [n \in 1..Len(i.operands) |-> i.operands[n].reg]
<1>1. i.readGPRs \cup i.writeGPRs \subseteq GPRs
  BY InstructionRegistersAreThree DEF IsInstruction
<1>2. Len(i.operands) \in Nat /\ DOMAIN i.operands = 1..Len(i.operands)
  BY DEF IsInstruction
<1>3. f \in Surjection(1..Len(i.operands), T)
  BY <1>2 DEF Surjection, Range
<1>4. IsFiniteSet(1..Len(i.operands))
  <2>1. 1 \in Int /\ Len(i.operands) \in Int
    BY <1>2
  <2>2. QED
    BY <2>1, FS_Interval
<1>5. IsFiniteSet(T)
  BY <1>3, <1>4, FS_Surjection
<1>6. Virtual(AllUsedRegisters(i)) \subseteq T
  BY <1>1 DEF Virtual, AllUsedRegisters, isGPR
<1>7. IsFiniteSet(Virtual(AllUsedRegisters(i)))
  BY <1>5, <1>6, FS_Subset
<1>8. QED
  BY <1>1, <1>7 DEF Virtual, ReadRegisters, WriteRegisters, AllUsedRegisters, Assigned, isGPR
-----------------------------------------------------------------------------
(***************************************************************************)
(* The inductive invariant.                                                *)
(***************************************************************************)
\* Slots are numbered from 1 in the order they are handed out.
Numbered ==
  /\ offset \in Nat \ {0}
  /\ registerOffsets \in [DOMAIN registerOffsets -> 1..(offset - 1)]
  /\ IsInjective(registerOffsets)
  /\ IsFiniteSet(DOMAIN registerOffsets)
  /\ Cardinality(DOMAIN registerOffsets) = offset - 1

\* The registers of the method, and only they, end up with a slot.
Collected ==
  /\ pc # "allocate" => method \in DOMAIN program
  /\ pc = "populate" =>
       /\ DOMAIN registerOffsets \subseteq RegistersOf(Code)
       /\ \A n \in DOMAIN Code :
            n < k => Virtual(AllUsedRegisters(Code[n])) \subseteq DOMAIN registerOffsets
  /\ pc \in {"replace", "run"} => DOMAIN registerOffsets = RegistersOf(Code)

\* The transfers move the registers in R, each between its own two places.
Moves(transfers, R, m, offsets) ==
  /\ \E c \in Nat : DOMAIN transfers = 1..c
  /\ \A n \in DOMAIN transfers :
       \E r \in R : transfers[n] = [gpr |-> m[r], slot |-> offsets[r]]
  /\ \A r \in R :
       \E n \in DOMAIN transfers : transfers[n] = [gpr |-> m[r], slot |-> offsets[r]]

\* Block b stands for instruction i by the assignment m.
TranslatesBy(i, b, m, offsets) ==
  /\ m \in [Virtual(AllUsedRegisters(i)) -> Range(instructionRegisters)]
  /\ \A r, s \in Virtual(AllUsedRegisters(i)) : m[r] = m[s] => r = s
  /\ b.instruction = ReplaceRegisters(i, m)
  /\ Moves(b.loads, Virtual(ReadRegisters(i)), m, offsets)
  /\ Moves(b.stores, Virtual(WriteRegisters(i)), m, offsets)

Translates(i, b, offsets) == \E m : TranslatesBy(i, b, m, offsets)

BlocksTranslate ==
  /\ newInstructions \in Seq(Range(newInstructions))
  /\ pc = "populate" => newInstructions = << >>
  /\ pc \in {"replace", "run"} =>
       \A n \in DOMAIN newInstructions : n \in DOMAIN Code /\ Translates(Code[n], newInstructions[n], registerOffsets)
  /\ pc = "replace" => k <= Len(Code) + 1 /\ Len(newInstructions) = k - 1
  /\ pc = "run" => Len(newInstructions) = Len(Code)

\* Execution stays in the code, and pushed words stay below the frame.
InFrame ==
  pc = "run" =>
    /\ Cardinality(DOMAIN registerOffsets) <= esp
    /\ at \in 1..(Len(Code) + 1)
    /\ at \notin DOMAIN Code => part = "load"

\* What has been loaded for the instruction at hand is still there.
Loaded ==
  pc = "run" /\ at \in DOMAIN Code /\ part = "load" =>
    \A n \in DOMAIN newInstructions[at].loads :
      n < j => gprs[newInstructions[at].loads[n].gpr] = stack[newInstructions[at].loads[n].slot]

Inv == TypeOK /\ Numbered /\ Collected /\ BlocksTranslate /\ InFrame /\ Loaded

LEMMA InitEstablishesInv == Init => Inv
<1> SUFFICES ASSUME Init
             PROVE  Inv
  OBVIOUS
<1>1. DOMAIN registerOffsets = {} /\ Range(newInstructions) = {}
  BY DEF Init, Range
<1>2. TypeOK
  <2>1. Len(program) \in Nat
    BY ProgramsAssumption DEF Init
  <2>2. gprs \in [GPRs -> Values] /\ stack \in [1..StackSize -> Values]
    BY StackAssumption DEF Init
  <2>3. QED
    BY <1>1, <2>1, <2>2, StackAssumption DEF Init, TypeOK
<1>3. Numbered
  BY <1>1, FS_EmptySet DEF Init, Numbered, IsInjective
<1>4. Collected /\ InFrame /\ Loaded
  BY DEF Init, Collected, InFrame, Loaded
<1>5. BlocksTranslate
  BY <1>1 DEF Init, BlocksTranslate
<1>6. QED
  BY <1>2, <1>3, <1>4, <1>5 DEF Inv

\* Where the transfers of the running instruction go from and to.
LEMMA TransfersStayInFrame ==
  ASSUME Inv, pc = "run", at \in DOMAIN Code
  PROVE  /\ at \in DOMAIN newInstructions
         /\ \A t \in Range(newInstructions[at].loads) \cup Range(newInstructions[at].stores) :
              /\ t.gpr \in GPRs
              /\ t.slot \in 1..Cardinality(DOMAIN registerOffsets)
              /\ t.slot \in 1..StackSize
<1>1. program \in Programs /\ method \in DOMAIN program /\ DOMAIN registerOffsets = RegistersOf(Code)
  BY DEF Inv, TypeOK, Collected
<1>2. at \in DOMAIN newInstructions
  BY <1>1, CodeIsWellFormed DEF Inv, BlocksTranslate
<1>3. IsInstruction(Code[at]) /\ Virtual(AllUsedRegisters(Code[at])) \subseteq DOMAIN registerOffsets
  BY <1>1, CodeIsWellFormed
<1>4. PICK m : TranslatesBy(Code[at], newInstructions[at], m, registerOffsets)
  BY <1>2 DEF Inv, BlocksTranslate, Translates
<1>5. \A r \in Virtual(AllUsedRegisters(Code[at])) :
        /\ m[r] \in GPRs
        /\ registerOffsets[r] \in 1..Cardinality(DOMAIN registerOffsets)
  BY <1>3, <1>4, InstructionRegistersAreThree DEF TranslatesBy, Inv, Numbered
<1>6. \A t \in Range(newInstructions[at].loads) \cup Range(newInstructions[at].stores) :
        \E r \in Virtual(AllUsedRegisters(Code[at])) :
          t = [gpr |-> m[r], slot |-> registerOffsets[r]]
  <2>1. /\ Virtual(ReadRegisters(Code[at])) \subseteq Virtual(AllUsedRegisters(Code[at]))
        /\ Virtual(WriteRegisters(Code[at])) \subseteq Virtual(AllUsedRegisters(Code[at]))
    BY <1>3, UsedIsFinite
  <2>2. \A n \in DOMAIN newInstructions[at].loads : \E r \in Virtual(ReadRegisters(Code[at])) :
          newInstructions[at].loads[n] = [gpr |-> m[r], slot |-> registerOffsets[r]]
    BY <1>4 DEF TranslatesBy, Moves
  <2>3. \A n \in DOMAIN newInstructions[at].stores : \E r \in Virtual(WriteRegisters(Code[at])) :
          newInstructions[at].stores[n] = [gpr |-> m[r], slot |-> registerOffsets[r]]
    BY <1>4 DEF TranslatesBy, Moves
  <2>4. ASSUME NEW t \in Range(newInstructions[at].loads)
        PROVE  \E r \in Virtual(AllUsedRegisters(Code[at])) :
                 t = [gpr |-> m[r], slot |-> registerOffsets[r]]
    <3>1. PICK n \in DOMAIN newInstructions[at].loads : t = newInstructions[at].loads[n]
      BY DEF Range
    <3>2. QED
      BY <2>1, <2>2, <3>1
  <2>5. ASSUME NEW t \in Range(newInstructions[at].stores)
        PROVE  \E r \in Virtual(AllUsedRegisters(Code[at])) :
                 t = [gpr |-> m[r], slot |-> registerOffsets[r]]
    <3>1. PICK n \in DOMAIN newInstructions[at].stores : t = newInstructions[at].stores[n]
      BY DEF Range
    <3>2. QED
      BY <2>1, <2>3, <3>1
  <2>6. QED
    BY <2>4, <2>5
<1>7. \A t \in Range(newInstructions[at].loads) \cup Range(newInstructions[at].stores) :
        t.gpr \in GPRs /\ t.slot \in 1..Cardinality(DOMAIN registerOffsets)
  BY <1>5, <1>6
<1>8. Cardinality(DOMAIN registerOffsets) <= esp /\ esp \in 0..StackSize
      /\ Cardinality(DOMAIN registerOffsets) \in Nat /\ StackSize \in Nat
  BY FS_CardinalityType, StackAssumption DEF Inv, InFrame, Numbered, TypeOK
<1>9. QED
  BY <1>2, <1>7, <1>8
-----------------------------------------------------------------------------
(***************************************************************************)
(* The steps of the allocator.                                             *)
(***************************************************************************)
LEMMA AllocateForKeepsInv == Inv /\ AllocateFor => Inv'
<1> SUFFICES ASSUME Inv, AllocateFor
             PROVE  Inv'
  OBVIOUS
<1>1. /\ registerOffsets' = << >> /\ offset' = 1 /\ k' = 1 /\ newInstructions' = << >>
      /\ pc' = "populate"
      /\ program' = program /\ method' = method /\ Code' = Code
      /\ DOMAIN registerOffsets' = {}
  BY DEF AllocateFor, ClearOffsets, Code
<1>2. TypeOK'
  BY <1>1 DEF Inv, TypeOK, AllocateFor, machine
<1>3. Numbered'
  BY <1>1, FS_EmptySet DEF Numbered, IsInjective
<1>4. Collected'
  <2>1. method \in DOMAIN program /\ DOMAIN Code \subseteq Nat \ {0}
    BY CodeIsWellFormed DEF AllocateFor, Inv, TypeOK
  <2>2. QED
    BY <1>1, <2>1 DEF Collected
<1>5. BlocksTranslate' /\ InFrame' /\ Loaded'
  BY <1>1 DEF BlocksTranslate, InFrame, Loaded
<1>6. QED
  BY <1>2, <1>3, <1>4, <1>5 DEF Inv

LEMMA PopulateOffsetKeepsInv == Inv /\ PopulateOffset => Inv'
<1> SUFFICES ASSUME Inv, PopulateOffset
             PROVE  Inv'
  OBVIOUS
<1>1. PICK reg \in Unassigned(k) :
        /\ registerOffsets' = [r \in DOMAIN registerOffsets \cup {reg} |->
                                 IF r = reg THEN offset ELSE registerOffsets[r]]
        /\ offset' = offset + 1
  BY DEF PopulateOffset, NextOffset
<1>2. /\ pc = "populate" /\ pc' = pc /\ k \in DOMAIN Code /\ k' = k
      /\ program' = program /\ method' = method /\ Code' = Code
      /\ newInstructions' = newInstructions
  BY DEF PopulateOffset, Code
<1>3. /\ reg \in Virtual(AllUsedRegisters(Code[k])) /\ reg \notin DOMAIN registerOffsets
      /\ DOMAIN registerOffsets' = DOMAIN registerOffsets \cup {reg}
  BY <1>1 DEF Unassigned
<1>4. Numbered'
  <2>1. /\ IsFiniteSet(DOMAIN registerOffsets')
        /\ Cardinality(DOMAIN registerOffsets') = Cardinality(DOMAIN registerOffsets) + 1
    BY <1>3, FS_AddElement DEF Inv, Numbered
  <2>2. offset' \in Nat \ {0} /\ Cardinality(DOMAIN registerOffsets') = offset' - 1
    BY <1>1, <2>1 DEF Inv, Numbered
  <2>3. registerOffsets' \in [DOMAIN registerOffsets' -> 1..(offset' - 1)]
    BY <1>1, <1>3 DEF Inv, Numbered
  <2>4. \A r \in DOMAIN registerOffsets : registerOffsets[r] # offset
    BY DEF Inv, Numbered
  <2>5. IsInjective(registerOffsets')
    BY <1>1, <1>3, <2>4 DEF Inv, Numbered, IsInjective
  <2>6. QED
    BY <2>1, <2>2, <2>3, <2>5 DEF Numbered
<1>5. TypeOK'
  <2>1. \A r \in DOMAIN registerOffsets' : registerOffsets'[r] \in 1..(offset' - 1)
    BY <1>4 DEF Numbered
  <2>2. QED
    BY <1>1, <1>2, <2>1 DEF Inv, TypeOK, PopulateOffset, machine
<1>6. Collected'
  <2>1. Virtual(AllUsedRegisters(Code[k])) \subseteq RegistersOf(Code)
    BY <1>2, CodeIsWellFormed DEF Inv, TypeOK, Collected
  <2>2. QED
    BY <1>2, <1>3, <2>1 DEF Inv, Collected
<1>7. BlocksTranslate' /\ InFrame' /\ Loaded'
  BY <1>2 DEF Inv, BlocksTranslate, InFrame, Loaded
<1>8. QED
  BY <1>4, <1>5, <1>6, <1>7 DEF Inv

LEMMA NextInstructionKeepsInv == Inv /\ NextInstruction => Inv'
<1> SUFFICES ASSUME Inv, NextInstruction
             PROVE  Inv'
  OBVIOUS
<1>1. /\ pc = "populate" /\ pc' = pc /\ k \in DOMAIN Code /\ k' = k + 1
      /\ Virtual(AllUsedRegisters(Code[k])) \subseteq DOMAIN registerOffsets
      /\ program' = program /\ method' = method /\ Code' = Code
      /\ UNCHANGED <<registerOffsets, offset, newInstructions, machine>>
  BY DEF NextInstruction, FollowingInstruction, Unassigned, Code
<1>2. TypeOK' /\ Numbered'
  BY <1>1 DEF Inv, TypeOK, Numbered, machine
<1>3. Collected'
  <2>1. DOMAIN Code \subseteq Nat /\ k \in Nat
    BY CodeIsWellFormed DEF Inv, TypeOK, Collected, NextInstruction
  <2>2. \A n \in DOMAIN Code : n < k + 1 => n < k \/ n = k
    BY <2>1
  <2>3. QED
    BY <1>1, <2>2 DEF Inv, Collected
<1>4. BlocksTranslate' /\ InFrame' /\ Loaded'
  BY <1>1 DEF Inv, BlocksTranslate, InFrame, Loaded
<1>5. QED
  BY <1>2, <1>3, <1>4 DEF Inv

LEMMA EndPopulateKeepsInv == Inv /\ EndPopulate => Inv'
<1> SUFFICES ASSUME Inv, EndPopulate
             PROVE  Inv'
  OBVIOUS
<1>1. /\ pc = "populate" /\ pc' = "replace" /\ k \notin DOMAIN Code /\ k' = 1
      /\ program' = program /\ method' = method /\ Code' = Code
      /\ UNCHANGED <<registerOffsets, offset, newInstructions, machine>>
  BY DEF EndPopulate, Code
<1>2. newInstructions = << >> /\ Len(newInstructions) = 0 /\ DOMAIN newInstructions = {}
  BY <1>1 DEF Inv, BlocksTranslate
<1>3. program \in Programs /\ method \in DOMAIN program /\ Len(Code) \in Nat
  BY <1>1, CodeIsWellFormed DEF Inv, TypeOK, Collected
<1>4. TypeOK' /\ Numbered'
  BY <1>1, <1>2 DEF Inv, TypeOK, Numbered, machine
<1>5. Collected'
  <2>1. \A n \in DOMAIN Code : n < k
    BY <1>1, <1>3, CodeIsWellFormed DEF Inv, TypeOK
  <2>2. RegistersOf(Code) \subseteq DOMAIN registerOffsets
    BY <1>1, <2>1 DEF Inv, Collected, RegistersOf
  <2>3. QED
    BY <1>1, <1>3, <2>2 DEF Inv, Collected
<1>6. BlocksTranslate' /\ InFrame' /\ Loaded'
  BY <1>1, <1>2, <1>3 DEF Inv, BlocksTranslate, InFrame, Loaded
<1>7. QED
  BY <1>4, <1>5, <1>6 DEF Inv

\* What the list of loads, or of stores, that Replace emits does.
LEMMA TransfersMove ==
  ASSUME NEW R, IsFiniteSet(R), NEW m, NEW o \in Orders(R)
  PROVE  Moves(Transfers(o, m), R, m, registerOffsets)
<1>1. /\ DOMAIN o = 1..Cardinality(R)
      /\ \A n \in DOMAIN o : o[n] \in R
      /\ \A r \in R : \E n \in DOMAIN o : o[n] = r
  BY DEF Orders, Range
<1>2. Cardinality(R) \in Nat
  BY FS_CardinalityType
<1>3. /\ DOMAIN Transfers(o, m) = DOMAIN o
      /\ \A n \in DOMAIN o :
           Transfers(o, m)[n] = [gpr |-> m[o[n]], slot |-> registerOffsets[o[n]]]
  BY DEF Transfers
<1>4. QED
  BY <1>1, <1>2, <1>3 DEF Moves

LEMMA ReplaceKeepsInv == Inv /\ Replace => Inv'
<1> SUFFICES ASSUME Inv, Replace
             PROVE  Inv'
  OBVIOUS
<1> DEFINE i    == Code[k]
           used == Virtual(AllUsedRegisters(i))
<1>1. /\ pc = "replace" /\ k \in DOMAIN Code /\ k' = k + 1
      /\ program' = program /\ method' = method /\ Code' = Code
      /\ UNCHANGED <<registerOffsets, offset, machine>>
  BY DEF Replace, Code
<1>2. /\ program \in Programs /\ method \in DOMAIN program
      /\ Len(Code) \in Nat /\ DOMAIN Code = 1..Len(Code) /\ IsInstruction(i)
  BY <1>1, CodeIsWellFormed DEF Inv, TypeOK, Collected
<1>3. IsFiniteSet(used) /\ Virtual(ReadRegisters(i)) \subseteq used
      /\ Virtual(WriteRegisters(i)) \subseteq used
  BY <1>2, UsedIsFinite
<1>4. Numbered'
  BY <1>1 DEF Inv, Numbered
<1>5. CASE pc' = "error" /\ UNCHANGED newInstructions
  <2>1. TypeOK'
    BY <1>1, <1>5 DEF Inv, TypeOK, machine
  <2>2. Collected' /\ BlocksTranslate' /\ InFrame' /\ Loaded'
    BY <1>1, <1>5 DEF Inv, Collected, BlocksTranslate, InFrame, Loaded
  <2>3. QED
    BY <1>4, <2>1, <2>2 DEF Inv
<1>6. CASE Cardinality(used) <= Len(instructionRegisters) /\ pc' = pc
  <2>1. PICK m \in VirtualToGPR(used),
             loads \in Orders(Virtual(ReadRegisters(i))),
             stores \in Orders(Virtual(WriteRegisters(i))) :
          newInstructions' = Append(newInstructions,
            [loads |-> Transfers(loads, m), instruction |-> ReplaceRegisters(i, m),
             stores |-> Transfers(stores, m)])
    BY <1>1, <1>6 DEF Replace, StoredRegisters
  <2> DEFINE b == [loads |-> Transfers(loads, m), instruction |-> ReplaceRegisters(i, m),
                   stores |-> Transfers(stores, m)]
  <2>2. TranslatesBy(i, b, m, registerOffsets)
    <3>1. /\ m \in [used -> Range(instructionRegisters)]
          /\ \A r, s \in used : m[r] = m[s] => r = s
      BY <1>3, <1>6, VirtualToGPRIsInjective
    <3>2. IsFiniteSet(Virtual(ReadRegisters(i))) /\ IsFiniteSet(Virtual(WriteRegisters(i)))
      BY <1>3, FS_Subset
    <3>3. /\ Moves(b.loads, Virtual(ReadRegisters(i)), m, registerOffsets)
          /\ Moves(b.stores, Virtual(WriteRegisters(i)), m, registerOffsets)
      BY <3>2, TransfersMove
    <3>4. QED
      BY <3>1, <3>3 DEF TranslatesBy
  <2> HIDE DEF b
  <2>3. /\ newInstructions' \in Seq(Range(newInstructions'))
        /\ Len(newInstructions') = Len(newInstructions) + 1
        /\ DOMAIN newInstructions' = 1..(Len(newInstructions) + 1)
        /\ DOMAIN newInstructions = 1..Len(newInstructions)
        /\ \A n \in 1..Len(newInstructions) : newInstructions'[n] = newInstructions[n]
        /\ newInstructions'[Len(newInstructions) + 1] = b
    <3>1. newInstructions \in Seq(Range(newInstructions) \cup {b}) /\ b \in Range(newInstructions) \cup {b}
      BY DEF Inv, BlocksTranslate
    <3>2. newInstructions' = Append(newInstructions, b)
      BY <2>1 DEF b
    <3>3. Range(newInstructions') = Range(newInstructions) \cup {b}
      BY <3>1, <3>2, RangeAppend
    <3>4. QED
      BY <3>1, <3>2, <3>3
  <2>4. /\ Len(newInstructions) = k - 1 /\ k \in Nat \ {0}
        /\ \A n \in DOMAIN newInstructions : n \in DOMAIN Code /\ Translates(Code[n], newInstructions[n], registerOffsets)
    BY <1>1 DEF Inv, TypeOK, BlocksTranslate
  <2>5. \A n \in DOMAIN newInstructions' :
          n \in DOMAIN Code /\ Translates(Code[n], newInstructions'[n], registerOffsets)
    <3> SUFFICES ASSUME NEW n \in DOMAIN newInstructions'
                 PROVE  n \in DOMAIN Code /\ Translates(Code[n], newInstructions'[n], registerOffsets)
      OBVIOUS
    <3>1. CASE n = k
      BY <1>1, <2>2, <2>3, <2>4, <3>1 DEF Translates
    <3>2. CASE n # k
      BY <2>3, <2>4, <3>2
    <3>3. QED
      BY <3>1, <3>2
  <2>6. \A n \in DOMAIN newInstructions' :
          n \in DOMAIN Code' /\ Translates(Code'[n], newInstructions'[n], registerOffsets')
    BY <1>1, <2>5
  <2>7. BlocksTranslate'
    BY <1>1, <1>2, <1>6, <2>3, <2>4, <2>6 DEF BlocksTranslate
  <2>8. TypeOK'
    BY <1>1, <1>6, <2>3, <2>4 DEF Inv, TypeOK, machine
  <2>9. Collected' /\ InFrame' /\ Loaded'
    BY <1>1, <1>6 DEF Inv, Collected, InFrame, Loaded
  <2>10. QED
    BY <1>4, <2>7, <2>8, <2>9 DEF Inv
<1>7. QED
  <2>1. Cardinality(used) \in Nat /\ Len(instructionRegisters) \in Nat
    BY <1>3, FS_CardinalityType, InstructionRegistersAreThree
  <2>2. QED
    BY <1>5, <1>6, <2>1 DEF Replace

LEMMA PrologueKeepsInv == Inv /\ Prologue => Inv'
<1> SUFFICES ASSUME Inv, Prologue
             PROVE  Inv'
  OBVIOUS
<1>1. /\ pc = "replace" /\ pc' = "run" /\ k \notin DOMAIN Code
      /\ at' = 1 /\ part' = "load" /\ j' = 1
      /\ esp' = Cardinality(DOMAIN registerOffsets)
      /\ Cardinality(DOMAIN registerOffsets) <= StackSize
      /\ program' = program /\ method' = method /\ Code' = Code
      /\ UNCHANGED <<allocator, world>>
  BY DEF Prologue, StackFrame, Code
<1>2. gprs' \in [GPRs -> Values] /\ stack' \in [1..StackSize -> Values]
  BY StackAssumption DEF Prologue
<1>3. /\ program \in Programs /\ method \in DOMAIN program
      /\ Len(Code) \in Nat /\ DOMAIN Code = 1..Len(Code)
  BY <1>1, CodeIsWellFormed DEF Inv, TypeOK, Collected
<1>4. Cardinality(DOMAIN registerOffsets) \in Nat /\ StackSize \in Nat
  BY FS_CardinalityType, StackAssumption DEF Inv, Numbered
<1>5. TypeOK'
  BY <1>1, <1>2, <1>4 DEF Inv, TypeOK, allocator
<1>6. Numbered' /\ Collected'
  BY <1>1 DEF Inv, Numbered, Collected, allocator
<1>7. BlocksTranslate'
  <2>1. \A n \in DOMAIN newInstructions' :
          n \in DOMAIN Code' /\ Translates(Code'[n], newInstructions'[n], registerOffsets')
    BY <1>1 DEF Inv, BlocksTranslate, allocator
  <2>2. k = Len(Code) + 1
    BY <1>1, <1>3 DEF Inv, TypeOK, BlocksTranslate
  <2>3. QED
    BY <1>1, <1>3, <2>1, <2>2 DEF Inv, BlocksTranslate, allocator
<1>8. InFrame'
  BY <1>1, <1>3, <1>4 DEF InFrame, allocator
<1>9. Loaded'
  <2>1. at' \in DOMAIN Code' => \A n \in DOMAIN newInstructions'[1].loads : ~(n < 1)
    <3> SUFFICES ASSUME 1 \in DOMAIN Code, NEW n \in DOMAIN newInstructions[1].loads
                 PROVE  ~(n < 1)
      BY <1>1 DEF allocator
    <3>1. 1 \in DOMAIN newInstructions
      BY <1>1, <1>3 DEF Inv, TypeOK, BlocksTranslate
    <3>2. \E c \in Nat : DOMAIN newInstructions[1].loads = 1..c
      BY <1>1, <3>1 DEF Inv, BlocksTranslate, Translates, TranslatesBy, Moves
    <3>3. QED
      BY <3>2
  <2>2. QED
    BY <1>1, <2>1 DEF Loaded
<1>10. QED
  BY <1>5, <1>6, <1>7, <1>8, <1>9 DEF Inv
-----------------------------------------------------------------------------
(***************************************************************************)
(* The steps of the machine.                                               *)
(***************************************************************************)
\* While the code runs each block stands for its instruction.
LEMMA RunningCode ==
  ASSUME Inv, pc = "run"
  PROVE  /\ program \in Programs /\ method \in DOMAIN program
         /\ Len(Code) \in Nat /\ DOMAIN Code = 1..Len(Code)
         /\ DOMAIN newInstructions = DOMAIN Code
         /\ DOMAIN registerOffsets = RegistersOf(Code)
         /\ \A n \in DOMAIN Code :
              /\ IsInstruction(Code[n])
              /\ Code[n].target \in 0..Len(Code)
              /\ Virtual(AllUsedRegisters(Code[n])) \subseteq RegistersOf(Code)
              /\ Translates(Code[n], newInstructions[n], registerOffsets)
              /\ \E c \in Nat : DOMAIN newInstructions[n].loads = 1..c
              /\ \E c \in Nat : DOMAIN newInstructions[n].stores = 1..c
<1>1. /\ program \in Programs /\ method \in DOMAIN program
      /\ DOMAIN registerOffsets = RegistersOf(Code)
      /\ Len(newInstructions) = Len(Code)
      /\ newInstructions \in Seq(Range(newInstructions))
      /\ \A n \in DOMAIN newInstructions : Translates(Code[n], newInstructions[n], registerOffsets)
  BY DEF Inv, TypeOK, Collected, BlocksTranslate
<1>2. /\ Len(Code) \in Nat /\ DOMAIN Code = 1..Len(Code)
      /\ \A n \in DOMAIN Code : IsInstruction(Code[n]) /\ Code[n].target \in 0..Len(Code)
      /\ \A n \in DOMAIN Code : Virtual(AllUsedRegisters(Code[n])) \subseteq RegistersOf(Code)
  BY <1>1, CodeIsWellFormed
<1>3. DOMAIN newInstructions = DOMAIN Code
  BY <1>1, <1>2
<1>4. \A n \in DOMAIN Code : /\ \E c \in Nat : DOMAIN newInstructions[n].loads = 1..c
                            /\ \E c \in Nat : DOMAIN newInstructions[n].stores = 1..c
  BY <1>1, <1>3 DEF Translates, TranslatesBy, Moves
<1>5. QED
  BY <1>1, <1>2, <1>3, <1>4

LEMMA MachineKeepsAllocation ==
  ASSUME Inv, pc = "run", pc' = "run", UNCHANGED <<program, method, allocator>>
  PROVE  Code' = Code /\ Numbered' /\ Collected' /\ BlocksTranslate'
<1>1. Code' = Code
  BY DEF Code
<1>2. Numbered' /\ Collected'
  BY <1>1 DEF Inv, Numbered, Collected, allocator
<1>3. BlocksTranslate'
  BY <1>1 DEF Inv, BlocksTranslate, allocator
<1>4. QED
  BY <1>1, <1>2, <1>3

LEMMA LoadKeepsInv == Inv /\ Load => Inv'
<1> SUFFICES ASSUME Inv, Load
             PROVE  Inv'
  OBVIOUS
<1> DEFINE l == newInstructions[at].loads
<1>1. /\ pc = "run" /\ pc' = pc /\ at \in DOMAIN Code /\ part = "load" /\ j \in DOMAIN l
      /\ gprs' = [gprs EXCEPT ![l[j].gpr] = stack[l[j].slot]]
      /\ j' = j + 1
      /\ UNCHANGED <<program, method, allocator, at, part, stack, esp, world>>
  BY DEF Load, Running
<1>2. Code' = Code /\ Numbered' /\ Collected' /\ BlocksTranslate'
  BY <1>1, MachineKeepsAllocation
<1>3. \A n \in DOMAIN l : l[n].gpr \in GPRs /\ l[n].slot \in 1..StackSize
  BY <1>1, TransfersStayInFrame DEF Range
<1>4. \A n \in DOMAIN l : n \in Nat \ {0}
  BY <1>1, RunningCode
<1>5. TypeOK'
  <2>1. stack[l[j].slot] \in Values
    BY <1>1, <1>3 DEF Inv, TypeOK
  <2>2. gprs' \in [GPRs -> Values]
    BY <1>1, <2>1 DEF Inv, TypeOK
  <2>3. QED
    BY <1>1, <1>4, <2>2 DEF Inv, TypeOK, allocator
<1>6. InFrame'
  BY <1>1, <1>2 DEF Inv, InFrame, allocator
<1>7. Loaded'
  <2>1. \A m, n \in DOMAIN l : l[m].gpr = l[n].gpr => l[m].slot = l[n].slot
    <3>1. PICK v : TranslatesBy(Code[at], newInstructions[at], v, registerOffsets)
      BY <1>1, RunningCode DEF Translates
    <3>2. Virtual(ReadRegisters(Code[at])) \subseteq Virtual(AllUsedRegisters(Code[at]))
      BY <1>1, RunningCode, UsedIsFinite
    <3>3. \A n \in DOMAIN l : \E r \in Virtual(ReadRegisters(Code[at])) :
            l[n] = [gpr |-> v[r], slot |-> registerOffsets[r]]
      BY <3>1 DEF TranslatesBy, Moves
    <3>4. \A r, s \in Virtual(ReadRegisters(Code[at])) : v[r] = v[s] => r = s
      BY <3>1, <3>2 DEF TranslatesBy
    <3> SUFFICES ASSUME NEW m \in DOMAIN l, NEW n \in DOMAIN l, l[m].gpr = l[n].gpr
                 PROVE  l[m].slot = l[n].slot
      OBVIOUS
    <3>5. PICK r \in Virtual(ReadRegisters(Code[at])) :
            l[m] = [gpr |-> v[r], slot |-> registerOffsets[r]]
      BY <3>3
    <3>6. PICK q \in Virtual(ReadRegisters(Code[at])) :
            l[n] = [gpr |-> v[q], slot |-> registerOffsets[q]]
      BY <3>3
    <3>7. v[r] = v[q] /\ l[m].slot = registerOffsets[r] /\ l[n].slot = registerOffsets[q]
      BY <3>5, <3>6
    <3>8. r = q
      BY <3>4, <3>7
    <3>9. QED
      BY <3>7, <3>8
  <2>2. \A n \in DOMAIN l : n < j + 1 => gprs'[l[n].gpr] = stack[l[n].slot]
    <3> SUFFICES ASSUME NEW n \in DOMAIN l, n < j + 1
                 PROVE  gprs'[l[n].gpr] = stack[l[n].slot]
      OBVIOUS
    <3>1. DOMAIN gprs = GPRs
      BY DEF Inv, TypeOK
    <3>2. CASE l[n].gpr = l[j].gpr
      BY <1>1, <1>3, <2>1, <3>1, <3>2
    <3>3. CASE l[n].gpr # l[j].gpr
      <4>1. n < j
        BY <1>1, <1>4, <3>3
      <4>2. gprs[l[n].gpr] = stack[l[n].slot]
        BY <1>1, <4>1 DEF Inv, Loaded
      <4>3. QED
        BY <1>1, <1>3, <3>1, <3>3, <4>2
    <3>4. QED
      BY <3>2, <3>3
  <2>3. QED
    BY <1>1, <2>2 DEF Loaded, allocator
<1>8. QED
  BY <1>2, <1>5, <1>6, <1>7 DEF Inv

LEMMA StoreKeepsInv == Inv /\ Store => Inv'
<1> SUFFICES ASSUME Inv, Store
             PROVE  Inv'
  OBVIOUS
<1> DEFINE s == newInstructions[at].stores
<1>1. /\ pc = "run" /\ pc' = pc /\ at \in DOMAIN Code /\ part = "store" /\ j \in DOMAIN s
      /\ stack' = [stack EXCEPT ![s[j].slot] = gprs[s[j].gpr]]
      /\ j' = j + 1
      /\ UNCHANGED <<program, method, allocator, at, part, gprs, esp, world>>
  BY DEF Store, Running
<1>2. Code' = Code /\ Numbered' /\ Collected' /\ BlocksTranslate'
  BY <1>1, MachineKeepsAllocation
<1>3. s[j].gpr \in GPRs /\ s[j].slot \in 1..StackSize
  BY <1>1, TransfersStayInFrame DEF Range
<1>4. j \in Nat \ {0}
  BY DEF Inv, TypeOK
<1>5. TypeOK'
  BY <1>1, <1>3, <1>4 DEF Inv, TypeOK, allocator
<1>6. InFrame' /\ Loaded'
  BY <1>1, <1>2 DEF Inv, InFrame, Loaded, allocator
<1>7. QED
  BY <1>2, <1>5, <1>6 DEF Inv

LEMMA AdvanceKeepsInv == Inv /\ Advance => Inv'
<1> SUFFICES ASSUME Inv, Advance
             PROVE  Inv'
  OBVIOUS
<1>1. /\ pc = "run" /\ pc' = pc /\ at \in DOMAIN Code
      /\ at' = at + 1 /\ part' = "load" /\ j' = 1
      /\ UNCHANGED <<program, method, allocator, gprs, stack, esp, world>>
  BY DEF Advance, Running
<1>2. Code' = Code /\ Numbered' /\ Collected' /\ BlocksTranslate'
  BY <1>1, MachineKeepsAllocation
<1>3. TypeOK'
  BY <1>1 DEF Inv, TypeOK, allocator
<1>4. InFrame'
  BY <1>1, <1>2, RunningCode DEF Inv, InFrame, allocator
<1>5. Loaded'
  <2>1. ASSUME at + 1 \in DOMAIN Code, NEW n \in DOMAIN newInstructions[at + 1].loads
        PROVE  ~(n < 1)
    BY <1>1, <2>1, RunningCode
  <2>2. QED
    BY <1>1, <1>2, <2>1 DEF Loaded, allocator
<1>6. QED
  BY <1>2, <1>3, <1>4, <1>5 DEF Inv

LEMMA ReturnKeepsInv == Inv /\ Return => Inv'
<1> SUFFICES ASSUME Inv, Return
             PROVE  Inv'
  OBVIOUS
<1>1. /\ pc = "run" /\ pc' = "allocate" /\ method' = method + 1
      /\ at' = 0 /\ part' = "load" /\ j' = 1 /\ esp' = 0
      /\ UNCHANGED <<program, allocator, gprs, stack, world>>
  BY DEF Return
<1>2. method' \in 1..(Len(program) + 1)
  <2>1. program \in Seq(Range(program)) /\ method \in DOMAIN program
    BY <1>1, RunningCode, ProgramsAssumption
  <2>2. QED
    BY <1>1, <2>1
<1>3. TypeOK'
  BY <1>1, <1>2, StackAssumption DEF Inv, TypeOK, allocator
<1>4. Numbered' /\ Collected' /\ BlocksTranslate' /\ InFrame' /\ Loaded'
  BY <1>1 DEF Inv, Numbered, Collected, BlocksTranslate, InFrame, Loaded, allocator
<1>5. QED
  BY <1>3, <1>4 DEF Inv

\* What Execute does, conjunct by conjunct.
LEMMA ExecuteSteps ==
  ASSUME Inv, Execute
  PROVE  LET b == newInstructions[at].instruction
         IN  /\ pc = "run" /\ pc' = pc /\ at \in DOMAIN Code /\ part = "load"
             /\ j \notin DOMAIN newInstructions[at].loads /\ j' = 1
             /\ b.stack # "ret"
             /\ UNCHANGED <<program, method, allocator>>
             /\ \E o \in Results(b, gprs, world, Pushed) :
                  /\ o \in Outcome
                  /\ gprs' = Written(b, gprs, o) /\ world' = o.world
                  /\ b.stack = "none" => UNCHANGED <<stack, esp>>
                  /\ b.stack = "push" => /\ esp < StackSize /\ esp' = esp + 1
                                         /\ stack' = [stack EXCEPT ![esp + 1] = o.result]
                  /\ b.stack = "drop" => /\ b.count <= Len(Pushed) /\ esp' = esp - b.count
                                         /\ UNCHANGED stack
                  /\ b.target # 0 /\ o.jump => at' = b.target /\ UNCHANGED part
                  /\ ~(b.target # 0 /\ o.jump) => part' = "store" /\ UNCHANGED at
<1>1. /\ pc = "run" /\ at \in DOMAIN Code /\ part = "load"
      /\ j \notin DOMAIN newInstructions[at].loads /\ j' = 1 /\ pc' = pc
      /\ UNCHANGED <<program, method, allocator>>
      /\ newInstructions[at].instruction.stack # "ret"
  BY DEF Execute, Running
<1> DEFINE b == newInstructions[at].instruction
<1>2. PICK o \in Results(b, gprs, world, Pushed) :
        /\ gprs' = Written(b, gprs, o)
        /\ world' = o.world
        /\ CASE b.stack = "none" -> UNCHANGED <<stack, esp>>
             [] b.stack = "push" ->
                  /\ esp < StackSize
                  /\ esp' = esp + 1
                  /\ stack' = [stack EXCEPT ![esp + 1] = o.result]
             [] b.stack = "drop" ->
                  /\ b.count <= Len(Pushed)
                  /\ esp' = esp - b.count
                  /\ UNCHANGED stack
        /\ IF b.target # 0 /\ o.jump
           THEN at' = b.target /\ UNCHANGED part
           ELSE part' = "store" /\ UNCHANGED at
  BY DEF Execute
<1>3. o \in Outcome
  BY DEF Results
<1>4. b.stack = "none" => UNCHANGED <<stack, esp>>
  BY <1>2
<1>5. b.stack = "push" => /\ esp < StackSize /\ esp' = esp + 1
                          /\ stack' = [stack EXCEPT ![esp + 1] = o.result]
  BY <1>2
<1>6. b.stack = "drop" => b.count <= Len(Pushed) /\ esp' = esp - b.count /\ UNCHANGED stack
  BY <1>2
<1>7. QED
  BY <1>1, <1>2, <1>3, <1>4, <1>5, <1>6

\* An instruction and the one that replaces it differ in their operands only.
LEMMA ReplacedAlike ==
  ASSUME NEW i, IsInstruction(i), NEW m
  PROVE  LET b == ReplaceRegisters(i, m)
         IN  /\ b.op = i.op /\ b.readGPRs = i.readGPRs /\ b.writeGPRs = i.writeGPRs
             /\ b.clobbers = i.clobbers /\ b.stack = i.stack /\ b.count = i.count
             /\ b.target = i.target
             /\ DOMAIN b.operands = DOMAIN i.operands
             /\ \A n \in DOMAIN i.operands : b.operands[n] = Replaced(i.operands[n], m)
BY DEF ReplaceRegisters, IsInstruction

LEMMA ExecuteKeepsInv == Inv /\ Execute => Inv'
<1> SUFFICES ASSUME Inv, Execute
             PROVE  Inv'
  OBVIOUS
<1> DEFINE b == newInstructions[at].instruction
           frame == Cardinality(DOMAIN registerOffsets)
<1>1. /\ pc = "run" /\ pc' = pc /\ at \in DOMAIN Code /\ part = "load" /\ j' = 1
      /\ b.stack # "ret"
      /\ UNCHANGED <<program, method, allocator>>
  BY ExecuteSteps
<1>2. PICK o \in Results(b, gprs, world, Pushed) :
        /\ o \in Outcome
        /\ gprs' = Written(b, gprs, o) /\ world' = o.world
        /\ b.stack = "none" => UNCHANGED <<stack, esp>>
        /\ b.stack = "push" => /\ esp < StackSize /\ esp' = esp + 1
                               /\ stack' = [stack EXCEPT ![esp + 1] = o.result]
        /\ b.stack = "drop" => b.count <= Len(Pushed) /\ esp' = esp - b.count /\ UNCHANGED stack
        /\ b.target # 0 /\ o.jump => at' = b.target /\ UNCHANGED part
        /\ ~(b.target # 0 /\ o.jump) => part' = "store" /\ UNCHANGED at
  BY ExecuteSteps
<1>3. Code' = Code /\ Numbered' /\ Collected' /\ BlocksTranslate'
  BY <1>1, MachineKeepsAllocation
<1>4. /\ b.stack \in {"none", "push", "drop"}
      /\ b.count \in Nat /\ b.target \in 0..Len(Code) /\ b.clobbers \subseteq GPRs
      /\ b.writeGPRs \subseteq GPRs
  <2>1. PICK m : TranslatesBy(Code[at], newInstructions[at], m, registerOffsets)
    BY <1>1, RunningCode DEF Translates
  <2>2. IsInstruction(Code[at]) /\ Code[at].target \in 0..Len(Code) /\ b = ReplaceRegisters(Code[at], m)
    BY <1>1, <2>1, RunningCode DEF TranslatesBy
  <2>3. /\ b.stack = Code[at].stack /\ b.count = Code[at].count /\ b.target = Code[at].target
        /\ b.clobbers = Code[at].clobbers /\ b.writeGPRs = Code[at].writeGPRs
    BY <2>2, ReplacedAlike
  <2>4. /\ Code[at].stack \in {"none", "push", "drop", "ret"} /\ Code[at].count \in Nat
        /\ Code[at].clobbers \subseteq GPRs /\ Code[at].writeGPRs \subseteq GPRs
    BY <2>2, InstructionRegistersAreThree DEF IsInstruction
  <2>5. QED
    BY <1>1, <2>2, <2>3, <2>4
<1>5. /\ frame \in Nat /\ StackSize \in Nat /\ esp \in 0..StackSize /\ frame <= esp
      /\ gprs \in [GPRs -> Values] /\ stack \in [1..StackSize -> Values]
      /\ o.result \in Values /\ o.fixed \in [GPRs -> Values] /\ o.world \in Worlds
  BY <1>1, <1>2, FS_CardinalityType, StackAssumption DEF Inv, TypeOK, Numbered, InFrame, Outcome
<1>6. Len(Pushed) = esp - frame
  <2>1. esp - frame \in Nat
    BY <1>5
  <2>2. QED
    BY <2>1 DEF Pushed
<1>7. gprs' \in [GPRs -> Values]
  BY <1>2, <1>4, <1>5 DEF Written
<1>8. stack' \in [1..StackSize -> Values] /\ esp' \in 0..StackSize /\ frame <= esp'
  <2>1. CASE b.stack = "none"
    BY <1>2, <1>5, <2>1
  <2>2. CASE b.stack = "push"
    <3>1. stack' = [stack EXCEPT ![esp + 1] = o.result]
      BY <1>2, <2>2
    <3>2. stack' \in [1..StackSize -> Values]
      BY <1>5, <3>1
    <3>3. QED
      BY <1>2, <1>5, <2>2, <3>2
  <2>3. CASE b.stack = "drop"
    BY <1>2, <1>4, <1>5, <1>6, <2>3
  <2>4. QED
    BY <1>4, <2>1, <2>2, <2>3
<1>9. /\ at' \in 1..Len(Code)
      /\ part' \in {"load", "store"}
  BY <1>1, <1>2, <1>4, RunningCode
<1>10. TypeOK'
  BY <1>1, <1>2, <1>5, <1>7, <1>8, <1>9 DEF Inv, TypeOK, allocator
<1>11. InFrame'
  <2>1. at' \in DOMAIN Code' /\ Len(Code) \in Nat
    BY <1>1, <1>3, <1>9, RunningCode
  <2>2. QED
    BY <1>1, <1>3, <1>8, <1>9, <2>1 DEF InFrame, allocator
<1>12. Loaded'
  <2>1. ASSUME at' \in DOMAIN Code, NEW n \in DOMAIN newInstructions[at'].loads
        PROVE  ~(n < 1)
    BY <1>1, <2>1, RunningCode
  <2>2. QED
    BY <1>1, <1>3, <2>1 DEF Loaded, allocator
<1>13. QED
  BY <1>3, <1>10, <1>11, <1>12 DEF Inv
-----------------------------------------------------------------------------
LEMMA StepKeepsInv == Inv /\ [Next]_vars => Inv'
<1> SUFFICES ASSUME Inv, [Next]_vars
             PROVE  Inv'
  OBVIOUS
<1>1. CASE AllocateFor \/ PopulateOffset \/ NextInstruction \/ EndPopulate \/ Replace \/ Prologue
  BY <1>1, AllocateForKeepsInv, PopulateOffsetKeepsInv, NextInstructionKeepsInv,
     EndPopulateKeepsInv, ReplaceKeepsInv, PrologueKeepsInv
<1>2. CASE Load \/ Execute \/ Store \/ Advance \/ Return
  BY <1>2, LoadKeepsInv, ExecuteKeepsInv, StoreKeepsInv, AdvanceKeepsInv, ReturnKeepsInv
<1>3. CASE UNCHANGED vars
  <2>1. UNCHANGED <<program, method, pc, registerOffsets, offset, k, newInstructions,
                    at, part, j, gprs, stack, esp, world>>
    BY <1>3 DEF vars, allocator, machine
  <2>2. Code' = Code
    BY <2>1 DEF Code
  <2>3. QED
    BY <2>1, <2>2 DEF Inv, TypeOK, Numbered, Collected, BlocksTranslate, InFrame, Loaded
<1>4. QED
  BY <1>1, <1>2, <1>3 DEF Next

THEOREM Invariant == Spec => []Inv
<1>1. Init => Inv
  BY InitEstablishesInv
<1>2. Inv /\ [Next]_vars => Inv'
  BY StepKeepsInv
<1>3. QED
  BY <1>1, <1>2, PTL DEF Spec

\* Whatever the code and the order of the hash sets, execution stays within
\* the stack, the slots are counted up from 1, and one block is made per
\* instruction.
THEOREM TypeCorrect == Spec => []TypeOK
<1>1. Inv => TypeOK
  BY DEF Inv
<1>2. QED
  BY <1>1, Invariant, PTL

\* No two virtual registers of a method share a word, and no word of theirs
\* is below esp, where the next argument will be pushed.
THEOREM SlotsNeverShared == Spec => []SlotsAreOwn
<1>1. Inv => SlotsAreOwn
  <2> SUFFICES ASSUME Inv
               PROVE  SlotsAreOwn
    OBVIOUS
  <2>1. IsInjective(registerOffsets)
    BY DEF Inv, Numbered
  <2>2. ASSUME pc = "run"
        PROVE  /\ DOMAIN registerOffsets = RegistersOf(Code)
               /\ \A r \in DOMAIN registerOffsets : registerOffsets[r] <= esp
    <3>1. \A r \in DOMAIN registerOffsets : registerOffsets[r] \in 1..(offset - 1)
      BY DEF Inv, Numbered
    <3>2. offset \in Nat /\ offset - 1 <= esp /\ esp \in Int
      BY <2>2, StackAssumption DEF Inv, Numbered, InFrame, TypeOK
    <3>3. QED
      BY <2>2, <3>1, <3>2 DEF Inv, Collected
  <2>3. QED
    BY <2>1, <2>2 DEF SlotsAreOwn
<1>2. QED
  BY <1>1, Invariant, PTL
-----------------------------------------------------------------------------
(***************************************************************************)
(* The refinement.  The virtual machine's registers are the words at their *)
(* slots, or what is about to be stored there.                             *)
(***************************************************************************)
\* The abstract machine executes instructions as the concrete one does.
LEMMA UnlimitedOperators ==
  /\ Unlimited!Code = Code /\ Unlimited!Visible = Visible
  /\ Unlimited!RegistersOf(Code) = RegistersOf(Code)
  /\ \A c : Unlimited!IsCode(c) = IsCode(c)
  /\ \A i, r, w, p : Unlimited!Results(i, r, w, p) = Results(i, r, w, p)
  /\ \A i, r, o : Unlimited!Written(i, r, o) = Written(i, r, o)
  /\ \A i, n, o : Unlimited!Following(i, n, o) = Following(i, n, o)
<1>1. Unlimited!Code = Code
  BY DEF Unlimited!Code, Code
<1>2. Unlimited!GPRs = GPRs /\ Unlimited!instructionRegisters = instructionRegisters
  BY DEF Unlimited!GPRs, GPRs, Unlimited!instructionRegisters, instructionRegisters
<1>3. Unlimited!Visible = Visible
  BY <1>2 DEF Unlimited!Visible, Visible, Unlimited!Range, Range
<1>4. \A i : /\ Unlimited!Assigned(i) = Assigned(i)
             /\ Unlimited!AllUsedRegisters(i) = AllUsedRegisters(i)
             /\ Unlimited!WriteRegisters(i) = WriteRegisters(i)
  BY DEF Unlimited!Assigned, Assigned, Unlimited!AllUsedRegisters, AllUsedRegisters,
         Unlimited!WriteRegisters, WriteRegisters, Unlimited!Range, Range
<1>5. \A S : Unlimited!Virtual(S) = Virtual(S)
  BY <1>2 DEF Unlimited!Virtual, Virtual, Unlimited!isGPR, isGPR
<1>6. Unlimited!RegistersOf(Code) = RegistersOf(Code)
  BY <1>4, <1>5 DEF Unlimited!RegistersOf, RegistersOf
<1>7. \A i : Unlimited!IsInstruction(i) = IsInstruction(i)
  BY <1>2, <1>3, <1>4, <1>5 DEF Unlimited!IsInstruction, IsInstruction
<1>8. \A c : Unlimited!IsCode(c) = IsCode(c)
  BY <1>7 DEF Unlimited!IsCode, IsCode, Unlimited!Range, Range
<1>9. Unlimited!Outcome = Outcome /\ \A i, r : Unlimited!Inputs(i, r) = Inputs(i, r)
  BY <1>2 DEF Unlimited!Outcome, Outcome, Unlimited!Inputs, Inputs
<1>10. \A i, r, w, p : Unlimited!Results(i, r, w, p) = Results(i, r, w, p)
  BY <1>9 DEF Unlimited!Results, Results
<1>11. \A i, r, o : Unlimited!Written(i, r, o) = Written(i, r, o)
  BY <1>4 DEF Unlimited!Written, Written
<1>12. \A i, n, o : Unlimited!Following(i, n, o) = Following(i, n, o)
  BY DEF Unlimited!Following, Following
<1>13. QED
  BY <1>1, <1>3, <1>6, <1>8, <1>10, <1>11, <1>12

\* The state of the virtual machine.
VirtualAt == IF pc # "run" THEN 0 ELSE IF part = "load" THEN at ELSE at + 1

Regs == IF pc # "run" THEN << >>
        ELSE [r \in RegistersOf(Code) \cup Visible |->
                IF isGPR(r) THEN gprs[r] ELSE VirtualRegister(r)]

Stacked == IF pc # "run" THEN << >> ELSE Pushed

\* A step the virtual machine does not take.
LEMMA Stutters ==
  ASSUME UNCHANGED <<program, method, VirtualAt, Regs, Stacked, world>>
  PROVE  UNCHANGED Unlimited!vars
BY DEF Unlimited!vars, VirtualAt, Regs, Stacked

LEMMA InitRefines == Init => Unlimited!Init
<1> SUFFICES ASSUME Init
             PROVE  Unlimited!Init
  OBVIOUS
<1>1. \A m \in DOMAIN program : Unlimited!IsCode(program[m])
  BY UnlimitedOperators, ProgramsAssumption DEF Init
<1>2. QED
  BY <1>1 DEF Init, Unlimited!Init

\* While a method is being allocated, the virtual machine is between methods.
LEMMA AllocatorStutters ==
  ASSUME Inv, AllocateFor \/ PopulateOffset \/ NextInstruction \/ EndPopulate \/ Replace
  PROVE  UNCHANGED Unlimited!vars
<1>1. UNCHANGED <<program, method, machine>> /\ pc # "run" /\ pc' # "run"
  BY DEF AllocateFor, PopulateOffset, NextInstruction, EndPopulate, Replace
<1>2. UNCHANGED <<program, method, VirtualAt, Regs, Stacked, world>>
  BY <1>1 DEF VirtualAt, Regs, Stacked, machine
<1>3. QED
  BY <1>2, Stutters

\* The slots of different registers are different, and lie in the frame.
LEMMA SlotsOfRegisters ==
  ASSUME Inv, pc = "run"
  PROVE  /\ \A r \in RegistersOf(Code) : registerOffsets[r] \in 1..Cardinality(DOMAIN registerOffsets)
         /\ \A r, s \in RegistersOf(Code) : registerOffsets[r] = registerOffsets[s] => r = s
         /\ Cardinality(DOMAIN registerOffsets) \in Nat /\ StackSize \in Nat
         /\ Cardinality(DOMAIN registerOffsets) <= esp /\ esp \in 0..StackSize
<1>1. /\ DOMAIN registerOffsets = RegistersOf(Code)
      /\ registerOffsets \in [DOMAIN registerOffsets -> 1..(offset - 1)]
      /\ IsInjective(registerOffsets) /\ offset - 1 = Cardinality(DOMAIN registerOffsets)
      /\ Cardinality(DOMAIN registerOffsets) <= esp /\ esp \in 0..StackSize
  BY DEF Inv, TypeOK, Numbered, Collected, InFrame
<1>2. Cardinality(DOMAIN registerOffsets) \in Nat /\ StackSize \in Nat
  BY FS_CardinalityType, StackAssumption DEF Inv, Numbered
<1>3. QED
  BY <1>1, <1>2 DEF IsInjective

\* The prologue enters the method on the virtual machine.
LEMMA PrologueRefines == Inv /\ Prologue => Unlimited!Enter
<1> SUFFICES ASSUME Inv, Prologue
             PROVE  Unlimited!Enter
  OBVIOUS
<1>1. Inv'
  BY PrologueKeepsInv
<1>2. /\ pc = "replace" /\ pc' = "run" /\ at' = 1 /\ part' = "load"
      /\ program' = program /\ method' = method /\ world' = world /\ Code' = Code
      /\ registerOffsets' = registerOffsets
      /\ esp' = Cardinality(DOMAIN registerOffsets)
  BY DEF Prologue, StackFrame, Code, allocator
<1>3. Regs' \in [RegistersOf(Code) \cup Visible -> Values]
  <2>1. Regs' = [r \in RegistersOf(Code) \cup Visible |->
                   IF isGPR(r) THEN gprs'[r] ELSE stack'[registerOffsets[r]]]
    BY <1>2 DEF Regs, VirtualRegister, AwaitsStore
  <2>2. gprs' \in [GPRs -> Values] /\ stack' \in [1..StackSize -> Values]
    BY <1>1 DEF Inv, TypeOK
  <2>3. DOMAIN registerOffsets = RegistersOf(Code)
    BY <1>2 DEF Inv, Collected
  <2>4. /\ offset - 1 = Cardinality(DOMAIN registerOffsets) /\ esp' \in 0..StackSize
        /\ \A r \in RegistersOf(Code) : registerOffsets[r] \in 1..(offset - 1)
    BY <1>1, <2>3 DEF Inv, TypeOK, Numbered
  <2>5. \A r \in RegistersOf(Code) : registerOffsets[r] \in 1..StackSize
    BY <1>2, <2>4, StackAssumption
  <2>6. \A r \in RegistersOf(Code) \cup Visible : isGPR(r) => r \in GPRs
    BY DEF isGPR
  <2>7. \A r \in RegistersOf(Code) \cup Visible : ~isGPR(r) => r \in RegistersOf(Code)
    BY InstructionRegistersAreThree DEF isGPR
  <2>8. QED
    BY <2>1, <2>2, <2>5, <2>6, <2>7
<1>4. Stacked' = << >>
  <2>1. Stacked' = [n \in 1..(esp' - esp') |-> stack'[esp' + n]]
    BY <1>2 DEF Stacked, Pushed
  <2>2. Cardinality(DOMAIN registerOffsets) \in Nat
    BY FS_CardinalityType DEF Inv, Numbered
  <2>3. esp' - esp' = 0
    BY <1>2, <2>2
  <2>4. QED
    BY <2>1, <2>3
<1>5. VirtualAt = 0 /\ VirtualAt' = 1 /\ method \in DOMAIN program
  BY <1>2 DEF VirtualAt, Inv, Collected
<1>6. QED
  BY <1>2, <1>3, <1>4, <1>5, UnlimitedOperators DEF Unlimited!Enter, VirtualAt, Regs, Stacked

\* While the stores run, a register about to be stored is in its
\* instruction register, and any other at its slot.
Awaited(r) ==
  \E n \in DOMAIN newInstructions[at].stores :
    n >= j /\ newInstructions[at].stores[n].slot = registerOffsets[r]

LEMMA WhereRegistersAre ==
  ASSUME Inv, pc = "run", NEW r \in RegistersOf(Code)
  PROVE  /\ part = "load" => VirtualRegister(r) = stack[registerOffsets[r]]
         /\ part = "store" /\ ~Awaited(r) => VirtualRegister(r) = stack[registerOffsets[r]]
         /\ \A m : /\ at \in DOMAIN Code /\ part = "store" /\ Awaited(r)
                   /\ TranslatesBy(Code[at], newInstructions[at], m, registerOffsets)
                   => /\ r \in Virtual(WriteRegisters(Code[at]))
                      /\ VirtualRegister(r) = gprs[m[r]]
<1>1. part = "load" => VirtualRegister(r) = stack[registerOffsets[r]]
  BY DEF VirtualRegister, AwaitsStore
<1>2. part = "store" /\ ~Awaited(r) => AwaitsStore(r) = {}
  BY DEF AwaitsStore, Awaited
<1>3. ASSUME NEW m, at \in DOMAIN Code, part = "store", Awaited(r),
             TranslatesBy(Code[at], newInstructions[at], m, registerOffsets)
      PROVE  r \in Virtual(WriteRegisters(Code[at])) /\ VirtualRegister(r) = gprs[m[r]]
  <2> DEFINE s == newInstructions[at].stores
  <2>1. ASSUME NEW n \in AwaitsStore(r)
        PROVE  s[n].gpr = m[r] /\ r \in Virtual(WriteRegisters(Code[at]))
    <3>1. n \in DOMAIN s /\ s[n].slot = registerOffsets[r]
      BY <1>3 DEF AwaitsStore
    <3>2. PICK q \in Virtual(WriteRegisters(Code[at])) :
            s[n] = [gpr |-> m[q], slot |-> registerOffsets[q]]
      BY <1>3, <3>1 DEF TranslatesBy, Moves
    <3>3. q \in RegistersOf(Code)
      BY <1>3, RunningCode, UsedIsFinite
    <3>4. q = r
      BY <3>1, <3>2, <3>3, SlotsOfRegisters
    <3>5. QED
      BY <3>2, <3>4
  <2>2. AwaitsStore(r) # {}
    BY <1>3 DEF AwaitsStore, Awaited
  <2>3. (CHOOSE n \in AwaitsStore(r) : TRUE) \in AwaitsStore(r)
    BY <2>2
  <2>4. QED
    BY <2>1, <2>2, <2>3 DEF VirtualRegister
<1>4. QED
  BY <1>1, <1>2, <1>3 DEF VirtualRegister

\* A step of the machine that leaves every register of the virtual machine,
\* and its pushed words, alone.
LEMMA MachineStutters ==
  ASSUME pc = "run", pc' = "run", UNCHANGED <<program, method, registerOffsets, world, VirtualAt>>,
         \A g \in Visible : gprs'[g] = gprs[g],
         \A r \in RegistersOf(Code) : VirtualRegister(r)' = VirtualRegister(r),
         UNCHANGED Pushed
  PROVE  UNCHANGED Unlimited!vars
<1>1. Code' = Code
  BY DEF Code
<1>2. \A r \in RegistersOf(Code) \cup Visible :
        /\ isGPR(r) => r \in Visible
        /\ ~isGPR(r) => r \in RegistersOf(Code)
  BY InstructionRegistersAreThree DEF RegistersOf, Virtual, isGPR
<1>3. Regs' = Regs
  BY <1>1, <1>2 DEF Regs
<1>4. QED
  BY <1>3, Stutters DEF Stacked

LEMMA LoadStutters == Inv /\ Load => UNCHANGED Unlimited!vars
<1> SUFFICES ASSUME Inv, Load
             PROVE  UNCHANGED Unlimited!vars
  OBVIOUS
<1> DEFINE l == newInstructions[at].loads
<1>1. /\ pc = "run" /\ pc' = pc /\ at \in DOMAIN Code /\ part = "load" /\ j \in DOMAIN l
      /\ gprs' = [gprs EXCEPT ![l[j].gpr] = stack[l[j].slot]]
      /\ UNCHANGED <<program, method, registerOffsets, newInstructions, at, part, stack, esp, world>>
  BY DEF Load, Running, allocator
<1>2. l[j].gpr \notin Visible
  <2>1. PICK m : TranslatesBy(Code[at], newInstructions[at], m, registerOffsets)
    BY <1>1, RunningCode DEF Translates
  <2>2. PICK r \in Virtual(ReadRegisters(Code[at])) : l[j] = [gpr |-> m[r], slot |-> registerOffsets[r]]
    BY <1>1, <2>1 DEF TranslatesBy, Moves
  <2>3. m[r] \in Range(instructionRegisters)
    BY <1>1, <2>1, RunningCode, UsedIsFinite DEF TranslatesBy
  <2>4. QED
    BY <2>2, <2>3, InstructionRegistersAreThree
<1>3. \A g \in Visible : gprs'[g] = gprs[g]
  BY <1>1, <1>2, InstructionRegistersAreThree DEF Inv, TypeOK
<1>4. \A r \in RegistersOf(Code) : VirtualRegister(r)' = VirtualRegister(r)
  BY <1>1 DEF VirtualRegister, AwaitsStore
<1>5. Pushed' = Pushed /\ VirtualAt' = VirtualAt
  BY <1>1 DEF Pushed, VirtualAt
<1>6. QED
  BY <1>1, <1>3, <1>4, <1>5, MachineStutters

LEMMA StoreStutters == Inv /\ Store => UNCHANGED Unlimited!vars
<1> SUFFICES ASSUME Inv, Store
             PROVE  UNCHANGED Unlimited!vars
  OBVIOUS
<1> DEFINE s == newInstructions[at].stores
<1>1. /\ pc = "run" /\ pc' = pc /\ at \in DOMAIN Code /\ part = "store" /\ j \in DOMAIN s
      /\ stack' = [stack EXCEPT ![s[j].slot] = gprs[s[j].gpr]]
      /\ j' = j + 1
      /\ UNCHANGED <<program, method, registerOffsets, newInstructions, at, part, gprs, esp, world>>
  BY DEF Store, Running, allocator
<1>2. Inv' /\ Code' = Code
  BY <1>1, StoreKeepsInv DEF Code
<1>3. PICK m : TranslatesBy(Code[at], newInstructions[at], m, registerOffsets)
  BY <1>1, RunningCode DEF Translates
<1>4. PICK q \in Virtual(WriteRegisters(Code[at])) : s[j] = [gpr |-> m[q], slot |-> registerOffsets[q]]
  BY <1>1, <1>3 DEF TranslatesBy, Moves
<1>5. q \in RegistersOf(Code)
  BY <1>1, RunningCode, UsedIsFinite
<1>6. stack' = [stack EXCEPT ![registerOffsets[q]] = gprs[m[q]]]
  BY <1>1, <1>4
<1>7. \A r \in RegistersOf(Code) : registerOffsets[r] \in 1..StackSize
  BY <1>1, SlotsOfRegisters
<1>8. j \in Nat /\ \A n \in DOMAIN s : n \in Nat
  BY <1>1, RunningCode
<1>9. ASSUME NEW r \in RegistersOf(Code)
      PROVE  VirtualRegister(r)' = VirtualRegister(r)
  <2>1. stack \in [1..StackSize -> Values]
    BY DEF Inv, TypeOK
  <2>2. CASE r = q
    <3>1. Awaited(r)
      BY <1>1, <1>4, <1>8, <2>2 DEF Awaited
    <3>2. VirtualRegister(r) = gprs[m[q]]
      BY <1>1, <1>3, <2>2, <3>1, WhereRegistersAre
    <3>3. VirtualRegister(r)' = IF AwaitsStore(r)' = {} THEN stack'[registerOffsets[r]]
            ELSE gprs[s[CHOOSE n \in AwaitsStore(r)' : TRUE].gpr]
      BY <1>1 DEF VirtualRegister
    <3>4. stack'[registerOffsets[r]] = gprs[m[q]]
      BY <1>6, <1>7, <2>1, <2>2
    <3>5. ASSUME AwaitsStore(r)' # {}
          PROVE  s[CHOOSE n \in AwaitsStore(r)' : TRUE].gpr = m[q]
      <4>1. PICK n : n = CHOOSE x \in AwaitsStore(r)' : TRUE
        OBVIOUS
      <4>2. n \in AwaitsStore(r)'
        BY <3>5, <4>1
      <4>3. n \in DOMAIN s /\ s[n].slot = registerOffsets[q]
        BY <1>1, <2>2, <4>2 DEF AwaitsStore
      <4>4. PICK p \in Virtual(WriteRegisters(Code[at])) :
              s[n] = [gpr |-> m[p], slot |-> registerOffsets[p]]
        BY <1>3, <4>3 DEF TranslatesBy, Moves
      <4>5. p \in RegistersOf(Code)
        BY <1>1, RunningCode, UsedIsFinite
      <4>6. p = q
        BY <1>1, <1>5, <4>3, <4>4, <4>5, SlotsOfRegisters
      <4>7. QED
        BY <4>1, <4>4, <4>6
    <3>6. QED
      BY <3>2, <3>3, <3>4, <3>5
  <2>3. CASE r # q
    <3>1. registerOffsets[r] # registerOffsets[q]
      BY <1>1, <1>5, <2>3, SlotsOfRegisters
    <3>2. stack'[registerOffsets[r]] = stack[registerOffsets[r]]
      BY <1>6, <3>1
    <3>3. AwaitsStore(r)' = AwaitsStore(r)
      <4>1. s[j].slot # registerOffsets[r]
        BY <1>4, <3>1
      <4>2. \A n \in DOMAIN s : s[n].slot = registerOffsets[r] => (n >= j + 1 <=> n >= j)
        BY <1>8, <4>1
      <4>3. AwaitsStore(r)' = {n \in DOMAIN s : n >= j + 1 /\ s[n].slot = registerOffsets[r]}
        BY <1>1 DEF AwaitsStore
      <4>4. AwaitsStore(r) = {n \in DOMAIN s : n >= j /\ s[n].slot = registerOffsets[r]}
        BY <1>1 DEF AwaitsStore
      <4>5. QED
        BY <4>2, <4>3, <4>4
    <3>4. QED
      BY <1>1, <3>2, <3>3 DEF VirtualRegister
  <2>4. QED
    BY <2>2, <2>3
<1>10. Pushed' = Pushed
  <2>1. \A n \in 1..(esp - Cardinality(DOMAIN registerOffsets)) :
          stack'[Cardinality(DOMAIN registerOffsets) + n] = stack[Cardinality(DOMAIN registerOffsets) + n]
    <3>1. registerOffsets[q] <= Cardinality(DOMAIN registerOffsets) /\ registerOffsets[q] \in Nat
          /\ Cardinality(DOMAIN registerOffsets) \in Nat
      BY <1>1, <1>5, SlotsOfRegisters
    <3>2. QED
      BY <1>6, <3>1
  <2>2. QED
    BY <1>1, <2>1 DEF Pushed
<1>11. VirtualAt' = VirtualAt
  BY <1>1 DEF VirtualAt
<1>12. QED
  BY <1>1, <1>9, <1>10, <1>11, MachineStutters

LEMMA AdvanceStutters == Inv /\ Advance => UNCHANGED Unlimited!vars
<1> SUFFICES ASSUME Inv, Advance
             PROVE  UNCHANGED Unlimited!vars
  OBVIOUS
<1> DEFINE s == newInstructions[at].stores
<1>1. /\ pc = "run" /\ pc' = pc /\ at \in DOMAIN Code /\ part = "store" /\ j \notin DOMAIN s
      /\ at' = at + 1 /\ part' = "load"
      /\ UNCHANGED <<program, method, registerOffsets, newInstructions, gprs, stack, esp, world>>
  BY DEF Advance, Running, allocator
<1>2. \A n \in DOMAIN s : ~(n >= j)
  <2>1. j \in Nat \ {0}
    BY DEF Inv, TypeOK
  <2>2. PICK c \in Nat : DOMAIN s = 1..c
    BY <1>1, RunningCode
  <2>3. QED
    BY <1>1, <2>1, <2>2
<1>3. \A r \in RegistersOf(Code) : VirtualRegister(r) = stack[registerOffsets[r]]
  BY <1>1, <1>2, WhereRegistersAre DEF Awaited
<1>4. \A r \in RegistersOf(Code) : VirtualRegister(r)' = VirtualRegister(r)
  BY <1>1, <1>3 DEF VirtualRegister, AwaitsStore
<1>5. Pushed' = Pushed /\ VirtualAt' = VirtualAt
  BY <1>1 DEF Pushed, VirtualAt
<1>6. QED
  BY <1>1, <1>4, <1>5, MachineStutters

LEMMA ReturnRefines == Inv /\ Return => Unlimited!Return
<1> SUFFICES ASSUME Inv, Return
             PROVE  Unlimited!Return
  OBVIOUS
<1>1. /\ pc = "run" /\ pc' = "allocate" /\ method' = method + 1
      /\ program' = program /\ world' = world
      /\ at \in DOMAIN Code => part = "load" /\ newInstructions[at].instruction.stack = "ret"
  BY DEF Return
<1>2. VirtualAt # 0 /\ VirtualAt' = 0 /\ Regs' = << >> /\ Stacked' = << >>
  BY <1>1 DEF VirtualAt, Regs, Stacked, Inv, InFrame
<1>3. part = "load"
  BY <1>1 DEF Inv, InFrame
<1>4. at \in DOMAIN Code => Code[at].stack = "ret"
  <2> SUFFICES ASSUME at \in DOMAIN Code
               PROVE  Code[at].stack = "ret"
    OBVIOUS
  <2>1. PICK m : TranslatesBy(Code[at], newInstructions[at], m, registerOffsets)
    BY <1>1, RunningCode DEF Translates
  <2>2. IsInstruction(Code[at])
    BY <1>1, RunningCode
  <2>3. newInstructions[at].instruction = ReplaceRegisters(Code[at], m)
    BY <2>1 DEF TranslatesBy
  <2>4. newInstructions[at].instruction.stack = Code[at].stack
    BY <2>2, <2>3, ReplacedAlike
  <2>5. QED
    BY <1>1, <2>4
<1>5. QED
  BY <1>1, <1>2, <1>3, <1>4, UnlimitedOperators DEF Unlimited!Return, VirtualAt, Regs, Stacked

LEMMA OperandsAreRecords ==
  ASSUME NEW i, IsInstruction(i), NEW n \in DOMAIN i.operands
  PROVE  i.operands[n] \in [reg : STRING, read : BOOLEAN, write : BOOLEAN]
<1>1. i.operands \in Seq([reg : STRING, read : BOOLEAN, write : BOOLEAN])
  BY DEF IsInstruction
<1>2. n \in 1..Len(i.operands)
  BY <1>1
<1>3. QED
  BY <1>1, <1>2, ElementOfSeq

\* The replaced instruction reads what the virtual machine's reads: its
\* registers have been loaded.
LEMMA InputsAgree ==
  ASSUME Inv, pc = "run", at \in DOMAIN Code, part = "load",
         j \notin DOMAIN newInstructions[at].loads, NEW m,
         TranslatesBy(Code[at], newInstructions[at], m, registerOffsets)
  PROVE  Inputs(newInstructions[at].instruction, gprs) = Inputs(Code[at], Regs)
<1> DEFINE i == Code[at]
           b == newInstructions[at].instruction
           l == newInstructions[at].loads
<1>1. /\ IsInstruction(i) /\ Virtual(AllUsedRegisters(i)) \subseteq RegistersOf(Code)
      /\ b = ReplaceRegisters(i, m)
  BY RunningCode DEF TranslatesBy
<1>2. /\ b.readGPRs = i.readGPRs /\ DOMAIN b.operands = DOMAIN i.operands
      /\ \A n \in DOMAIN i.operands : b.operands[n] = Replaced(i.operands[n], m)
  BY <1>1, ReplacedAlike
<1>3. \A n \in DOMAIN l : n < j
  <2>1. j \in Nat \ {0}
    BY DEF Inv, TypeOK
  <2>2. PICK c \in Nat : DOMAIN l = 1..c
    BY RunningCode
  <2>3. QED
    BY <2>1, <2>2
<1>4. \A r \in Virtual(ReadRegisters(i)) : gprs[m[r]] = Regs[r]
  <2> SUFFICES ASSUME NEW r \in Virtual(ReadRegisters(i))
               PROVE  gprs[m[r]] = Regs[r]
    OBVIOUS
  <2>1. PICK n \in DOMAIN l : l[n] = [gpr |-> m[r], slot |-> registerOffsets[r]]
    BY DEF TranslatesBy, Moves
  <2>2. gprs[l[n].gpr] = stack[l[n].slot]
    BY <1>3 DEF Inv, Loaded
  <2>3. r \in RegistersOf(Code) /\ ~isGPR(r)
    BY <1>1, UsedIsFinite DEF Virtual
  <2>4. Regs[r] = stack[registerOffsets[r]]
    BY <2>3, WhereRegistersAre DEF Regs
  <2>5. QED
    BY <2>1, <2>2, <2>4
<1>5. \A g \in Visible : Regs[g] = gprs[g]
  BY InstructionRegistersAreThree DEF Regs, isGPR
<1>6. ASSUME NEW n \in DOMAIN i.operands
      PROVE  /\ b.operands[n].read = i.operands[n].read
             /\ i.operands[n].read => gprs[b.operands[n].reg] = Regs[i.operands[n].reg]
  <2>1. i.operands[n] \in [reg : STRING, read : BOOLEAN, write : BOOLEAN]
    BY <1>1, OperandsAreRecords
  <2>2. i.operands[n] \in Range(i.operands)
    BY DEF Range
  <2>3. CASE isGPR(i.operands[n].reg)
    <3>1. b.operands[n] = i.operands[n]
      BY <1>2, <2>3 DEF Replaced
    <3>2. i.operands[n].reg \in Visible
      BY <1>1, <2>2, <2>3 DEF IsInstruction, AllUsedRegisters, isGPR
    <3>3. QED
      BY <1>5, <3>1, <3>2
  <2>4. CASE ~isGPR(i.operands[n].reg)
    <3>1. b.operands[n].read = i.operands[n].read /\ b.operands[n].reg = m[i.operands[n].reg]
      BY <1>2, <2>1, <2>4 DEF Replaced
    <3>2. i.operands[n].read => i.operands[n].reg \in Virtual(ReadRegisters(i))
      BY <2>2, <2>4 DEF Virtual, ReadRegisters
    <3>3. QED
      BY <1>4, <3>1, <3>2
  <2>5. QED
    BY <2>3, <2>4
<1>7. \A g \in i.readGPRs : gprs[g] = Regs[g]
  BY <1>1, <1>5 DEF IsInstruction
<1>8. [n \in DOMAIN b.operands |-> IF b.operands[n].read THEN gprs[b.operands[n].reg] ELSE NoValue]
      = [n \in DOMAIN i.operands |-> IF i.operands[n].read THEN Regs[i.operands[n].reg] ELSE NoValue]
  BY <1>2, <1>6
<1>9. [g \in b.readGPRs |-> gprs[g]] = [g \in i.readGPRs |-> Regs[g]]
  BY <1>2, <1>7
<1>10. QED
  BY <1>8, <1>9 DEF Inputs

\* The replaced instruction writes its result to the instruction register of
\* what the virtual machine's writes, and the same registers besides.
LEMMA WritesAgree ==
  ASSUME NEW i, IsInstruction(i), NEW o, NEW v, DOMAIN gprs = GPRs, NEW m,
         NEW R, Virtual(AllUsedRegisters(i)) \subseteq R,
         DOMAIN v = R \cup Visible, \A g \in Visible : v[g] = gprs[g],
         m \in [Virtual(AllUsedRegisters(i)) -> Range(instructionRegisters)]
  PROVE  LET b == ReplaceRegisters(i, m)
         IN  /\ \A g \in Visible : Written(b, gprs, o)[g] = Written(i, v, o)[g]
             /\ \A r \in Virtual(WriteRegisters(i)) :
                  Written(b, gprs, o)[m[r]] = o.result /\ Written(i, v, o)[r] = o.result
             /\ \A r \in R : ~isGPR(r) /\ r \notin Virtual(WriteRegisters(i))
                  => Written(i, v, o)[r] = v[r]
<1> DEFINE b == ReplaceRegisters(i, m)
<1>1. /\ b.writeGPRs = i.writeGPRs /\ b.clobbers = i.clobbers
      /\ DOMAIN b.operands = DOMAIN i.operands
      /\ \A n \in DOMAIN i.operands : b.operands[n] = Replaced(i.operands[n], m)
  BY ReplacedAlike
<1>2. \A n \in DOMAIN i.operands : i.operands[n] \in [reg : STRING, read : BOOLEAN, write : BOOLEAN]
  BY OperandsAreRecords
<1>3. ASSUME NEW n \in DOMAIN i.operands
      PROVE  /\ b.operands[n].write = i.operands[n].write
             /\ isGPR(i.operands[n].reg) => b.operands[n].reg = i.operands[n].reg
             /\ ~isGPR(i.operands[n].reg) => b.operands[n].reg = m[i.operands[n].reg]
  BY <1>1, <1>2 DEF Replaced
<1>4. \A r \in Assigned(b) : \E n \in DOMAIN i.operands : b.operands[n].reg = r /\ i.operands[n].write
  BY <1>1, <1>3 DEF Assigned, Range
<1>5. \A n \in DOMAIN i.operands : i.operands[n].write =>
        b.operands[n].reg \in Assigned(b) /\ i.operands[n].reg \in Assigned(i)
  BY <1>1, <1>3 DEF Assigned, Range
<1>6. \A r \in Assigned(i) : \E n \in DOMAIN i.operands : i.operands[n].reg = r /\ i.operands[n].write
  BY DEF Assigned, Range
<1>7. \A n \in DOMAIN i.operands : ~isGPR(i.operands[n].reg) => m[i.operands[n].reg] \notin Visible
  <2>1. \A n \in DOMAIN i.operands : ~isGPR(i.operands[n].reg) =>
          i.operands[n].reg \in Virtual(AllUsedRegisters(i))
    BY DEF Virtual, AllUsedRegisters, Range
  <2>2. QED
    BY <2>1, InstructionRegistersAreThree
<1>8. \A g \in Visible : g \in Assigned(b) <=> g \in Assigned(i)
  <2> SUFFICES ASSUME NEW g \in Visible
               PROVE  g \in Assigned(b) <=> g \in Assigned(i)
    OBVIOUS
  <2>1. isGPR(g)
    BY InstructionRegistersAreThree DEF isGPR
  <2>2. ASSUME g \in Assigned(b)
        PROVE  g \in Assigned(i)
    BY <1>3, <1>4, <1>5, <1>7, <2>2
  <2>3. ASSUME g \in Assigned(i)
        PROVE  g \in Assigned(b)
    BY <1>3, <1>5, <1>6, <2>1, <2>3
  <2>4. QED
    BY <2>2, <2>3
<1>9. \A g \in Visible : Written(b, gprs, o)[g] = Written(i, v, o)[g]
  BY <1>1, <1>8, InstructionRegistersAreThree DEF Written
<1>10. ASSUME NEW r \in Virtual(WriteRegisters(i))
       PROVE  Written(b, gprs, o)[m[r]] = o.result /\ Written(i, v, o)[r] = o.result
  <2>1. r \in Assigned(i) /\ ~isGPR(r) /\ r \in Virtual(AllUsedRegisters(i))
    BY UsedIsFinite DEF Virtual
  <2>2. m[r] \in Assigned(b)
    BY <1>3, <1>5, <1>6, <2>1
  <2>3. m[r] \in GPRs
    BY <2>1, InstructionRegistersAreThree
  <2>4. QED
    BY <2>1, <2>2, <2>3 DEF Written
<1>11. ASSUME NEW r \in R, ~isGPR(r), r \notin Virtual(WriteRegisters(i))
       PROVE  Written(i, v, o)[r] = v[r]
  <2>1. r \notin Assigned(i) /\ r \notin i.writeGPRs \cup i.clobbers
    BY <1>11, InstructionRegistersAreThree DEF Virtual, WriteRegisters, isGPR, IsInstruction
  <2>2. QED
    BY <2>1 DEF Written
<1>12. QED
  BY <1>9, <1>10, <1>11

LEMMA PushedIsASequence ==
  ASSUME Inv, pc = "run"
  PROVE  Pushed \in Seq(Values) /\ Len(Pushed) = esp - Cardinality(DOMAIN registerOffsets)
<1> DEFINE frame == Cardinality(DOMAIN registerOffsets)
<1>1. esp - frame \in Nat /\ frame \in Nat /\ esp \in 0..StackSize /\ StackSize \in Nat
  BY SlotsOfRegisters
<1>2. \A n \in 1..(esp - frame) : stack[frame + n] \in Values
  <2>1. stack \in [1..StackSize -> Values]
    BY DEF Inv, TypeOK
  <2>2. \A n \in 1..(esp - frame) : frame + n \in 1..StackSize
    BY <1>1
  <2>3. QED
    BY <2>1, <2>2
<1>3. QED
  BY <1>1, <1>2 DEF Pushed

\* The words below the frame are the virtual machine's stack.
LEMMA PushAppends ==
  ASSUME Inv, Inv', pc = "run", pc' = "run", registerOffsets' = registerOffsets,
         esp' = esp + 1, NEW w \in Values, stack' = [stack EXCEPT ![esp + 1] = w]
  PROVE  Pushed' = Append(Pushed, w)
<1> DEFINE frame == Cardinality(DOMAIN registerOffsets)
<1>1. Pushed \in Seq(Values) /\ Len(Pushed) = esp - frame
  BY PushedIsASequence
<1>2. /\ frame \in Nat /\ esp \in Nat /\ frame <= esp
      /\ esp' \in 0..StackSize /\ StackSize \in Nat /\ stack' \in [1..StackSize -> Values]
      /\ stack \in [1..StackSize -> Values]
  BY SlotsOfRegisters, StackAssumption DEF Inv, TypeOK
<1>3. Pushed' = [n \in 1..(esp' - frame) |-> stack'[frame + n]]
  BY DEF Pushed
<1>4. esp' - frame \in Nat /\ \A n \in 1..(esp' - frame) : frame + n \in 1..StackSize
  BY <1>2
<1>5. Pushed' \in Seq(Values) /\ Len(Pushed') = esp' - frame
  BY <1>2, <1>3, <1>4
<1>6. /\ Append(Pushed, w) \in Seq(Values) /\ Len(Append(Pushed, w)) = Len(Pushed) + 1
      /\ \A n \in 1..Len(Pushed) : Append(Pushed, w)[n] = Pushed[n]
      /\ Append(Pushed, w)[Len(Pushed) + 1] = w
  BY <1>1, AppendProperties
<1>7. ASSUME NEW n \in 1..Len(Pushed')
      PROVE  Pushed'[n] = Append(Pushed, w)[n]
  <2>1. Pushed'[n] = stack'[frame + n]
    BY <1>3, <1>5, <1>7
  <2>2. CASE n \in 1..Len(Pushed)
    <3>1. frame + n # esp + 1 /\ frame + n \in 1..StackSize
      BY <1>1, <1>2, <1>4, <1>5, <1>7, <2>2
    <3>2. stack'[frame + n] = stack[frame + n]
      BY <1>2, <3>1
    <3>3. Pushed[n] = stack[frame + n]
      BY <1>1, <2>2 DEF Pushed
    <3>4. QED
      BY <1>6, <2>1, <2>2, <3>2, <3>3
  <2>3. CASE n \notin 1..Len(Pushed)
    <3>1. n = Len(Pushed) + 1 /\ frame + n = esp + 1
      BY <1>1, <1>2, <1>5, <2>3
    <3>2. stack'[esp + 1] = w
      BY <1>2
    <3>3. QED
      BY <1>6, <2>1, <3>1, <3>2
  <2>4. QED
    BY <2>2, <2>3
<1>8. Len(Pushed') = Len(Append(Pushed, w))
  BY <1>1, <1>2, <1>5, <1>6
<1>9. QED
  BY <1>5, <1>6, <1>7, <1>8, SeqEqual

LEMMA DropShortens ==
  ASSUME Inv, Inv', pc = "run", pc' = "run", registerOffsets' = registerOffsets, stack' = stack,
         NEW c \in Nat, c <= Len(Pushed), esp' = esp - c
  PROVE  Pushed' = SubSeq(Pushed, 1, Len(Pushed) - c)
<1> DEFINE frame == Cardinality(DOMAIN registerOffsets)
           short == SubSeq(Pushed, 1, Len(Pushed) - c)
<1>1. Pushed \in Seq(Values) /\ Len(Pushed) = esp - frame
  BY PushedIsASequence
<1>2. frame \in Nat /\ esp \in Nat /\ frame <= esp
  BY SlotsOfRegisters
<1>3. Pushed' = [n \in 1..(esp - c - frame) |-> stack[frame + n]]
  BY DEF Pushed
<1>4. 1 \in Int /\ Len(Pushed) - c \in Nat /\ Len(Pushed) - c = esp - c - frame
  BY <1>1, <1>2
<1>5. \A n \in 1..(Len(Pushed) - c) : n \in 1..Len(Pushed) /\ Pushed[n] \in Values
                                     /\ Pushed[n] = stack[frame + n]
  <2>1. \A n \in 1..(Len(Pushed) - c) : n \in 1..Len(Pushed)
    BY <1>1, <1>2, <1>4
  <2>2. \A n \in 1..Len(Pushed) : Pushed[n] \in Values
    BY <1>1, ElementOfSeq
  <2>3. \A n \in 1..Len(Pushed) : Pushed[n] = stack[frame + n]
    BY <1>1 DEF Pushed
  <2>4. QED
    BY <2>1, <2>2, <2>3
<1>6. /\ short \in Seq(Values)
      /\ Len(short) = IF 1 <= Len(Pushed) - c THEN Len(Pushed) - c - 1 + 1 ELSE 0
      /\ \A n \in 1..(Len(Pushed) - c - 1 + 1) : short[n] = Pushed[1 + n - 1]
  BY <1>4, <1>5, SubSeqProperties
<1>7. Len(short) = Len(Pushed) - c
      /\ \A n \in 1..(Len(Pushed) - c) : short[n] = Pushed[n]
  BY <1>4, <1>6
<1>8. /\ Pushed' \in Seq(Values) /\ Len(Pushed') = Len(Pushed) - c
      /\ \A n \in 1..(Len(Pushed) - c) : Pushed'[n] = Pushed[n]
  <2>1. Pushed' = [n \in 1..(Len(Pushed) - c) |-> stack[frame + n]]
    BY <1>3, <1>4
  <2>2. \A n \in 1..(Len(Pushed) - c) : stack[frame + n] \in Values
    BY <1>5
  <2>3. QED
    BY <1>4, <1>5, <2>1, <2>2
<1>9. QED
  BY <1>6, <1>7, <1>8, SeqEqual

LEMMA ExecuteRefines == Inv /\ Execute => Unlimited!Step
<1> SUFFICES ASSUME Inv, Execute
             PROVE  Unlimited!Step
  OBVIOUS
<1> DEFINE i == Code[at]
           b == newInstructions[at].instruction
<1>1. /\ pc = "run" /\ pc' = pc /\ at \in DOMAIN Code /\ part = "load" /\ j' = 1
      /\ j \notin DOMAIN newInstructions[at].loads
      /\ b.stack # "ret"
      /\ UNCHANGED <<program, method, registerOffsets, newInstructions>>
  BY ExecuteSteps DEF allocator
<1>2. PICK o \in Results(b, gprs, world, Pushed) :
        /\ o \in Outcome
        /\ gprs' = Written(b, gprs, o) /\ world' = o.world
        /\ b.stack = "none" => UNCHANGED <<stack, esp>>
        /\ b.stack = "push" => /\ esp < StackSize /\ esp' = esp + 1
                               /\ stack' = [stack EXCEPT ![esp + 1] = o.result]
        /\ b.stack = "drop" => b.count <= Len(Pushed) /\ esp' = esp - b.count /\ UNCHANGED stack
        /\ b.target # 0 /\ o.jump => at' = b.target /\ UNCHANGED part
        /\ ~(b.target # 0 /\ o.jump) => part' = "store" /\ UNCHANGED at
  BY ExecuteSteps
<1>3. Inv' /\ Code' = Code
  BY <1>1, ExecuteKeepsInv DEF Code
<1>4. PICK m : TranslatesBy(i, newInstructions[at], m, registerOffsets)
  BY <1>1, RunningCode DEF Translates
<1>5. /\ IsInstruction(i) /\ b = ReplaceRegisters(i, m)
      /\ m \in [Virtual(AllUsedRegisters(i)) -> Range(instructionRegisters)]
      /\ Virtual(AllUsedRegisters(i)) \subseteq RegistersOf(Code)
  BY <1>1, <1>4, RunningCode DEF TranslatesBy
<1>6. /\ b.op = i.op /\ b.stack = i.stack /\ b.count = i.count /\ b.target = i.target
  BY <1>5, ReplacedAlike
<1>7. Stacked = Pushed /\ Stacked' = Pushed' /\ VirtualAt = at
  BY <1>1 DEF Stacked, VirtualAt
<1>8. o \in Results(i, Regs, world, Stacked)
  BY <1>1, <1>2, <1>4, <1>6, <1>7, InputsAgree DEF Results
<1>9. VirtualAt' = Following(i, VirtualAt, o)
  BY <1>1, <1>2, <1>6, <1>7 DEF VirtualAt, Following
<1>10. Regs' = Written(i, Regs, o)
  <2>1. /\ DOMAIN Regs = RegistersOf(Code) \cup Visible
        /\ \A g \in Visible : Regs[g] = gprs[g] /\ isGPR(g)
        /\ \A r \in RegistersOf(Code) : ~isGPR(r) /\ Regs[r] = stack[registerOffsets[r]]
    <3>1. \A r \in RegistersOf(Code) : ~isGPR(r) /\ VirtualRegister(r) = stack[registerOffsets[r]]
      BY <1>1, WhereRegistersAre DEF RegistersOf, Virtual
    <3>2. QED
      BY <1>1, <3>1, InstructionRegistersAreThree DEF Regs, isGPR
  <2>2. /\ DOMAIN Regs' = RegistersOf(Code) \cup Visible
        /\ \A g \in Visible : Regs'[g] = gprs'[g]
        /\ \A r \in RegistersOf(Code) : Regs'[r] = VirtualRegister(r)'
    BY <1>1, <1>3, <2>1 DEF Regs
  <2>3. DOMAIN gprs = GPRs
    BY DEF Inv, TypeOK
  <2>4. /\ \A g \in Visible : Written(b, gprs, o)[g] = Written(i, Regs, o)[g]
        /\ \A r \in Virtual(WriteRegisters(i)) :
             Written(b, gprs, o)[m[r]] = o.result /\ Written(i, Regs, o)[r] = o.result
        /\ \A r \in RegistersOf(Code) : ~isGPR(r) /\ r \notin Virtual(WriteRegisters(i))
             => Written(i, Regs, o)[r] = Regs[r]
    <3>1. \A g \in Visible : Regs[g] = gprs[g]
      BY <2>1
    <3>2. DOMAIN Regs = RegistersOf(Code) \cup Visible
      BY <2>1
    <3> HIDE DEF i, b
    <3>3. QED
      BY <1>5, <2>3, <3>1, <3>2, WritesAgree
  <2>5. \A r \in RegistersOf(Code) : stack'[registerOffsets[r]] = stack[registerOffsets[r]]
    <3> SUFFICES ASSUME NEW r \in RegistersOf(Code)
                 PROVE  stack'[registerOffsets[r]] = stack[registerOffsets[r]]
      OBVIOUS
    <3>1. registerOffsets[r] \in 1..Cardinality(DOMAIN registerOffsets)
          /\ Cardinality(DOMAIN registerOffsets) \in Nat
          /\ Cardinality(DOMAIN registerOffsets) <= esp /\ esp \in 0..StackSize /\ StackSize \in Nat
      BY <1>1, SlotsOfRegisters
    <3>2. registerOffsets[r] # esp + 1 /\ registerOffsets[r] \in 1..StackSize
      BY <3>1
    <3>3. i.stack \in {"none", "push", "drop", "ret"}
      BY <1>5 DEF IsInstruction
    <3>4. stack' = stack \/ stack' = [stack EXCEPT ![esp + 1] = o.result]
      BY <1>1, <1>2, <1>6, <3>3
    <3>5. DOMAIN stack = 1..StackSize
      BY DEF Inv, TypeOK
    <3>6. QED
      BY <3>2, <3>4, <3>5
  <2>6. ASSUME NEW r \in RegistersOf(Code)
        PROVE  VirtualRegister(r)' = Written(i, Regs, o)[r]
    <3>1. CASE b.target # 0 /\ o.jump
      <4>1. Virtual(WriteRegisters(i)) = {} /\ part' = "load"
        BY <1>1, <1>2, <1>5, <1>6, <3>1 DEF IsInstruction
      <4>2. VirtualRegister(r)' = stack'[registerOffsets[r]]
        BY <1>1, <4>1 DEF VirtualRegister, AwaitsStore
      <4>3. QED
        BY <2>1, <2>4, <2>5, <2>6, <4>1, <4>2
    <3>2. CASE ~(b.target # 0 /\ o.jump)
      <4>1. part' = "store" /\ at' = at
        BY <1>2, <3>2
      <4>2. AwaitsStore(r)' = {n \in DOMAIN newInstructions[at].stores :
               n >= 1 /\ newInstructions[at].stores[n].slot = registerOffsets[r]}
        BY <1>1, <4>1 DEF AwaitsStore
      <4>3. VirtualRegister(r)' = IF AwaitsStore(r)' = {} THEN stack'[registerOffsets[r]]
              ELSE gprs'[newInstructions[at].stores[CHOOSE n \in AwaitsStore(r)' : TRUE].gpr]
        BY <1>1, <4>1 DEF VirtualRegister
      <4>4. ASSUME NEW n \in AwaitsStore(r)'
            PROVE  /\ newInstructions[at].stores[n].gpr = m[r]
                   /\ r \in Virtual(WriteRegisters(i))
        <5>1. n \in DOMAIN newInstructions[at].stores
              /\ newInstructions[at].stores[n].slot = registerOffsets[r]
          BY <4>2
        <5>2. PICK q \in Virtual(WriteRegisters(i)) :
                newInstructions[at].stores[n] = [gpr |-> m[q], slot |-> registerOffsets[q]]
          BY <1>4, <5>1 DEF TranslatesBy, Moves
        <5>3. q \in RegistersOf(Code)
          BY <1>5, UsedIsFinite
        <5>4. q = r
          BY <1>1, <2>6, <5>1, <5>2, <5>3, SlotsOfRegisters
        <5>5. QED
          BY <5>2, <5>4
      <4>5. CASE AwaitsStore(r)' = {}
        <5>1. r \notin Virtual(WriteRegisters(i))
          <6> SUFFICES ASSUME r \in Virtual(WriteRegisters(i))
                       PROVE  FALSE
            OBVIOUS
          <6>1. PICK n \in DOMAIN newInstructions[at].stores :
                  newInstructions[at].stores[n] = [gpr |-> m[r], slot |-> registerOffsets[r]]
            BY <1>4 DEF TranslatesBy, Moves
          <6>2. n >= 1
            BY <1>1, RunningCode
          <6>3. QED
            BY <4>2, <4>5, <6>1, <6>2
        <5>2. QED
          BY <2>1, <2>4, <2>5, <2>6, <4>3, <4>5, <5>1
      <4>6. CASE AwaitsStore(r)' # {}
        <5>1. PICK n : n = CHOOSE x \in AwaitsStore(r)' : TRUE
          OBVIOUS
        <5>2. n \in AwaitsStore(r)'
          BY <4>6, <5>1
        <5>3. VirtualRegister(r)' = gprs'[m[r]] /\ r \in Virtual(WriteRegisters(i))
          BY <4>3, <4>4, <4>6, <5>1, <5>2
        <5>4. QED
          BY <1>2, <2>4, <5>3
      <4>7. QED
        BY <4>5, <4>6
    <3>3. QED
      BY <3>1, <3>2
  <2>7. DOMAIN Written(i, Regs, o) = RegistersOf(Code) \cup Visible
    BY <2>1 DEF Written
  <2>8. \A r \in RegistersOf(Code) \cup Visible : Regs'[r] = Written(i, Regs, o)[r]
    BY <1>2, <2>2, <2>4, <2>6
  <2>9. Regs' = [r \in DOMAIN Regs' |-> Regs'[r]]
        /\ Written(i, Regs, o) = [r \in DOMAIN Written(i, Regs, o) |-> Written(i, Regs, o)[r]]
    BY <1>1 DEF Regs, Written
  <2>10. QED
    BY <2>2, <2>7, <2>8, <2>9
<1>11. /\ i.stack = "none" => Stacked' = Stacked
       /\ i.stack = "push" => Stacked' = Append(Stacked, o.result)
       /\ i.stack = "drop" => /\ i.count <= Len(Stacked)
                              /\ Stacked' = SubSeq(Stacked, 1, Len(Stacked) - i.count)
  <2>1. i.count \in Nat /\ o.result \in Values
    BY <1>2, <1>5 DEF IsInstruction, Outcome
  <2>2. i.stack = "none" => Pushed' = Pushed
    BY <1>1, <1>2, <1>6 DEF Pushed
  <2>3. i.stack = "push" => Pushed' = Append(Pushed, o.result)
    BY <1>1, <1>2, <1>3, <1>6, <2>1, PushAppends
  <2>4. i.stack = "drop" => i.count <= Len(Pushed)
                            /\ Pushed' = SubSeq(Pushed, 1, Len(Pushed) - i.count)
    BY <1>1, <1>2, <1>3, <1>6, <2>1, DropShortens
  <2>5. QED
    BY <1>7, <2>2, <2>3, <2>4
<1>12. i.stack \in {"none", "push", "drop"}
  BY <1>1, <1>5, <1>6 DEF IsInstruction
<1>13. CASE i.stack = "none"
  BY <1>1, <1>2, <1>6, <1>7, <1>8, <1>9, <1>10, <1>11, <1>13, UnlimitedOperators
     DEF Unlimited!Step, VirtualAt, Regs, Stacked
<1>14. CASE i.stack = "push"
  BY <1>1, <1>2, <1>6, <1>7, <1>8, <1>9, <1>10, <1>11, <1>14, UnlimitedOperators
     DEF Unlimited!Step, VirtualAt, Regs, Stacked
<1>15. CASE i.stack = "drop"
  BY <1>1, <1>2, <1>6, <1>7, <1>8, <1>9, <1>10, <1>11, <1>15, UnlimitedOperators
     DEF Unlimited!Step, VirtualAt, Regs, Stacked
<1>16. QED
  BY <1>12, <1>13, <1>14, <1>15

\* On the machine with all the registers the code generated would do the
\* same: the allocator's steps, the loads and the stores are invisible.
THEOREM Implements == Spec => ImplementsVirtualMachine
<1>1. Init => Unlimited!Init
  BY InitRefines
<1>2. Inv /\ [Next]_vars => [Unlimited!Next]_(Unlimited!vars)
  <2> SUFFICES ASSUME Inv, [Next]_vars
               PROVE  Unlimited!Next \/ UNCHANGED Unlimited!vars
    OBVIOUS
  <2>1. CASE AllocateFor \/ PopulateOffset \/ NextInstruction \/ EndPopulate \/ Replace
    BY <2>1, AllocatorStutters
  <2>2. CASE Load \/ Store \/ Advance
    BY <2>2, LoadStutters, StoreStutters, AdvanceStutters
  <2>3. CASE Prologue \/ Execute \/ Return
    BY <2>3, PrologueRefines, ExecuteRefines, ReturnRefines DEF Unlimited!Next
  <2>4. CASE UNCHANGED vars
    <3>1. UNCHANGED <<program, method, pc, registerOffsets, newInstructions,
                      at, part, j, gprs, stack, esp, world>>
      BY <2>4 DEF vars, allocator, machine
    <3>2. UNCHANGED <<program, method, VirtualAt, Regs, Stacked, world>>
      BY <3>1 DEF VirtualAt, Regs, Stacked, VirtualRegister, AwaitsStore, Pushed, Code
    <3>3. QED
      BY <3>2, Stutters
  <2>5. QED
    BY <2>1, <2>2, <2>3, <2>4 DEF Next
<1>3. QED
  BY <1>1, <1>2, Invariant, PTL DEF Spec, ImplementsVirtualMachine, Unlimited!Spec
-----------------------------------------------------------------------------
(***************************************************************************)
(* Progress of the allocator: populate and replace walk the code once, and *)
(* an instruction is left when its registers have slots.                   *)
(***************************************************************************)
AllocationAdvances ==
  pc \in {"populate", "replace"} =>
    \/ pc = "populate" /\ pc' = "replace"
    \/ pc = "replace" /\ pc' \in {"run", "error"}
    \/ UNCHANGED <<program, method, pc>> /\ k' = k + 1 /\ k' <= Len(Code) + 1
    \/ /\ UNCHANGED <<program, method, pc, k>>
       /\ IsFiniteSet(Unassigned(k))
       /\ Unassigned(k)' \subseteq Unassigned(k) /\ Unassigned(k)' # Unassigned(k)

LEMMA StepAdvancesAllocation ==
  ASSUME Inv, Next
  PROVE  AllocationAdvances
<1> SUFFICES ASSUME pc \in {"populate", "replace"}
             PROVE  AllocationAdvances
  BY DEF AllocationAdvances
<1>1. /\ Len(Code) \in Nat /\ DOMAIN Code = 1..Len(Code)
      /\ \A n \in DOMAIN Code : IsInstruction(Code[n])
  BY CodeIsWellFormed DEF Inv, TypeOK, Collected
<1>2. CASE PopulateOffset
  <2>1. PICK reg \in Unassigned(k) :
          registerOffsets' = [r \in DOMAIN registerOffsets \cup {reg} |->
                                IF r = reg THEN offset ELSE registerOffsets[r]]
    BY <1>2 DEF PopulateOffset
  <2>2. UNCHANGED <<program, method, pc, k>> /\ Code' = Code /\ k \in DOMAIN Code
    BY <1>2 DEF PopulateOffset, Code
  <2>3. DOMAIN registerOffsets' = DOMAIN registerOffsets \cup {reg}
    BY <2>1
  <2>4. Unassigned(k)' = Unassigned(k) \ {reg}
    BY <2>2, <2>3 DEF Unassigned
  <2>5. IsFiniteSet(Unassigned(k))
    <3>1. IsFiniteSet(Virtual(AllUsedRegisters(Code[k])))
      BY <1>1, <2>2, UsedIsFinite
    <3>2. Unassigned(k) \in SUBSET Virtual(AllUsedRegisters(Code[k]))
      BY DEF Unassigned
    <3>3. QED
      BY <3>1, <3>2, FS_Subset
  <2>6. QED
    BY <2>1, <2>2, <2>4, <2>5 DEF AllocationAdvances
<1>3. CASE NextInstruction
  <2>1. UNCHANGED <<program, method, pc>> /\ k' = k + 1 /\ k \in DOMAIN Code
    BY <1>3 DEF NextInstruction, FollowingInstruction
  <2>2. k' <= Len(Code) + 1
    BY <1>1, <2>1
  <2>3. QED
    BY <2>1, <2>2 DEF AllocationAdvances
<1>4. CASE Replace
  <2>1. /\ UNCHANGED <<program, method>> /\ k' = k + 1 /\ k \in DOMAIN Code
        /\ pc = "replace" /\ pc' \in {"replace", "error"}
    BY <1>4 DEF Replace
  <2>2. k' <= Len(Code) + 1
    BY <1>1, <2>1
  <2>3. QED
    BY <2>1, <2>2 DEF AllocationAdvances
<1>5. CASE EndPopulate \/ Prologue
  BY <1>5 DEF EndPopulate, Prologue, AllocationAdvances
<1>6. QED
  BY <1>2, <1>3, <1>4, <1>5 DEF Next, AllocateFor, Load, Execute, Store, Advance, Return, Running

\* While a method is being allocated, every step ends a pass, goes on to the next
\* instruction of the code, or gives a slot to one of the finitely many registers
\* of an instruction that had none: the allocation ends for code of any length.
THEOREM AllocatorAdvances == Spec => [][AllocationAdvances]_vars
<1>1. Inv /\ [Next]_vars => [AllocationAdvances]_vars
  BY StepAdvancesAllocation
<1>2. QED
  BY <1>1, Invariant, PTL DEF Spec
=============================================================================
