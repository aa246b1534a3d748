--------------------------- MODULE VirtualMachine ---------------------------
(***************************************************************************)
(* What register allocation has to preserve: the selected instructions of  *)
(* each method, run on a machine that has all the registers they name.     *)
(* The methods of a program are run one after the other; the last of them  *)
(* is the code of _start that sets up the static fields.                   *)
(***************************************************************************)
EXTENDS RegisterMachine

VARIABLES
  program,  \* a sequence of methods, each a sequence of instructions
  method,   \* the method running or to be run next
  at,       \* the next instruction, or 0 between two methods
  regs,     \* the value of each register
  pushed,   \* the words pushed and not yet dropped
  world

vars == <<program, method, at, regs, pushed, world>>

Code == program[method]

Init ==
  /\ \A m \in DOMAIN program : IsCode(program[m])
  /\ method = 1
  /\ at = 0
  /\ regs = << >>
  /\ pushed = << >>
  /\ world \in Worlds

\* A method starts with whatever is in its registers.
Enter ==
  /\ at = 0 /\ method \in DOMAIN program
  /\ at' = 1
  /\ regs' \in [RegistersOf(Code) \cup Visible -> Values]
  /\ pushed' = << >>
  /\ UNCHANGED <<program, method, world>>

Step ==
  /\ at \in DOMAIN Code /\ Code[at].stack # "ret"
  /\ \E o \in Results(Code[at], regs, world, pushed) :
       /\ regs' = Written(Code[at], regs, o)
       /\ CASE Code[at].stack = "none" -> UNCHANGED pushed
            [] Code[at].stack = "push" -> pushed' = Append(pushed, o.result)
            [] Code[at].stack = "drop" ->
                 /\ Code[at].count <= Len(pushed)
                 /\ pushed' = SubSeq(pushed, 1, Len(pushed) - Code[at].count)
       /\ at' = Following(Code[at], at, o)
       /\ world' = o.world
  /\ UNCHANGED <<program, method>>

\* A method ends at a ret; the code of _start ends by running out.
Return ==
  /\ at # 0
  /\ at \in DOMAIN Code => Code[at].stack = "ret"
  /\ at' = 0
  /\ method' = method + 1
  /\ regs' = << >>
  /\ pushed' = << >>
  /\ UNCHANGED <<program, world>>

Next == Enter \/ Step \/ Return

Spec == Init /\ [][Next]_vars
=============================================================================
