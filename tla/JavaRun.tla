------------------------------ MODULE JavaRun ------------------------------
(***************************************************************************)
(* The abstract specification of a compiled program: it writes what the    *)
(* program means, byte by byte, and then ends as the program means it to.  *)
(***************************************************************************)
EXTENDS Naturals, Sequences

VARIABLES
  meaning,  \* [out, exit] of JavaMeaning
  out,      \* the bytes written
  exit      \* empty, or how the program has ended

vars == <<meaning, out, exit>>

Init == out = << >> /\ exit = << >>

Write ==
  /\ exit = << >> /\ Len(out) < Len(meaning.out)
  /\ out' = Append(out, meaning.out[Len(out) + 1])
  /\ UNCHANGED <<meaning, exit>>

End ==
  /\ exit = << >> /\ out = meaning.out
  /\ exit' = meaning.exit
  /\ UNCHANGED <<meaning, out>>

Next == Write \/ End

Spec == Init /\ [][Next]_vars /\ WF_vars(Next)
=============================================================================
