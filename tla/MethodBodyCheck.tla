-------------------------- MODULE MethodBodyCheck --------------------------
(***************************************************************************)
(* What the driver asks of a method body once its control flow graph is    *)
(* built, without saying how it is found out: one decision, taken from the *)
(* set of reachable nodes.                                                 *)
(***************************************************************************)
EXTENDS CFG

VARIABLES
  cfg,     \* the method's graph
  result

\* The two verdicts in the order joosc/main.cpp asks for them.
Verdict(g) ==
  IF \E n \in g.nodes \ {g.end} : n \notin Reachable(g) THEN "unreachable"
  ELSE IF g.nonVoid /\ g.end \in Reachable(g) THEN "noReturn"
  ELSE "ok"

Init == IsCFG(cfg) /\ result = "pending"

Decide ==
  /\ result = "pending"
  /\ result' = Verdict(cfg)
  /\ UNCHANGED cfg

Spec == Init /\ [][Decide]_<<cfg, result>>
=============================================================================
