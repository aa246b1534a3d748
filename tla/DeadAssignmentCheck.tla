------------------------ MODULE DeadAssignmentCheck ------------------------
(***************************************************************************)
(* What the dead assignment check promises of a method, however liveness   *)
(* is computed: one decision, taken from where each variable is live.      *)
(***************************************************************************)
EXTENDS CFG

VARIABLES
  cfg,     \* the method's graph
  result

\* An assignment, declarations apart, whose variable no path on reads.
HasDeadAssignment(g) ==
  \E n \in g.nodes \ ({g.end} \cup g.decls) :
    \E v \in g.def[n] : n \notin LiveOut(g, v)

Init == IsCFG(cfg) /\ result = "pending"

Decide ==
  /\ result = "pending"
  /\ result' = IF HasDeadAssignment(cfg) THEN "dead" ELSE "ok"
  /\ UNCHANGED cfg

Spec == Init /\ [][Decide]_<<cfg, result>>
=============================================================================
