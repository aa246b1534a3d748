------------------------ MODULE LiveVariableAnalysis ------------------------
(***************************************************************************)
(* staticCheck/liveVariableAnalysis.cpp, checkDeadAssignments: a worklist  *)
(* solves the liveness equations of one method's control flow graph, then  *)
(* every assignment to a variable that is not live behind it counts as     *)
(* dead.  The queue starts with the nodes in the order of a hash map,      *)
(* which is any order.  A step is one iteration of the outer loop, one     *)
(* iteration of the loop over a node's predecessors, or the final check.   *)
(*                                                                         *)
(* The check is asked of methods that passed checkUnreachableStatements,   *)
(* so the use and def sets of every node have been computed.               *)
(***************************************************************************)
EXTENDS CFG

CONSTANTS
  CFGs,       \* the graphs of the methods with no unreachable statement
  Variables   \* the names of local variables

ASSUME CFGsAssumption ==
  \A g \in CFGs :
    /\ IsCFG(g)
    /\ g.use \in [g.nodes -> SUBSET Variables]
    /\ g.def \in [g.nodes -> SUBSET Variables]
    /\ g.use[g.end] = {}

VARIABLES
  cfg,     \* the graph of the method under analysis
  in,      \* variables found live in front of each node
  out,     \* variables found live behind each node
  q,       \* nodes whose equations have to be looked at again
  inQ,     \* the same nodes, as a set
  node,    \* the node taken from the queue last
  i,       \* the next of node's predecessors to queue
  pc,
  result   \* "dead" makes the check return false

vars == <<cfg, in, out, q, inQ, node, i, pc, result>>

\* The orders a hash map may list the elements of S in.
Orders(S) == {s \in [1..Cardinality(S) -> S] : Range(s) = S}

Init ==
  /\ cfg \in CFGs
  /\ in = [n \in cfg.nodes |-> {}]
  /\ out = [n \in cfg.nodes |-> {}]
  /\ q \in Orders(cfg.nodes \ {cfg.end})
  /\ inQ = cfg.nodes \ {cfg.end}
  /\ node = cfg.entry
  /\ i = 1
  /\ pc = "solve"
  /\ result = "pending"

\* The liveness equations of node n, over the sets found so far.
OutEquation(n) == UNION {in[s] : s \in Succ(cfg, n)}

\* Mutant: a variable written by the node stays live in front of it.
InEquationWithoutDef(n, outN) == outN \cup cfg.use[n]

InEquation(n, outN) == (outN \ cfg.def[n]) \cup cfg.use[n]

\* Mutant: the test for a change looks at the set behind the node.
OutChanged(n, new) == OutEquation(n) # out[n]

\* Mutant: the predecessors are queued every time.
AlwaysChanged(n, new) == TRUE

\* Whether the predecessors of n have to be looked at again.
Changed(n, new) == new # in[n]

\* Mutant: a node taken from the queue stays in the set of queued nodes.
LeaveInSet(n) == UNCHANGED inQ

LeaveQueue(n) == inQ' = inQ \ {n}

\* Mutant: the predecessors of a node are counted from 0.
FirstIsZero == i' = 0

StartPropagation == i' = 1

\* Take the front of the queue and evaluate its equations.  Its predecessors
\* are looked at only if that changed what is live in front of it.
Solve ==
  /\ pc = "solve" /\ q # << >>
  /\ LET n   == Head(q)
         new == InEquation(n, OutEquation(n))
     IN  /\ node' = n
         /\ q' = Tail(q)
         /\ LeaveQueue(n)
         /\ out' = [out EXCEPT ![n] = OutEquation(n)]
         /\ in' = [in EXCEPT ![n] = new]
         /\ pc' = IF Changed(n, new) THEN "propagate" ELSE "solve"
  /\ StartPropagation
  /\ UNCHANGED <<cfg, result>>

\* Queue a predecessor unless it waits already.
Propagate ==
  /\ pc = "propagate" /\ i <= Len(cfg.pred[node])
  /\ LET pred == cfg.pred[node][i]
     IN  IF pred \in inQ
         THEN UNCHANGED <<q, inQ>>
         ELSE q' = Append(q, pred) /\ inQ' = inQ \cup {pred}
  /\ i' = i + 1
  /\ UNCHANGED <<cfg, in, out, node, pc, result>>

EndPropagate ==
  /\ pc = "propagate" /\ i > Len(cfg.pred[node])
  /\ pc' = "solve"
  /\ UNCHANGED <<cfg, in, out, q, inQ, node, i, result>>

\* Mutant: declarations are reported like assignments.
DeadDefinition ==
  \E n \in cfg.nodes \ {cfg.end} : \E v \in cfg.def[n] : v \notin out[n]

\* Declarations are exempt: only assignment statements are reported.
DeadAssignment ==
  \E n \in cfg.nodes \ ({cfg.end} \cup cfg.decls) :
    \E v \in cfg.def[n] : v \notin out[n]

CheckAssignments ==
  /\ pc = "solve" /\ q = << >>
  /\ pc' = "done"
  /\ result' = IF DeadAssignment THEN "dead" ELSE "ok"
  /\ UNCHANGED <<cfg, in, out, q, inQ, node, i>>

Next ==
  \/ Solve
  \/ Propagate
  \/ EndPropagate
  \/ CheckAssignments

\* The analysis is a function that runs to its end on one thread.
Spec == Init /\ [][Next]_vars /\ WF_vars(Next)
-----------------------------------------------------------------------------
\* The typing of the state: sets of variables per node, a queue of nodes.
TypeOK ==
  /\ cfg \in CFGs
  /\ in \in [cfg.nodes -> SUBSET Variables]
  /\ out \in [cfg.nodes -> SUBSET Variables]
  /\ q \in Seq(cfg.nodes)
  /\ inQ \subseteq cfg.nodes
  /\ node \in cfg.nodes
  /\ i \in Nat \ {0}
  /\ pc \in {"solve", "propagate", "done"}
  /\ result \in {"pending", "dead", "ok"}

\* The set that answers "is it queued already" and the queue itself never
\* disagree, and no node waits twice: a node missing from the queue and
\* present in the set would never be looked at again.
QueueMatchesSet == inQ = Range(q) /\ IsInjective(q)

\* The predecessors of the node just changed that are still to be queued.
Ahead == IF pc = "propagate"
         THEN {cfg.pred[node][k] : k \in i..Len(cfg.pred[node])}
         ELSE {}

\* Whatever happened so far, a node that is neither queued nor about to be
\* satisfies its two equations: no change upstream went unnoticed.
SettledNodesSolveEquations ==
  \A n \in cfg.nodes \ (Range(q) \cup Ahead) :
    /\ out[n] = OutEquation(n)
    /\ in[n] = InEquation(n, out[n])

\* Nothing is found live that is not: the nodes where v is found live lie in
\* every set saturated for v, in front of a node and behind it.
FoundLiveIsLive ==
  \A v \in Variables : \A S \in SUBSET cfg.nodes :
    Saturated(cfg, v, S) =>
      \A n \in cfg.nodes : /\ v \in in[n] => n \in S
                           /\ v \in out[n] => Succ(cfg, n) \cap S # {}

\* The verdict is the one that liveness itself gives, whatever the order of
\* the hash map: dead is reported exactly when some assignment statement's
\* variable is not live behind it.
Promised == INSTANCE DeadAssignmentCheck
DecidesLiveness == Promised!Spec

\* The worklist runs dry, loops and all.
Termination == <>(pc = "done")
=============================================================================
