------------------------ MODULE ReachabilityAnalysis ------------------------
(***************************************************************************)
(* staticCheck/reachabilityAnalysis.cpp: the breadth-first search that     *)
(* computes in and out for every node of one method's control flow graph,  *)
(* and the two checks joosc/main.cpp makes from it, in that order.  A step *)
(* is one iteration of the outer loop, one iteration of the loop over a    *)
(* node's successors, or one of the two checks.                            *)
(***************************************************************************)
EXTENDS CFG

CONSTANT CFGs  \* the graphs buildCFG makes of the methods that have a body

ASSUME CFGsAssumption == \A g \in CFGs : IsCFG(g)

VARIABLES
  cfg,     \* the graph of the method under analysis
  in,      \* the program point before each node may be reached
  out,     \* the program point behind each node may be reached
  q,       \* nodes reached and not yet visited
  node,    \* the node being visited
  i,       \* the next of node's successors to look at
  pc,
  result   \* "unreachable" and "noReturn" make the driver exit with EXIT_ERROR

vars == <<cfg, in, out, q, node, i, pc, result>>

Init ==
  /\ cfg \in CFGs
  /\ in = [n \in cfg.nodes |-> n = cfg.entry]
  /\ out = [n \in cfg.nodes |-> FALSE]
  /\ q = <<cfg.entry>>
  /\ node = cfg.entry
  /\ i = 1
  /\ pc = "visit"
  /\ result = "pending"

\* Nothing executes behind a return statement.
OutOf(n) == IF n \in cfg.returns THEN FALSE ELSE in[n]

\* Mutant: the successors of a node are counted from 0.
FirstIsZero == i' = 0

StartExpansion == i' = 1

\* Take the front of the queue; a node control does not leave is done with.
Visit ==
  /\ pc = "visit" /\ q # << >>
  /\ node' = Head(q)
  /\ q' = Tail(q)
  /\ out' = [out EXCEPT ![Head(q)] = OutOf(Head(q))]
  /\ StartExpansion
  /\ pc' = IF OutOf(Head(q)) THEN "expand" ELSE "visit"
  /\ UNCHANGED <<cfg, in, result>>

\* Mutant: a successor is queued whether or not it is marked.
MeetAgain(successor) ==
  /\ in' = [in EXCEPT ![successor] = TRUE]
  /\ q' = Append(q, successor)

\* Mutant: a successor is marked and not queued.
MeetWithoutQueueing(successor) ==
  /\ in' = [in EXCEPT ![successor] = TRUE]
  /\ UNCHANGED q

\* Mark and queue a successor the first time it is met.
Meet(successor) ==
  IF in[successor] THEN UNCHANGED <<in, q>>
  ELSE /\ in' = [in EXCEPT ![successor] = TRUE]
       /\ q' = Append(q, successor)

Expand ==
  /\ pc = "expand" /\ i <= Len(cfg.succ[node])
  /\ Meet(cfg.succ[node][i])
  /\ i' = i + 1
  /\ UNCHANGED <<cfg, out, node, pc, result>>

EndExpand ==
  /\ pc = "expand" /\ i > Len(cfg.succ[node])
  /\ pc' = "visit"
  /\ UNCHANGED <<cfg, in, out, q, node, i, result>>

\* Mutant: the sentinel counts as a statement.
UnreachableNode == \E n \in cfg.nodes : ~in[n]

\* The sentinel is exempt: it stands for falling off the end of the body.
UnreachableStatement == \E n \in cfg.nodes \ {cfg.end} : ~in[n]

CheckUnreachableStatements ==
  /\ pc = "visit" /\ q = << >>
  /\ IF UnreachableStatement
     THEN pc' = "done" /\ result' = "unreachable"
     ELSE pc' = "return" /\ UNCHANGED result
  /\ UNCHANGED <<cfg, in, out, q, node, i>>

CheckFiniteLengthReturn ==
  /\ pc = "return"
  /\ pc' = "done"
  /\ result' = IF in[cfg.end] /\ cfg.nonVoid THEN "noReturn" ELSE "ok"
  /\ UNCHANGED <<cfg, in, out, q, node, i>>

Next ==
  \/ Visit
  \/ Expand
  \/ EndExpand
  \/ CheckUnreachableStatements
  \/ CheckFiniteLengthReturn

\* The analysis is a function that runs to its end on one thread.
Spec == Init /\ [][Next]_vars /\ WF_vars(Next)
-----------------------------------------------------------------------------
\* The typing of the state: in and out cover every node, the queue holds nodes.
TypeOK ==
  /\ cfg \in CFGs
  /\ in \in [cfg.nodes -> BOOLEAN]
  /\ out \in [cfg.nodes -> BOOLEAN]
  /\ q \in Seq(cfg.nodes)
  /\ node \in cfg.nodes
  /\ i \in Nat \ {0}
  /\ pc \in {"visit", "expand", "return", "done"}
  /\ result \in {"pending", "unreachable", "noReturn", "ok"}

\* The successors of m that the visit of m in progress has not looked at yet.
Ahead(m) == IF pc = "expand" /\ m = node
            THEN {cfg.succ[m][k] : k \in i..Len(cfg.succ[m])}
            ELSE {}

\* No node is marked that control cannot reach: whatever set of nodes is
\* closed under control flow holds every marked node.
MarkedIsReachable ==
  \A S \in SUBSET cfg.nodes :
    ClosedUnderFlow(cfg, S) => {n \in cfg.nodes : in[n]} \subseteq S

\* No mark is forgotten: each marked node that control leaves has marked its
\* successors already, or waits in the queue, or is in the middle of doing so.
FrontierIsQueued ==
  /\ in[cfg.entry]
  /\ \A m \in cfg.nodes \ cfg.returns :
       in[m] /\ m \notin Range(q)
         => \A s \in Succ(cfg, m) : in[s] \/ s \in Ahead(m)

\* The verdict is the one that reachability itself gives: an unreachable
\* statement is reported exactly when some node but the sentinel is out of
\* reach, a missing return exactly when the sentinel can be reached.
Promised == INSTANCE MethodBodyCheck
DecidesReachability == Promised!Spec

\* The worklist runs dry on every graph, loops and all.
Termination == <>(pc = "done")
=============================================================================
