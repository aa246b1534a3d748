-------------------------------- MODULE CFG --------------------------------
(***************************************************************************)
(* The control flow graph the static checks run on (staticCheck/cfg.hpp).  *)
(* A graph is a record                                                     *)
(*                                                                         *)
(*   nodes    the node ids                                                 *)
(*   entry    the first node executed                                      *)
(*   end      the sentinel appended behind the method body                 *)
(*   succ     the successor vector of each node                            *)
(*   pred     the predecessor vector of each node                          *)
(*   returns  the nodes whose statement is a return                        *)
(*   decls    the nodes whose statement declares a local variable          *)
(*   use, def the local variables a node reads and writes                  *)
(*   nonVoid  the method has a return type                                 *)
(*                                                                         *)
(* A graph may carry further fields; the analyses read only these.         *)
(***************************************************************************)
EXTENDS Naturals, Sequences, FiniteSets, Functions

Succ(g, n) == Range(g.succ[n])
Pred(g, n) == Range(g.pred[n])

\* What every graph handed out by CFGBuilder::buildCFG satisfies: addEdge
\* records each edge at both of its ends, and the sentinel, an empty block
\* with no successor, touches no variable.
IsCFG(g) ==
  /\ IsFiniteSet(g.nodes)
  /\ g.entry \in g.nodes
  /\ g.end \in g.nodes
  /\ g.succ \in [g.nodes -> Seq(g.nodes)]
  /\ g.pred \in [g.nodes -> Seq(g.nodes)]
  /\ \A m, n \in g.nodes : n \in Succ(g, m) <=> m \in Pred(g, n)
  /\ g.succ[g.end] = << >>
  /\ g.returns \subseteq g.nodes
  /\ g.decls \subseteq g.nodes
  /\ g.nonVoid \in BOOLEAN

(***************************************************************************)
(* Which nodes some execution may reach, stated without an algorithm: the  *)
(* nodes no set closed under control flow can leave out.  Control leaves a *)
(* node along its edges unless the node is a return.                       *)
(***************************************************************************)
ClosedUnderFlow(g, S) ==
  /\ g.entry \in S
  /\ \A m \in S \ g.returns : Succ(g, m) \subseteq S

Reachable(g) ==
  {n \in g.nodes : \A S \in SUBSET g.nodes : ClosedUnderFlow(g, S) => n \in S}

(***************************************************************************)
(* Where a variable is live: a set of nodes is saturated for v when it     *)
(* holds each node that reads v, and each node that does not write v and   *)
(* has a successor in the set; v is live at the nodes every saturated set  *)
(* holds.                                                                  *)
(***************************************************************************)
Saturated(g, v, S) ==
  \A n \in g.nodes :
    (v \in g.use[n] \/ (v \notin g.def[n] /\ Succ(g, n) \cap S # {}))
      => n \in S

LiveIn(g, v) ==
  {n \in g.nodes : \A S \in SUBSET g.nodes : Saturated(g, v, S) => n \in S}

LiveOut(g, v) == {n \in g.nodes : Succ(g, n) \cap LiveIn(g, v) # {}}
=============================================================================
