------------------------- MODULE ReachabilityProofs -------------------------
(***************************************************************************)
(* For every set of well-formed control flow graphs, the                   *)
(* search of ReachabilityAnalysis marks the reachable nodes and no others, *)
(* and the verdict is the one MethodBodyCheck promises; each step brings   *)
(* the search closer to its end.                                           *)
(***************************************************************************)
EXTENDS ReachabilityAnalysis, WorklistLemmas

\* The graph of a typed state is one the builder can hand out.
LEMMA GraphIsWellFormed ==
  ASSUME TypeOK
  PROVE  /\ IsCFG(cfg)
         /\ cfg.entry \in cfg.nodes /\ cfg.end \in cfg.nodes
         /\ cfg.succ \in [cfg.nodes -> Seq(cfg.nodes)]
         /\ \A n \in cfg.nodes : Succ(cfg, n) = Range(cfg.succ[n])
         /\ \A n \in cfg.nodes : Succ(cfg, n) \subseteq cfg.nodes
<1>1. IsCFG(cfg)
  BY CFGsAssumption DEF TypeOK
<1>2. \A n \in cfg.nodes : cfg.succ[n] \in Seq(cfg.nodes)
  BY <1>1 DEF IsCFG
<1>3. \A n \in cfg.nodes : Range(cfg.succ[n]) \subseteq cfg.nodes
  BY <1>2 DEF Range
<1>4. QED
  BY <1>1, <1>3 DEF IsCFG, Succ

\* No step changes the method under analysis.
LEMMA GraphIsFixed ==
  ASSUME [Next]_vars
  PROVE  cfg' = cfg
BY DEF Next, vars, Visit, Expand, EndExpand, CheckUnreachableStatements,
       CheckFiniteLengthReturn

LEMMA InitEstablishesTypeOK == Init => TypeOK
<1> SUFFICES ASSUME Init
             PROVE  TypeOK
  OBVIOUS
<1>1. IsCFG(cfg)
  BY CFGsAssumption DEF Init
<1>2. cfg.entry \in cfg.nodes
  BY <1>1 DEF IsCFG
<1>3. <<cfg.entry>> \in Seq(cfg.nodes)
  BY <1>2, SingletonQueue
<1>4. QED
  BY <1>2, <1>3 DEF Init, TypeOK

LEMMA StepKeepsTypeOK == TypeOK /\ [Next]_vars => TypeOK'
<1> SUFFICES ASSUME TypeOK, [Next]_vars
             PROVE  TypeOK'
  OBVIOUS
<1> USE GraphIsWellFormed, GraphIsFixed
<1>1. CASE Visit
  <2>1. Head(q) \in cfg.nodes /\ Tail(q) \in Seq(cfg.nodes)
    BY <1>1, RangeHeadTail DEF Visit, TypeOK
  <2>2. OutOf(Head(q)) \in BOOLEAN
    BY <2>1 DEF OutOf, TypeOK
  <2>3. QED
    BY <1>1, <2>1, <2>2 DEF Visit, StartExpansion, TypeOK
<1>2. CASE Expand
  <2>1. cfg.succ[node][i] \in cfg.nodes
    BY <1>2, Remaining DEF Expand, TypeOK
  <2>2. Append(q, cfg.succ[node][i]) \in Seq(cfg.nodes)
    BY <2>1, RangeAppend DEF TypeOK
  <2>3. i + 1 \in Nat \ {0}
    BY DEF TypeOK
  <2>4. QED
    BY <1>2, <2>1, <2>2, <2>3 DEF Expand, Meet, TypeOK
<1>3. CASE EndExpand
  BY <1>3 DEF EndExpand, TypeOK
<1>4. CASE CheckUnreachableStatements
  BY <1>4 DEF CheckUnreachableStatements, TypeOK
<1>5. CASE CheckFiniteLengthReturn
  BY <1>5 DEF CheckFiniteLengthReturn, TypeOK
<1>6. CASE UNCHANGED vars
  BY <1>6 DEF vars, TypeOK
<1>7. QED
  BY <1>1, <1>2, <1>3, <1>4, <1>5, <1>6 DEF Next

\* Type correctness: every step keeps in and out total on the nodes and the
\* queue a sequence of nodes.
THEOREM TypeCorrect == Spec => []TypeOK
<1>1. QED
  BY InitEstablishesTypeOK, StepKeepsTypeOK, PTL DEF Spec
-----------------------------------------------------------------------------
(***************************************************************************)
(* The inductive invariant.  MarkedIsReachable needs to know that the node *)
(* whose successors are being marked is marked itself and is no return;    *)
(* that in turn needs the queue to hold marked nodes only.                 *)
(***************************************************************************)
QueuedIsMarked ==
  /\ \A n \in Range(q) : in[n]
  /\ pc = "expand" => in[node] /\ node \notin cfg.returns

\* The two checks run once the queue is empty, and give one verdict.
ChecksComeLast ==
  /\ pc \in {"return", "done"} => q = << >>
  /\ pc # "done" => result = "pending"
  /\ pc = "return" => ~UnreachableStatement

IInv ==
  /\ TypeOK
  /\ QueuedIsMarked
  /\ MarkedIsReachable
  /\ FrontierIsQueued
  /\ ChecksComeLast

LEMMA InitEstablishesIInv == Init => IInv
<1> SUFFICES ASSUME Init
             PROVE  IInv
  OBVIOUS
<1>1. TypeOK
  BY InitEstablishesTypeOK
<1>2. Range(q) = {cfg.entry}
  BY DEF Init, Range
<1>3. \A n \in cfg.nodes : in[n] <=> n = cfg.entry
  BY DEF Init
<1>4. cfg.entry \in cfg.nodes
  BY <1>1, GraphIsWellFormed
<1>5. QueuedIsMarked
  BY <1>2, <1>3, <1>4 DEF QueuedIsMarked, Init
<1>6. MarkedIsReachable
  BY <1>3 DEF MarkedIsReachable, ClosedUnderFlow
<1>7. FrontierIsQueued
  BY <1>2, <1>3, <1>4 DEF FrontierIsQueued
<1>8. ChecksComeLast
  BY DEF ChecksComeLast, Init
<1>9. QED
  BY <1>1, <1>5, <1>6, <1>7, <1>8 DEF IInv

LEMMA StepKeepsIInv == IInv /\ [Next]_vars => IInv'
<1> SUFFICES ASSUME IInv, [Next]_vars
             PROVE  IInv'
  OBVIOUS
<1> USE GraphIsWellFormed, GraphIsFixed DEF IInv
<1>0. TypeOK'
  BY StepKeepsTypeOK
<1>1. CASE Visit
  <2>1. /\ Head(q) \in cfg.nodes
        /\ Range(q) = {Head(q)} \cup Range(q')
    BY <1>1, RangeHeadTail DEF Visit, TypeOK
  <2>2. in[Head(q)]
    BY <2>1 DEF QueuedIsMarked
  <2>3. pc' = "expand" <=> Head(q) \notin cfg.returns
    BY <1>1, <2>2 DEF Visit, OutOf
  <2>4. QueuedIsMarked'
    BY <1>1, <2>1, <2>2, <2>3 DEF Visit, QueuedIsMarked
  <2>5. MarkedIsReachable'
    BY <1>1 DEF Visit, MarkedIsReachable, ClosedUnderFlow, Succ
  <2>6. FrontierIsQueued'
    <3>1. in'[cfg.entry]
      BY <1>1 DEF Visit, FrontierIsQueued
    <3>2. ASSUME NEW m \in cfg.nodes \ cfg.returns, in'[m], m \notin Range(q'),
                 NEW s \in Succ(cfg, m)
          PROVE  in'[s] \/ s \in Ahead(m)'
      <4>1. CASE m = Head(q)
        <5>1. pc' = "expand" /\ node' = m /\ i' = 1
          BY <1>1, <2>3, <3>2, <4>1 DEF Visit, StartExpansion
        <5>2. {cfg.succ[m][k] : k \in 1..Len(cfg.succ[m])} = Succ(cfg, m)
          <6>1. cfg.succ[m] \in Seq(cfg.nodes)
            BY <3>2
          <6>2. 1 \in Nat \ {0}
            OBVIOUS
          <6>3. QED
            BY ONLY <6>1, <6>2, Remaining DEF Succ
        <5>3. QED
          BY <3>2, <5>1, <5>2 DEF Ahead
      <4>2. CASE m # Head(q)
        <5>1. m \notin Range(q) /\ in[m] /\ Ahead(m) = {}
          BY <1>1, <2>1, <3>2, <4>2 DEF Visit, Ahead
        <5>2. QED
          BY <1>1, <3>2, <5>1 DEF Visit, FrontierIsQueued
      <4>3. QED
        BY <4>1, <4>2
    <3>3. QED
      BY <3>1, <3>2 DEF FrontierIsQueued, Succ
  <2>7. ChecksComeLast'
    BY <1>1 DEF Visit, ChecksComeLast
  <2>8. QED
    BY <1>0, <2>4, <2>5, <2>6, <2>7
<1>2. CASE Expand
  <2> DEFINE successor == cfg.succ[node][i]
  <2>1. /\ node \in cfg.nodes /\ in[node] /\ node \notin cfg.returns
        /\ successor \in Succ(cfg, node) /\ successor \in cfg.nodes
    BY <1>2, Remaining DEF Expand, TypeOK, QueuedIsMarked
  <2>2. /\ in'[successor]
        /\ \A n \in cfg.nodes : in[n] => in'[n]
        /\ \A n \in cfg.nodes : in'[n] => in[n] \/ n = successor
    BY <1>2, <2>1 DEF Expand, Meet, TypeOK
  <2>3. /\ Range(q) \subseteq Range(q')
        /\ Range(q') \subseteq Range(q) \cup {successor}
        /\ ~in[successor] => successor \in Range(q')
    <3>1. Range(Append(q, successor)) = Range(q) \cup {successor}
      BY <2>1, RangeAppend DEF TypeOK
    <3>2. q' = q \/ q' = Append(q, successor)
      BY <1>2 DEF Expand, Meet
    <3>3. ~in[successor] => q' = Append(q, successor)
      BY <1>2 DEF Expand, Meet
    <3>4. QED
      BY <3>1, <3>2, <3>3
  <2>4. Range(q) \subseteq cfg.nodes
    BY DEF TypeOK, Range
  <2>5. QueuedIsMarked'
    BY <1>2, <2>1, <2>2, <2>3, <2>4 DEF Expand, QueuedIsMarked
  <2>6. MarkedIsReachable'
    <3>1. ASSUME NEW S \in SUBSET cfg.nodes, ClosedUnderFlow(cfg, S),
                 NEW n \in cfg.nodes, in'[n]
          PROVE  n \in S
      <4>1. node \in S
        BY <2>1, <3>1 DEF MarkedIsReachable
      <4>2. successor \in S
        BY <2>1, <3>1, <4>1 DEF ClosedUnderFlow
      <4>3. QED
        BY <2>2, <3>1, <4>2 DEF MarkedIsReachable
    <3>2. QED
      BY <3>1 DEF MarkedIsReachable, ClosedUnderFlow, Succ
  <2>7. FrontierIsQueued'
    <3>1. in'[cfg.entry]
      BY <2>2 DEF FrontierIsQueued
    <3>2. ASSUME NEW m \in cfg.nodes \ cfg.returns, in'[m], m \notin Range(q'),
                 NEW s \in Succ(cfg, m)
          PROVE  in'[s] \/ s \in Ahead(m)'
      <4>1. in[m] /\ m \notin Range(q)
        BY <2>2, <2>3, <3>2
      <4>2. in[s] \/ s \in Ahead(m)
        BY <3>2, <4>1 DEF FrontierIsQueued
      <4>3. CASE in[s]
        BY <2>2, <3>2, <4>3
      <4>4. CASE s \in Ahead(m)
        <5>1. /\ m = node /\ pc' = pc /\ pc = "expand" /\ node' = node /\ i' = i + 1
              /\ i <= Len(cfg.succ[m])
          BY <1>2, <4>4 DEF Ahead, Expand
        <5>2. s \in {cfg.succ[m][k] : k \in i..Len(cfg.succ[m])}
          BY <4>4, <5>1 DEF Ahead
        <5>3. s = successor \/ s \in {cfg.succ[m][k] : k \in (i + 1)..Len(cfg.succ[m])}
          <6>1. cfg.succ[m] \in Seq(cfg.nodes) /\ i \in Nat \ {0}
            BY <3>2 DEF TypeOK
          <6>2. QED
            BY ONLY <5>1, <5>2, <6>1, Remaining
        <5>4. QED
          BY <2>2, <5>1, <5>3 DEF Ahead
      <4>5. QED
        BY <4>2, <4>3, <4>4
    <3>3. QED
      BY <3>1, <3>2 DEF FrontierIsQueued, Succ
  <2>8. ChecksComeLast'
    BY <1>2 DEF Expand, ChecksComeLast
  <2>9. QED
    BY <1>0, <2>5, <2>6, <2>7, <2>8
<1>3. CASE EndExpand
  <2>1. \A m : Ahead(m) = {} /\ Ahead(m)' = {}
    <3>1. {cfg.succ[node][k] : k \in i..Len(cfg.succ[node])} = {}
      BY <1>3, Remaining DEF EndExpand, TypeOK
    <3>2. QED
      BY <1>3, <3>1 DEF EndExpand, Ahead
  <2>2. FrontierIsQueued'
    BY <1>3, <2>1 DEF EndExpand, FrontierIsQueued, Succ
  <2>3. MarkedIsReachable'
    BY <1>3 DEF EndExpand, MarkedIsReachable, ClosedUnderFlow, Succ
  <2>4. QED
    BY <1>0, <1>3, <2>2, <2>3 DEF EndExpand, QueuedIsMarked, ChecksComeLast
<1>4. ASSUME CheckUnreachableStatements \/ CheckFiniteLengthReturn
      PROVE  IInv'
  <2>1. UNCHANGED <<in, q>> /\ pc # "expand" /\ pc' # "expand" /\ q = << >>
    BY <1>4 DEF CheckUnreachableStatements, CheckFiniteLengthReturn, ChecksComeLast
  <2>2. QueuedIsMarked'
    BY <2>1 DEF QueuedIsMarked
  <2>3. MarkedIsReachable'
    BY <2>1 DEF MarkedIsReachable, ClosedUnderFlow, Succ
  <2>4. FrontierIsQueued'
    BY <2>1 DEF FrontierIsQueued, Ahead, Succ
  <2>5. ChecksComeLast'
    BY <1>4, <2>1 DEF CheckUnreachableStatements, CheckFiniteLengthReturn,
                      ChecksComeLast, UnreachableStatement
  <2>6. QED
    BY <1>0, <2>2, <2>3, <2>4, <2>5
<1>5. CASE UNCHANGED vars
  <2>1. FrontierIsQueued'
    BY <1>5 DEF vars, FrontierIsQueued, Ahead, Succ
  <2>2. MarkedIsReachable'
    BY <1>5 DEF vars, MarkedIsReachable, ClosedUnderFlow, Succ
  <2>3. QED
    BY <1>0, <1>5, <2>1, <2>2 DEF vars, QueuedIsMarked, ChecksComeLast, UnreachableStatement
<1>6. QED
  BY <1>1, <1>2, <1>3, <1>4, <1>5 DEF Next

LEMMA IInvIsInvariant == Spec => []IInv
<1>1. QED
  BY InitEstablishesIInv, StepKeepsIInv, PTL DEF Spec

\* The search never marks a node that control cannot reach.
THEOREM MarksOnlyReachable == Spec => []MarkedIsReachable
<1>1. IInv => MarkedIsReachable
  BY DEF IInv
<1>2. QED
  BY <1>1, IInvIsInvariant, PTL

\* The search never forgets a marked node whose successors are unmarked.
THEOREM ForgetsNoFrontier == Spec => []FrontierIsQueued
<1>1. IInv => FrontierIsQueued
  BY DEF IInv
<1>2. QED
  BY <1>1, IInvIsInvariant, PTL
-----------------------------------------------------------------------------
\* Once the queue is empty the marked nodes are the reachable nodes: they are
\* closed under control flow, so no reachable node is missing.
LEMMA SearchIsComplete ==
  ASSUME IInv, q = << >>, pc # "expand"
  PROVE  {n \in cfg.nodes : in[n]} = Reachable(cfg)
<1> DEFINE marked == {n \in cfg.nodes : in[n]}
<1> USE GraphIsWellFormed DEF IInv
<1>1. marked \subseteq Reachable(cfg)
  BY DEF MarkedIsReachable, Reachable
<1>2. ClosedUnderFlow(cfg, marked)
  <2>1. cfg.entry \in marked
    BY DEF FrontierIsQueued
  <2>2. ASSUME NEW m \in marked \ cfg.returns, NEW s \in Succ(cfg, m)
        PROVE  s \in marked
    <3>1. m \notin Range(q) /\ Ahead(m) = {}
      BY DEF Range, Ahead
    <3>2. QED
      BY <2>2, <3>1 DEF FrontierIsQueued
  <2>3. QED
    BY <2>1, <2>2 DEF ClosedUnderFlow
<1>3. QED
  BY <1>1, <1>2 DEF Reachable

\* Every execution of the search is one of the check that knows the reachable
\* nodes: it implements MethodBodyCheck.
THEOREM ImplementsMethodBodyCheck == Spec => DecidesReachability
<1>1. Init => Promised!Init
  <2>1. \A g, n : Promised!Succ(g, n) = Succ(g, n) /\ Promised!Pred(g, n) = Pred(g, n)
    BY DEF Promised!Succ, Succ, Promised!Pred, Pred, Promised!Range, Range
  <2>2. Init => IsCFG(cfg) /\ result = "pending"
    BY CFGsAssumption DEF Init
  <2>3. IsCFG(cfg) => Promised!IsCFG(cfg)
    <3>1. IsFiniteSet(cfg.nodes) => Promised!IsFiniteSet(cfg.nodes)
      BY DEF IsFiniteSet, Promised!IsFiniteSet
    <3>2. QED
      BY ONLY <2>1, <3>1, Zenon DEF IsCFG, Promised!IsCFG
  <2>4. QED
    BY <2>2, <2>3 DEF Promised!Init
<1>2. IInv /\ [Next]_vars => [Promised!Decide]_<<cfg, result>>
  <2> SUFFICES ASSUME IInv, [Next]_vars
               PROVE  [Promised!Decide]_<<cfg, result>>
    OBVIOUS
  <2> USE GraphIsWellFormed, GraphIsFixed DEF IInv
  <2>1. Promised!Reachable(cfg) = Reachable(cfg)
    <3>1. \A n : Promised!Succ(cfg, n) = Succ(cfg, n)
      BY DEF Promised!Succ, Succ, Promised!Range, Range
    <3>2. \A S : Promised!ClosedUnderFlow(cfg, S) <=> ClosedUnderFlow(cfg, S)
      BY <3>1 DEF Promised!ClosedUnderFlow, ClosedUnderFlow
    <3>3. QED
      BY <3>2 DEF Promised!Reachable, Reachable
  <2>2. ASSUME q = << >>, pc # "expand"
        PROVE  \A n \in cfg.nodes : in[n] <=> n \in Reachable(cfg)
    BY <2>2, SearchIsComplete DEF Reachable
  <2>3. CASE CheckUnreachableStatements
    <3>1. CASE UnreachableStatement
      <4>1. result = "pending" /\ result' = "unreachable"
        BY <2>3, <3>1 DEF CheckUnreachableStatements, ChecksComeLast
      <4>2. Promised!Verdict(cfg) = "unreachable"
        BY <2>1, <2>2, <2>3, <3>1 DEF CheckUnreachableStatements, Promised!Verdict,
                                      UnreachableStatement
      <4>3. QED
        BY <2>1, <4>1, <4>2 DEF Promised!Decide
    <3>2. CASE ~UnreachableStatement
      BY <2>3, <3>2 DEF CheckUnreachableStatements
    <3>3. QED
      BY <3>1, <3>2
  <2>4. CASE CheckFiniteLengthReturn
    <3>1. result = "pending" /\ q = << >> /\ pc # "expand" /\ ~UnreachableStatement
      BY <2>4 DEF CheckFiniteLengthReturn, ChecksComeLast
    <3>2. result' = Promised!Verdict(cfg)
      BY <2>1, <2>2, <2>4, <3>1 DEF CheckFiniteLengthReturn, Promised!Verdict,
                                    UnreachableStatement
    <3>3. QED
      BY <2>1, <3>1, <3>2 DEF Promised!Decide
  <2>5. CASE Visit \/ Expand \/ EndExpand \/ UNCHANGED vars
    BY <2>5 DEF Visit, Expand, EndExpand, vars
  <2>6. QED
    BY <2>3, <2>4, <2>5 DEF Next
<1>3. QED
  BY <1>1, <1>2, IInvIsInvariant, PTL DEF Spec, DecidesReachability, Promised!Spec
-----------------------------------------------------------------------------
(***************************************************************************)
(* Why the search ends on every graph.  A mark is never taken back, and a  *)
(* step that sets none brings the end of the loop it is in nearer.         *)
(***************************************************************************)
Marked == {n \in cfg.nodes : in[n]}

\* What is left of the loop over a node's successors, or of the checks.
LeftHere ==
  IF pc = "done" THEN 0
  ELSE IF pc = "return" THEN 1
  ELSE IF pc = "visit" THEN 2
  ELSE 3 + (Len(cfg.succ[node]) + 1 - i)

InReach == pc = "expand" => i <= Len(cfg.succ[node]) + 1

ReachInv == IInv /\ InReach

LEMMA ReachInvIsInvariant == Spec => []ReachInv
<1>1. Init => ReachInv
  BY InitEstablishesIInv DEF Init, ReachInv, InReach
<1>2. ReachInv /\ [Next]_vars => ReachInv'
  <2> SUFFICES ASSUME ReachInv, [Next]_vars
               PROVE  ReachInv'
    OBVIOUS
  <2>1. IInv' /\ TypeOK /\ TypeOK' /\ cfg' = cfg
    BY StepKeepsIInv, GraphIsFixed DEF ReachInv, IInv
  <2>2. /\ cfg.succ[node] \in Seq(cfg.nodes) /\ cfg'.succ[node'] \in Seq(cfg'.nodes)
        /\ i \in Nat \ {0}
    BY <2>1, GraphIsWellFormed DEF TypeOK
  <2>3. InReach'
    BY <2>1, <2>2 DEF ReachInv, InReach, Next, vars, Visit, StartExpansion, Expand, EndExpand,
                      CheckUnreachableStatements, CheckFiniteLengthReturn
  <2>4. QED
    BY <2>1, <2>3 DEF ReachInv
<1>3. QED
  BY <1>1, <1>2, PTL DEF Spec

\* A step marks a node, or takes one from the queue, or brings the end of the
\* loop nearer.
Advances ==
  /\ Marked \subseteq Marked'
  /\ Marked' = Marked =>
       \/ Len(q) \in Nat /\ Len(q') \in Nat /\ Len(q') < Len(q)
       \/ q' = q /\ LeftHere \in Nat /\ LeftHere' \in Nat /\ LeftHere' < LeftHere

\* The search cannot go on for ever on any graph, loops and all: each step marks
\* one more of its finitely many nodes, or shortens the queue, or brings the end
\* of the loop over one node's successors nearer.
THEOREM SearchAdvances == Spec => [][Advances]_vars
<1>1. ASSUME ReachInv, Next
      PROVE  Advances
  <2>1. cfg' = cfg /\ TypeOK /\ TypeOK' /\ InReach
    BY <1>1, StepKeepsTypeOK, GraphIsFixed DEF ReachInv, IInv
  <2>2. /\ q \in Seq(cfg.nodes) /\ q' \in Seq(cfg.nodes)
        /\ cfg.succ[node] \in Seq(cfg.nodes) /\ i \in Nat \ {0}
        /\ in \in [cfg.nodes -> BOOLEAN]
    BY <2>1, GraphIsWellFormed DEF TypeOK
  <2>3. CASE Visit
    <3>1. Marked' = Marked /\ q # << >> /\ q' = Tail(q)
      BY <2>1, <2>3 DEF Visit, Marked
    <3>2. Len(q') < Len(q) /\ Len(q) \in Nat /\ Len(q') \in Nat
      BY <2>2, <3>1
    <3>3. QED
      BY <3>1, <3>2 DEF Advances
  <2>4. CASE Expand
    <3> DEFINE successor == cfg.succ[node][i]
               todo == Len(cfg.succ[node])
    <3>1. successor \in cfg.nodes
      BY <2>2, <2>4, Remaining DEF Expand
    <3>2. CASE in[successor]
      <4>1. in' = in /\ q' = q
        BY <2>4, <3>2 DEF Expand, Meet
      <4>2. LeftHere = 3 + (todo + 1 - i) /\ LeftHere' = 3 + (todo + 1 - (i + 1))
        BY <2>1, <2>4 DEF Expand, LeftHere
      <4>3. todo \in Nat /\ i \in Nat /\ i <= todo
        BY <2>2, <2>4 DEF Expand
      <4> HIDE DEF todo
      <4>4. LeftHere \in Nat /\ LeftHere' \in Nat /\ LeftHere' < LeftHere
        BY <4>2, <4>3
      <4>5. QED
        BY <2>1, <4>1, <4>4 DEF Advances, Marked
    <3>3. CASE ~in[successor]
      <4>1. in' = [in EXCEPT ![successor] = TRUE]
        BY <2>4, <3>3 DEF Expand, Meet
      <4>2. successor \in Marked' /\ successor \notin Marked /\ Marked \subseteq Marked'
        BY <2>1, <2>2, <3>1, <3>3, <4>1 DEF Marked
      <4>3. QED
        BY <4>2 DEF Advances
    <3>4. QED
      BY <3>2, <3>3
  <2>5. CASE EndExpand
    <3> DEFINE todo == Len(cfg.succ[node])
    <3>1. /\ LeftHere = 3 + (todo + 1 - i) /\ LeftHere' = 2
          /\ in' = in /\ q' = q
      BY <2>5 DEF EndExpand, LeftHere
    <3>2. todo \in Nat /\ i \in Nat /\ i <= todo + 1
      BY <2>1, <2>2, <2>5 DEF EndExpand, InReach
    <3> HIDE DEF todo
    <3>3. LeftHere \in Nat /\ LeftHere' \in Nat /\ LeftHere' < LeftHere
      BY <3>1, <3>2
    <3>4. QED
      BY <2>1, <3>1, <3>3 DEF Advances, Marked
  <2>6. CASE CheckUnreachableStatements \/ CheckFiniteLengthReturn
    <3>1. in' = in /\ q' = q
      BY <2>6 DEF CheckUnreachableStatements, CheckFiniteLengthReturn
    <3>2. LeftHere \in Nat /\ LeftHere' \in Nat /\ LeftHere' < LeftHere
      BY <2>6 DEF CheckUnreachableStatements, CheckFiniteLengthReturn, LeftHere
    <3>3. QED
      BY <2>1, <3>1, <3>2 DEF Advances, Marked
  <2>7. QED
    BY <1>1, <2>3, <2>4, <2>5, <2>6 DEF Next
<1>2. QED
  BY <1>1, ReachInvIsInvariant, PTL DEF Spec
=============================================================================
