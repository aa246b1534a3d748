------------------------- MODULE LiveVariableProofs -------------------------
(***************************************************************************)
(* For every set of well-formed control flow graphs, the                   *)
(* worklist of LiveVariableAnalysis solves the liveness equations with the *)
(* least solution, whatever order it starts with, and the verdict is the   *)
(* one DeadAssignmentCheck promises; the sets only grow, and each step     *)
(* brings the search closer to its end.                                    *)
(***************************************************************************)
EXTENDS LiveVariableAnalysis, WorklistLemmas, FiniteSetTheorems

\* The graph of a typed state is one the builder can hand out.
LEMMA GraphIsWellFormed ==
  ASSUME cfg \in CFGs
  PROVE  /\ IsFiniteSet(cfg.nodes)
         /\ cfg.entry \in cfg.nodes /\ cfg.end \in cfg.nodes
         /\ cfg.pred \in [cfg.nodes -> Seq(cfg.nodes)]
         /\ cfg.use \in [cfg.nodes -> SUBSET Variables]
         /\ cfg.def \in [cfg.nodes -> SUBSET Variables]
         /\ cfg.use[cfg.end] = {}
         /\ Succ(cfg, cfg.end) = {}
         /\ \A n \in cfg.nodes : Succ(cfg, n) \subseteq cfg.nodes
         /\ \A m, n \in cfg.nodes : n \in Succ(cfg, m) <=> m \in Pred(cfg, n)
<1>1. /\ IsCFG(cfg)
      /\ cfg.use \in [cfg.nodes -> SUBSET Variables]
      /\ cfg.def \in [cfg.nodes -> SUBSET Variables]
      /\ cfg.use[cfg.end] = {}
  BY CFGsAssumption
<1>2. \A n \in cfg.nodes : cfg.succ[n] \in Seq(cfg.nodes)
  BY <1>1 DEF IsCFG
<1>3. \A n \in cfg.nodes : Succ(cfg, n) \subseteq cfg.nodes
  BY <1>2 DEF Range, Succ
<1>4. Succ(cfg, cfg.end) = {}
  BY <1>1 DEF IsCFG, Succ, Range
<1>5. QED
  BY <1>1, <1>3, <1>4 DEF IsCFG

\* No step changes the method under analysis.
LEMMA GraphIsFixed ==
  ASSUME [Next]_vars
  PROVE  cfg' = cfg
BY DEF Next, vars, Solve, Propagate, EndPropagate, CheckAssignments

\* An order of a hash map lists every element once.
LEMMA OrdersAreInjective ==
  ASSUME NEW S, IsFiniteSet(S), NEW s \in Orders(S)
  PROVE  s \in Seq(S) /\ Range(s) = S /\ IsInjective(s)
<1> DEFINE D == 1..Cardinality(S)
<1>1. Cardinality(S) \in Nat
  BY FS_CardinalityType
<1>2. s \in [D -> S] /\ Range(s) = S
  BY DEF Orders
<1>3. s \in Seq(S)
  BY <1>1, <1>2
<1>4. s \in Surjection(D, S)
  BY <1>2 DEF Range, Surjection
<1>5. IsFiniteSet(D) /\ Cardinality(D) = Cardinality(S)
  BY <1>1, FS_Interval
<1>6. s \in Injection(D, S)
  BY <1>4, <1>5, FS_Surjection
<1>7. QED
  BY <1>2, <1>3, <1>6 DEF Injection

\* What the equations make of typed sets.
LEMMA EquationsAreTyped ==
  ASSUME TypeOK, NEW n \in cfg.nodes
  PROVE  /\ OutEquation(n) \in SUBSET Variables
         /\ \A V \in SUBSET Variables : InEquation(n, V) \in SUBSET Variables
<1>1. \A s \in Succ(cfg, n) : in[s] \in SUBSET Variables
  BY GraphIsWellFormed DEF TypeOK
<1>2. OutEquation(n) \in SUBSET Variables
  BY <1>1 DEF OutEquation
<1>3. cfg.use[n] \in SUBSET Variables
  BY GraphIsWellFormed DEF TypeOK
<1>4. QED
  BY <1>2, <1>3 DEF InEquation

\* The initial queue: every node but the sentinel, once.
LEMMA InitialQueue ==
  ASSUME Init
  PROVE  /\ q \in Seq(cfg.nodes)
         /\ Range(q) = cfg.nodes \ {cfg.end}
         /\ IsInjective(q)
<1> DEFINE S == cfg.nodes \ {cfg.end}
<1>1. IsFiniteSet(cfg.nodes)
  BY GraphIsWellFormed DEF Init
<1>2. IsFiniteSet(S)
  BY <1>1, FS_RemoveElement
<1>3. q \in Seq(S) /\ Range(q) = S /\ IsInjective(q)
  BY <1>2, OrdersAreInjective DEF Init
<1>4. QED
  BY <1>3

LEMMA InitEstablishesTypeOK == Init => TypeOK
<1> SUFFICES ASSUME Init
             PROVE  TypeOK
  OBVIOUS
<1> USE GraphIsWellFormed
<1>1. q \in Seq(cfg.nodes)
  BY InitialQueue
<1>2. QED
  BY <1>1 DEF Init, TypeOK

LEMMA StepKeepsTypeOK == TypeOK /\ [Next]_vars => TypeOK'
<1> SUFFICES ASSUME TypeOK, [Next]_vars
             PROVE  TypeOK'
  OBVIOUS
<1> USE GraphIsFixed
<1>1. CASE Solve
  <2> DEFINE n == Head(q)
  <2>1. n \in cfg.nodes /\ Tail(q) \in Seq(cfg.nodes)
    BY <1>1, RangeHeadTail DEF Solve, TypeOK
  <2>2. /\ OutEquation(n) \in SUBSET Variables
        /\ InEquation(n, OutEquation(n)) \in SUBSET Variables
    BY <2>1, EquationsAreTyped
  <2>3. /\ in' \in [cfg.nodes -> SUBSET Variables]
        /\ out' \in [cfg.nodes -> SUBSET Variables]
    BY <1>1, <2>1, <2>2 DEF Solve, TypeOK
  <2>4. QED
    BY <1>1, <2>1, <2>3 DEF Solve, StartPropagation, LeaveQueue, TypeOK
<1>2. CASE Propagate
  <2>1. cfg.pred[node] \in Seq(cfg.nodes)
    BY GraphIsWellFormed DEF TypeOK
  <2>2. cfg.pred[node][i] \in cfg.nodes
    BY <1>2, <2>1, Remaining DEF Propagate, TypeOK
  <2>3. Append(q, cfg.pred[node][i]) \in Seq(cfg.nodes)
    BY <2>2, RangeAppend DEF TypeOK
  <2>4. i + 1 \in Nat \ {0}
    BY DEF TypeOK
  <2>5. QED
    BY <1>2, <2>2, <2>3, <2>4 DEF Propagate, TypeOK
<1>3. CASE EndPropagate
  BY <1>3 DEF EndPropagate, TypeOK
<1>4. CASE CheckAssignments
  BY <1>4 DEF CheckAssignments, TypeOK
<1>5. CASE UNCHANGED vars
  BY <1>5 DEF vars, TypeOK
<1>6. QED
  BY <1>1, <1>2, <1>3, <1>4, <1>5 DEF Next

\* Type correctness: a node's sets hold only local variables, and the queue
\* only nodes.
THEOREM TypeCorrect == Spec => []TypeOK
<1>1. QED
  BY InitEstablishesTypeOK, StepKeepsTypeOK, PTL DEF Spec
-----------------------------------------------------------------------------
(***************************************************************************)
(* The inductive invariant.  That settled nodes solve their equations is   *)
(* kept because the node just changed has its predecessors, itself among   *)
(* them if it loops, ahead of it; that they get into the queue needs the   *)
(* queue and the set to agree.                                             *)
(***************************************************************************)
CheckComesLast ==
  /\ pc = "done" => q = << >>
  /\ pc # "done" => result = "pending"

IInv ==
  /\ TypeOK
  /\ QueueMatchesSet
  /\ SettledNodesSolveEquations
  /\ FoundLiveIsLive
  /\ CheckComesLast

LEMMA InitEstablishesIInv == Init => IInv
<1> SUFFICES ASSUME Init
             PROVE  IInv
  OBVIOUS
<1>1. TypeOK
  BY InitEstablishesTypeOK
<1> USE GraphIsWellFormed
<1>2. QueueMatchesSet
  BY InitialQueue DEF Init, QueueMatchesSet
<1>3. SettledNodesSolveEquations
  <2>1. Range(q) = cfg.nodes \ {cfg.end}
    BY <1>2 DEF Init, QueueMatchesSet
  <2>2. /\ out[cfg.end] = OutEquation(cfg.end)
        /\ in[cfg.end] = InEquation(cfg.end, out[cfg.end])
    BY DEF Init, OutEquation, InEquation
  <2>3. QED
    BY <2>1, <2>2 DEF SettledNodesSolveEquations
<1>4. FoundLiveIsLive
  BY DEF Init, FoundLiveIsLive
<1>5. CheckComesLast
  BY DEF Init, CheckComesLast
<1>6. QED
  BY <1>1, <1>2, <1>3, <1>4, <1>5 DEF IInv

LEMMA StepKeepsIInv == IInv /\ [Next]_vars => IInv'
<1> SUFFICES ASSUME IInv, [Next]_vars
             PROVE  IInv'
  OBVIOUS
<1>0. TypeOK'
  BY StepKeepsTypeOK DEF IInv
<1> USE GraphIsFixed DEF IInv
<1>1. CASE Solve
  <2> DEFINE n == Head(q)
             new == InEquation(n, OutEquation(n))
  <2>1. /\ n \in cfg.nodes
        /\ Range(q) = {n} \cup Range(q')
        /\ n \notin Range(q') /\ IsInjective(q')
    BY <1>1, RangeHeadTail DEF Solve, TypeOK, QueueMatchesSet
  <2>2. /\ \A m \in cfg.nodes : m # n => in'[m] = in[m] /\ out'[m] = out[m]
        /\ in'[n] = new /\ out'[n] = OutEquation(n)
        /\ node' = n /\ i' = 1
        /\ pc' = IF new # in[n] THEN "propagate" ELSE "solve"
    BY <1>1, <2>1 DEF Solve, StartPropagation, Changed, TypeOK
  <2>3. QueueMatchesSet'
    BY <1>1, <2>1 DEF Solve, LeaveQueue, QueueMatchesSet
  <2>4. SettledNodesSolveEquations'
    <3>1. new # in[n] => Ahead' = Pred(cfg, n)
      <4>1. cfg.pred[n] \in Seq(cfg.nodes) /\ 1 \in Nat \ {0}
        BY <2>1, GraphIsWellFormed DEF TypeOK
      <4>2. {cfg.pred[n][k] : k \in 1..Len(cfg.pred[n])} = Pred(cfg, n)
        BY ONLY <4>1, Remaining DEF Pred
      <4>3. QED
        BY <2>2, <4>2 DEF Ahead
    <3>2. ASSUME NEW m \in cfg.nodes, m \notin Range(q'), m \notin Ahead'
          PROVE  /\ out'[m] = OutEquation(m)'
                 /\ in'[m] = InEquation(m, out'[m])
      <4>1. \A s \in Succ(cfg, m) : in'[s] = in[s]
        <5>1. CASE new = in[n]
          BY <2>1, <2>2, <3>2, <5>1, GraphIsWellFormed DEF TypeOK
        <5>2. CASE new # in[n]
          <6>1. n \notin Succ(cfg, m)
            BY <2>1, <3>1, <3>2, <5>2, GraphIsWellFormed DEF TypeOK
          <6>2. QED
            BY <2>2, <3>2, <6>1, GraphIsWellFormed DEF TypeOK
        <5>3. QED
          BY <5>1, <5>2
      <4>2. OutEquation(m)' = OutEquation(m)
        BY <4>1 DEF OutEquation, Succ
      <4>3. CASE m = n
        BY <2>2, <4>2, <4>3
      <4>4. CASE m # n
        <5>1. m \notin Range(q) /\ Ahead = {}
          BY <1>1, <2>1, <3>2, <4>4 DEF Solve, Ahead
        <5>2. out[m] = OutEquation(m) /\ in[m] = InEquation(m, out[m])
          BY <3>2, <5>1 DEF SettledNodesSolveEquations
        <5>3. QED
          BY <2>2, <3>2, <4>2, <4>4, <5>2
      <4>5. QED
        BY <4>3, <4>4
    <3>3. QED
      BY <3>2 DEF SettledNodesSolveEquations, InEquation
  <2>5. FoundLiveIsLive'
    <3>1. ASSUME NEW v \in Variables, NEW S \in SUBSET cfg.nodes, Saturated(cfg, v, S)
          PROVE  /\ v \in new => n \in S
                 /\ v \in OutEquation(n) => Succ(cfg, n) \cap S # {}
      <4>1. v \in OutEquation(n) => Succ(cfg, n) \cap S # {}
        <5>1. Succ(cfg, n) \subseteq cfg.nodes
          BY <2>1, GraphIsWellFormed DEF TypeOK
        <5>2. \A s \in Succ(cfg, n) : v \in in[s] => s \in S
          BY <3>1, <5>1 DEF FoundLiveIsLive
        <5>3. QED
          BY <5>2 DEF OutEquation
      <4>2. v \in new => v \in cfg.use[n] \/ (v \notin cfg.def[n] /\ v \in OutEquation(n))
        BY DEF InEquation
      <4>3. QED
        BY <2>1, <3>1, <4>1, <4>2 DEF Saturated
    <3>2. ASSUME NEW v \in Variables, NEW S \in SUBSET cfg.nodes, Saturated(cfg, v, S),
                 NEW m \in cfg.nodes
          PROVE  /\ v \in in'[m] => m \in S
                 /\ v \in out'[m] => Succ(cfg, m) \cap S # {}
      <4>1. CASE m = n
        BY <2>2, <3>1, <3>2, <4>1
      <4>2. CASE m # n
        BY <2>2, <3>2, <4>2 DEF FoundLiveIsLive
      <4>3. QED
        BY <4>1, <4>2
    <3>3. QED
      BY <3>2 DEF FoundLiveIsLive, Saturated, Succ
  <2>6. CheckComesLast'
    BY <1>1 DEF Solve, CheckComesLast
  <2>7. QED
    BY <1>0, <2>3, <2>4, <2>5, <2>6
<1>2. CASE Propagate
  <2> DEFINE pred == cfg.pred[node][i]
  <2>1. cfg.pred[node] \in Seq(cfg.nodes) /\ i \in Nat \ {0} /\ i <= Len(cfg.pred[node])
    BY <1>2, GraphIsWellFormed DEF Propagate, TypeOK
  <2>2. /\ pred \in cfg.nodes
        /\ {cfg.pred[node][k] : k \in i..Len(cfg.pred[node])}
             = {pred} \cup {cfg.pred[node][k] : k \in (i + 1)..Len(cfg.pred[node])}
    BY ONLY <2>1, Remaining
  <2>3. Ahead = {pred} \cup Ahead'
    BY <1>2, <2>2 DEF Propagate, Ahead
  <2>4. /\ Range(Append(q, pred)) = Range(q) \cup {pred}
        /\ pred \notin Range(q) => IsInjective(Append(q, pred))
    BY <2>2, RangeAppend DEF TypeOK, QueueMatchesSet
  <2>5. QueueMatchesSet' /\ Range(q') = Range(q) \cup {pred}
    <3>1. CASE pred \in inQ
      BY <1>2, <3>1 DEF Propagate, QueueMatchesSet
    <3>2. CASE pred \notin inQ
      BY <1>2, <2>4, <3>2 DEF Propagate, QueueMatchesSet
    <3>3. QED
      BY <3>1, <3>2
  <2>6. UNCHANGED <<in, out>>
    BY <1>2 DEF Propagate
  <2>7. SettledNodesSolveEquations'
    BY <2>3, <2>5, <2>6 DEF SettledNodesSolveEquations, OutEquation, InEquation, Succ
  <2>8. FoundLiveIsLive'
    BY <2>6 DEF FoundLiveIsLive, Saturated, Succ
  <2>9. QED
    BY <1>0, <1>2, <2>5, <2>7, <2>8 DEF Propagate, CheckComesLast
<1>3. ASSUME EndPropagate \/ CheckAssignments \/ UNCHANGED vars
      PROVE  IInv'
  <2>1. UNCHANGED <<in, out, q, inQ>>
    BY <1>3 DEF EndPropagate, CheckAssignments, vars
  <2>2. Ahead' = Ahead
    <3>1. CASE EndPropagate
      <4>1. cfg.pred[node] \in Seq(cfg.nodes) /\ i \in Nat \ {0} /\ i > Len(cfg.pred[node])
        BY <3>1, GraphIsWellFormed DEF EndPropagate, TypeOK
      <4>2. {cfg.pred[node][k] : k \in i..Len(cfg.pred[node])} = {}
        BY ONLY <4>1, Remaining
      <4>3. QED
        BY <3>1, <4>2 DEF EndPropagate, Ahead
    <3>2. CASE CheckAssignments \/ UNCHANGED vars
      BY <3>2 DEF CheckAssignments, vars, Ahead
    <3>3. QED
      BY <1>3, <3>1, <3>2
  <2>3. QueueMatchesSet'
    BY <2>1 DEF QueueMatchesSet
  <2>4. SettledNodesSolveEquations'
    BY <2>1, <2>2 DEF SettledNodesSolveEquations, OutEquation, InEquation, Succ
  <2>5. FoundLiveIsLive'
    BY <2>1 DEF FoundLiveIsLive, Saturated, Succ
  <2>6. CheckComesLast'
    BY <1>3 DEF EndPropagate, CheckAssignments, vars, CheckComesLast
  <2>7. QED
    BY <1>0, <2>3, <2>4, <2>5, <2>6
<1>4. QED
  BY <1>1, <1>2, <1>3 DEF Next

LEMMA IInvIsInvariant == Spec => []IInv
<1>1. QED
  BY InitEstablishesIInv, StepKeepsIInv, PTL DEF Spec

\* The set that guards the queue and the queue itself never disagree.
THEOREM QueueAgreesWithSet == Spec => []QueueMatchesSet
<1>1. IInv => QueueMatchesSet
  BY DEF IInv
<1>2. QED
  BY <1>1, IInvIsInvariant, PTL

\* No change of a node's live variables goes unnoticed by its predecessors.
THEOREM NoChangeUnnoticed == Spec => []SettledNodesSolveEquations
<1>1. IInv => SettledNodesSolveEquations
  BY DEF IInv
<1>2. QED
  BY <1>1, IInvIsInvariant, PTL

\* No variable is ever found live where it is not.
THEOREM FindsOnlyLive == Spec => []FoundLiveIsLive
<1>1. IInv => FoundLiveIsLive
  BY DEF IInv
<1>2. QED
  BY <1>1, IInvIsInvariant, PTL
-----------------------------------------------------------------------------
\* Once the queue is empty the variables found live behind a node are those
\* live there: the nodes where v is found live are saturated for v.
LEMMA SolutionIsLeast ==
  ASSUME IInv, q = << >>, pc # "propagate",
         NEW v \in Variables, NEW n \in cfg.nodes
  PROVE  v \in out[n] <=> n \in LiveOut(cfg, v)
<1> USE GraphIsWellFormed DEF IInv, TypeOK
<1> DEFINE L == {m \in cfg.nodes : v \in in[m]}
<1>1. \A m \in cfg.nodes : out[m] = OutEquation(m) /\ in[m] = InEquation(m, out[m])
  BY DEF SettledNodesSolveEquations, Ahead, Range
<1>2. \A m \in cfg.nodes : v \in out[m] <=> Succ(cfg, m) \cap L # {}
  BY <1>1 DEF OutEquation
<1>3. Saturated(cfg, v, L)
  BY <1>1, <1>2 DEF Saturated, InEquation
<1>4. LiveIn(cfg, v) = L
  BY <1>3 DEF LiveIn, FoundLiveIsLive
<1>5. QED
  BY <1>2, <1>4 DEF LiveOut

\* Every execution of the worklist, from any order of the nodes, is one of the
\* check that knows where variables are live.
THEOREM ImplementsDeadAssignmentCheck == Spec => DecidesLiveness
<1>1. Init => Promised!Init
  <2>1. \A g, n : Promised!Succ(g, n) = Succ(g, n) /\ Promised!Pred(g, n) = Pred(g, n)
    BY DEF Promised!Succ, Succ, Promised!Pred, Pred, Promised!Range, Range
  <2>2. Init => IsCFG(cfg) /\ result = "pending"
    BY CFGsAssumption DEF Init
  <2>3. IsCFG(cfg) => Promised!IsCFG(cfg)
    <3>1. IsFiniteSet(cfg.nodes) => Promised!IsFiniteSet(cfg.nodes)
      BY DEF IsFiniteSet, Promised!IsFiniteSet
    <3>2. QED
      BY ONLY <2>1, <3>1, Zenon DEF IsCFG, Promised!IsCFG
  <2>4. QED
    BY <2>2, <2>3 DEF Promised!Init
<1>2. IInv /\ [Next]_vars => [Promised!Decide]_<<cfg, result>>
  <2> SUFFICES ASSUME IInv, [Next]_vars
               PROVE  [Promised!Decide]_<<cfg, result>>
    OBVIOUS
  <2>1. \A v : Promised!LiveOut(cfg, v) = LiveOut(cfg, v)
    <3>1. \A n : Promised!Succ(cfg, n) = Succ(cfg, n)
      BY DEF Promised!Succ, Succ, Promised!Range, Range
    <3>2. \A v, S : Promised!Saturated(cfg, v, S) <=> Saturated(cfg, v, S)
      BY <3>1 DEF Promised!Saturated, Saturated
    <3>3. \A v : Promised!LiveIn(cfg, v) = LiveIn(cfg, v)
      BY <3>2 DEF Promised!LiveIn, LiveIn
    <3>4. QED
      BY <3>1, <3>3 DEF Promised!LiveOut, LiveOut
  <2>2. CASE CheckAssignments
    <3>1. q = << >> /\ pc # "propagate" /\ result = "pending" /\ cfg' = cfg
      BY <2>2 DEF CheckAssignments, IInv, CheckComesLast
    <3>2. \A n \in cfg.nodes : \A v \in cfg.def[n] :
            v \in out[n] <=> n \in LiveOut(cfg, v)
      BY <3>1, SolutionIsLeast, GraphIsWellFormed DEF IInv, TypeOK
    <3>3. DeadAssignment <=> Promised!HasDeadAssignment(cfg)
      BY <2>1, <3>2 DEF DeadAssignment, Promised!HasDeadAssignment
    <3>4. QED
      BY <2>1, <2>2, <3>1, <3>3 DEF CheckAssignments, Promised!Decide
  <2>3. CASE Solve \/ Propagate \/ EndPropagate \/ UNCHANGED vars
    BY <2>3 DEF Solve, Propagate, EndPropagate, vars
  <2>4. QED
    BY <2>2, <2>3 DEF Next
<1>3. QED
  BY <1>1, <1>2, IInvIsInvariant, PTL DEF Spec, DecidesLiveness, Promised!Spec
-----------------------------------------------------------------------------
(***************************************************************************)
(* Why the worklist runs dry.  The equations are monotone, so that what    *)
(* was found live stays so; and between two finds every iteration leaves   *)
(* less to do, the nodes it queues included.                               *)
(***************************************************************************)
\* Evaluating a node's equations again never takes anything back.
Ascending ==
  \A n \in cfg.nodes : /\ out[n] \subseteq OutEquation(n)
                       /\ in[n] \subseteq InEquation(n, OutEquation(n))

InReach == pc = "propagate" => i <= Len(cfg.pred[node]) + 1

GrowthInv == IInv /\ Ascending /\ InReach

LEMMA EquationsAreMonotone ==
  ASSUME GrowthInv, cfg' = cfg, TypeOK',
         \A n \in cfg.nodes : in[n] \subseteq in'[n],
         NEW n \in cfg.nodes
  PROVE  /\ OutEquation(n) \subseteq OutEquation(n)'
         /\ InEquation(n, OutEquation(n)) \subseteq InEquation(n, OutEquation(n))'
<1>1. Succ(cfg, n) \subseteq cfg.nodes /\ Succ(cfg, n)' = Succ(cfg, n)
  BY GraphIsWellFormed DEF GrowthInv, IInv, TypeOK, Succ
<1>2. OutEquation(n) \subseteq OutEquation(n)'
  BY <1>1 DEF OutEquation
<1>3. QED
  BY <1>2 DEF InEquation

\* What taking a node from the queue does to what is found.
LEMMA SolveAdds ==
  ASSUME GrowthInv, Solve
  PROVE  /\ Head(q) \in cfg.nodes
         /\ in'[Head(q)] = InEquation(Head(q), OutEquation(Head(q)))
         /\ out'[Head(q)] = OutEquation(Head(q))
         /\ \A n \in cfg.nodes : in[n] \subseteq in'[n] /\ out[n] \subseteq out'[n]
         /\ \A n \in cfg.nodes \ {Head(q)} : in'[n] = in[n] /\ out'[n] = out[n]
<1>1. Head(q) \in cfg.nodes
  BY RangeHeadTail DEF Solve, GrowthInv, IInv, TypeOK
<1>2. /\ in' = [in EXCEPT ![Head(q)] = InEquation(Head(q), OutEquation(Head(q)))]
      /\ out' = [out EXCEPT ![Head(q)] = OutEquation(Head(q))]
  BY DEF Solve
<1>3. in \in [cfg.nodes -> SUBSET Variables] /\ out \in [cfg.nodes -> SUBSET Variables]
  BY DEF GrowthInv, IInv, TypeOK
<1>4. /\ out[Head(q)] \subseteq OutEquation(Head(q))
      /\ in[Head(q)] \subseteq InEquation(Head(q), OutEquation(Head(q)))
  BY <1>1 DEF GrowthInv, Ascending
<1>5. QED
  BY <1>1, <1>2, <1>3, <1>4

LEMMA StepKeepsGrowthInv == GrowthInv /\ [Next]_vars => GrowthInv'
<1> SUFFICES ASSUME GrowthInv, [Next]_vars
             PROVE  GrowthInv'
  OBVIOUS
<1>1. IInv' /\ TypeOK' /\ cfg' = cfg
  BY StepKeepsIInv, GraphIsFixed DEF GrowthInv, IInv
<1>2. cfg.pred[node] \in Seq(cfg.nodes) /\ i \in Nat \ {0}
  BY GraphIsWellFormed DEF GrowthInv, IInv, TypeOK
<1>3. CASE Solve
  <2>1. \A n \in cfg.nodes : /\ OutEquation(n) \subseteq OutEquation(n)'
                             /\ InEquation(n, OutEquation(n)) \subseteq InEquation(n, OutEquation(n))'
    BY <1>1, <1>3, SolveAdds, EquationsAreMonotone
  <2>2. ASSUME NEW n \in cfg.nodes
        PROVE  /\ out'[n] \subseteq OutEquation(n)'
               /\ in'[n] \subseteq InEquation(n, OutEquation(n))'
    <3>1. /\ out[n] \subseteq OutEquation(n)
          /\ in[n] \subseteq InEquation(n, OutEquation(n))
      BY DEF GrowthInv, Ascending
    <3>2. QED
      BY <1>3, <2>1, <3>1, SolveAdds
  <2>3. Ascending'
    BY <1>1, <2>2 DEF Ascending, InEquation
  <2>4. InReach'
    <3>1. i' = 1 /\ cfg'.pred[node'] \in Seq(cfg'.nodes)
      BY <1>1, <1>3, GraphIsWellFormed DEF Solve, StartPropagation, TypeOK
    <3>2. QED
      BY <3>1 DEF InReach
  <2>5. QED
    BY <1>1, <2>3, <2>4 DEF GrowthInv
<1>4. CASE Propagate \/ EndPropagate \/ CheckAssignments \/ UNCHANGED vars
  <2>1. in' = in /\ out' = out
    BY <1>4 DEF Propagate, EndPropagate, CheckAssignments, vars
  <2>2. Ascending'
    BY <1>1, <2>1 DEF GrowthInv, Ascending, OutEquation, InEquation, Succ
  <2>3. InReach'
    BY <1>1, <1>2, <1>4
       DEF GrowthInv, InReach, Propagate, EndPropagate, CheckAssignments, vars
  <2>4. QED
    BY <1>1, <2>2, <2>3 DEF GrowthInv
<1>5. QED
  BY <1>3, <1>4 DEF Next

LEMMA GrowthInvIsInvariant == Spec => []GrowthInv
<1>1. Init => GrowthInv
  <2>1. Init => IInv
    BY InitEstablishesIInv
  <2>2. Init => Ascending /\ InReach
    BY DEF Init, Ascending, InReach
  <2>3. QED
    BY <2>1, <2>2 DEF GrowthInv
<1>2. QED
  BY <1>1, StepKeepsGrowthInv, PTL DEF Spec

\* The sets only ever grow: no variable that was found live in front of a node
\* or behind it is dropped when the node is evaluated again.
OnlyGrow == \A n \in cfg.nodes : in[n] \subseteq in'[n] /\ out[n] \subseteq out'[n]

LEMMA StepOnlyGrows == GrowthInv /\ [Next]_vars => OnlyGrow
<1> SUFFICES ASSUME GrowthInv, [Next]_vars
             PROVE  OnlyGrow
  OBVIOUS
<1>1. CASE Solve
  BY <1>1, SolveAdds DEF OnlyGrow
<1>2. CASE Propagate \/ EndPropagate \/ CheckAssignments \/ UNCHANGED vars
  BY <1>2 DEF OnlyGrow, Propagate, EndPropagate, CheckAssignments, vars
<1>3. QED
  BY <1>1, <1>2 DEF Next

THEOREM NothingFoundIsDropped == Spec => [][OnlyGrow]_vars
<1>1. GrowthInv /\ [Next]_vars => [OnlyGrow]_vars
  BY StepOnlyGrows
<1>2. QED
  BY <1>1, GrowthInvIsInvariant, PTL DEF Spec

Found == {pair \in cfg.nodes \X Variables : pair[2] \in in[pair[1]]}

\* The iterations left until something new is found, at most.
Left ==
  IF pc = "done" THEN 0
  ELSE IF pc = "solve" THEN 1 + Len(q)
  ELSE 2 + Len(q) + 2 * (Len(cfg.pred[node]) + 1 - i)

\* A step finds a variable live that was not, or brings the end nearer.
Advances == /\ Found \subseteq Found'
            /\ Found' = Found => Left \in Nat /\ Left' \in Nat /\ Left' < Left

\* The worklist cannot go on for ever on any graph with finitely many
\* variables: each step finds a live variable that was not found yet, or takes
\* one from a count of the steps left, whichever nodes it queues.
THEOREM WorklistAdvances == Spec => [][Advances]_vars
<1>1. ASSUME GrowthInv, Next
      PROVE  Advances
  <2>1. cfg' = cfg /\ TypeOK /\ TypeOK' /\ InReach
    BY <1>1, StepKeepsGrowthInv, GraphIsFixed DEF GrowthInv, IInv
  <2>2. Found \subseteq Found'
    BY <1>1, <2>1, StepOnlyGrows DEF OnlyGrow, Found
  <2>3. /\ q \in Seq(cfg.nodes) /\ q' \in Seq(cfg.nodes)
        /\ cfg.pred[node] \in Seq(cfg.nodes) /\ i \in Nat \ {0}
    BY <2>1, GraphIsWellFormed DEF TypeOK
  <2>4. CASE Solve
    <3>1. Len(q') = Len(q) - 1 /\ Len(q) \in Nat \ {0} /\ pc = "solve"
      BY <2>3, <2>4 DEF Solve
    <3>2. CASE ~Changed(Head(q), InEquation(Head(q), OutEquation(Head(q))))
      <4>1. pc' = "solve"
        BY <2>4, <3>2 DEF Solve
      <4>2. QED
        BY <2>2, <3>1, <4>1 DEF Left, Advances
    <3>3. CASE Changed(Head(q), InEquation(Head(q), OutEquation(Head(q))))
      <4>1. Head(q) \in cfg.nodes /\ in[Head(q)] \subseteq in'[Head(q)]
            /\ in[Head(q)] # in'[Head(q)]
        BY <1>1, <2>4, <3>3, SolveAdds DEF Changed
      <4>2. in'[Head(q)] \subseteq Variables
        BY <2>1, <4>1 DEF TypeOK
      <4>3. PICK v \in Variables : v \in in'[Head(q)] /\ v \notin in[Head(q)]
        BY <4>1, <4>2
      <4>4. <<Head(q), v>> \in Found' /\ <<Head(q), v>> \notin Found
        BY <2>1, <4>1, <4>3 DEF Found
      <4>5. QED
        BY <2>2, <4>4 DEF Advances
    <3>4. QED
      BY <3>2, <3>3
  <2>5. CASE Propagate
    <3>1. /\ pc = "propagate" /\ pc' = "propagate" /\ i' = i + 1 /\ node' = node
          /\ i <= Len(cfg.pred[node])
      BY <2>5 DEF Propagate
    <3>2. Len(q') \in Nat /\ Len(q) \in Nat /\ Len(q') <= Len(q) + 1
      BY <2>3, <2>5 DEF Propagate
    <3> DEFINE todo == Len(cfg.pred[node])
    <3>3. /\ Left = 2 + Len(q) + 2 * (todo + 1 - i)
          /\ Left' = 2 + Len(q') + 2 * (todo + 1 - (i + 1))
      BY <2>1, <3>1 DEF Left
    <3>4. todo \in Nat /\ i <= todo /\ i \in Nat
      BY <2>3, <3>1
    <3> HIDE DEF todo
    <3>5. Left \in Nat /\ Left' \in Nat /\ Left' < Left
      BY <3>2, <3>3, <3>4
    <3>6. QED
      BY <2>2, <3>5 DEF Advances
  <2>6. CASE EndPropagate
    <3>1. /\ pc = "propagate" /\ pc' = "solve" /\ q' = q
          /\ i > Len(cfg.pred[node]) /\ i <= Len(cfg.pred[node]) + 1
      BY <2>1, <2>6 DEF EndPropagate, InReach
    <3> DEFINE todo == Len(cfg.pred[node])
    <3>2. Left = 2 + Len(q) + 2 * (todo + 1 - i) /\ Left' = 1 + Len(q)
      BY <3>1 DEF Left
    <3>3. todo \in Nat /\ i <= todo + 1 /\ i \in Nat /\ Len(q) \in Nat
      BY <2>3, <3>1
    <3> HIDE DEF todo
    <3>4. Left \in Nat /\ Left' \in Nat /\ Left' < Left
      BY <3>2, <3>3
    <3>5. QED
      BY <2>2, <3>4 DEF Advances
  <2>7. CASE CheckAssignments
    <3>1. pc = "solve" /\ pc' = "done"
      BY <2>7 DEF CheckAssignments
    <3>2. Left \in Nat /\ Left' \in Nat /\ Left' < Left
      BY <2>3, <3>1 DEF Left
    <3>3. QED
      BY <2>2, <3>2 DEF Advances
  <2>8. QED
    BY <1>1, <2>4, <2>5, <2>6, <2>7 DEF Next
<1>2. QED
  BY <1>1, GrowthInvIsInvariant, PTL DEF Spec
=============================================================================
