-------------------------- MODULE CFGBuilderProofs --------------------------
(***************************************************************************)
(* The control flow graphs of CFGBuilder are the ones the analyses assume. *)
(* A loop condition the folder takes for constant has the value Java gives *)
(* it, with two exceptions, and one it knows all of it takes for constant  *)
(* just if Java does.  Where it knows the conditions, what control reaches *)
(* in the graph is what the Java rules say of the statements; with the     *)
(* search of ReachabilityAnalysis, the verdict on a method follows from    *)
(* its statements.  For every set of statements, every condition and every *)
(* size of words.                                                          *)
(***************************************************************************)
EXTENDS MethodBodies, ReachabilityProofs,
        FiniteSetTheorems, WellFoundedInduction, NaturalsInduction
-----------------------------------------------------------------------------
(***************************************************************************)
(* Regions of a graph. A statement is built into a set of nodes with one   *)
(* entry and one way out; what control reaches in it, and whether it gets  *)
(* to the way out, follows from the same facts about the parts.            *)
(***************************************************************************)
\* T is entered at entry, and control leaves it for exit only.
Closed(to, entry, exit, T) ==
  entry \in T /\ \A m \in T : to[m] \subseteq T \cup {exit}

\* W is what control reaches of N from entry, before it gets to exit.
Reached(to, N, entry, exit, W) ==
  /\ W \subseteq N
  /\ Closed(to, entry, exit, W)
  /\ \A T \in SUBSET N : Closed(to, entry, exit, T) => W \subseteq T

\* Control gets from W to exit.
Leaves(to, exit, W) == \E m \in W : exit \in to[m]

\* A piece of a graph, the nodes N: it is entered at entry and left for exit
\* only; control gets to exit just if completes, and misses a node of N just if
\* cutOff.
Region(to, N, entry, exit, completes, cutOff) ==
  /\ entry \in N /\ exit \notin N
  /\ \A m \in N : to[m] \subseteq N \cup {exit}
  /\ \E W : /\ Reached(to, N, entry, exit, W)
            /\ completes <=> Leaves(to, exit, W)
            /\ cutOff <=> W # N

\* Only the edges of its own nodes matter to a region.
LEMMA SameEdges ==
  ASSUME NEW to, NEW other, NEW N, NEW entry, NEW exit, NEW C, NEW B,
         \A m \in N : other[m] = to[m], Region(to, N, entry, exit, C, B)
  PROVE  Region(other, N, entry, exit, C, B)
<1>1. PICK W : /\ Reached(to, N, entry, exit, W)
               /\ C <=> Leaves(to, exit, W)
               /\ B <=> W # N
  BY DEF Region
<1>2. \A T \in SUBSET N : Closed(other, entry, exit, T) <=> Closed(to, entry, exit, T)
  BY DEF Closed
<1>3. W \in SUBSET N
  BY <1>1 DEF Reached
<1>4. Reached(other, N, entry, exit, W)
  BY <1>1, <1>2, <1>3 DEF Reached
<1>5. Leaves(other, exit, W) <=> Leaves(to, exit, W)
  BY <1>3 DEF Leaves
<1>6. QED
  BY <1>1, <1>4, <1>5 DEF Region

\* A node whose only way on, if any, is exit.
LEMMA SingleNode ==
  ASSUME NEW to, NEW m, NEW exit, m # exit, to[m] \subseteq {exit}
  PROVE  Region(to, {m}, m, exit, exit \in to[m], FALSE)
<1>1. Reached(to, {m}, m, exit, {m})
  BY DEF Reached, Closed
<1>2. QED
  BY <1>1 DEF Region, Leaves

\* Two regions, the first of which goes on to the second.
LEMMA OneAfterTheOther ==
  ASSUME NEW to, NEW N1, NEW N2, NEW e1, NEW e2, NEW exit, NEW C1, NEW C2, NEW B1, NEW B2,
         Region(to, N1, e1, e2, C1, B1), Region(to, N2, e2, exit, C2, B2),
         N1 \cap N2 = {}, exit \notin N1
  PROVE  Region(to, N1 \cup N2, e1, exit, C1 /\ C2, B1 \/ B2 \/ ~C1)
<1>1. PICK W1 : /\ Reached(to, N1, e1, e2, W1)
                /\ C1 <=> Leaves(to, e2, W1)
                /\ B1 <=> W1 # N1
  BY DEF Region
<1>2. PICK W2 : /\ Reached(to, N2, e2, exit, W2)
                /\ C2 <=> Leaves(to, exit, W2)
                /\ B2 <=> W2 # N2
  BY DEF Region
<1>3. /\ e1 \in N1 /\ e2 \in N2 /\ exit \notin N1 \cup N2
      /\ \A m \in N1 : to[m] \subseteq N1 \cup {e2}
      /\ \A m \in N2 : to[m] \subseteq N2 \cup {exit}
      /\ W1 \subseteq N1 /\ W2 \subseteq N2 /\ e1 \in W1 /\ e2 \in W2
      /\ \A m \in W1 : to[m] \subseteq W1 \cup {e2}
      /\ \A m \in W2 : to[m] \subseteq W2 \cup {exit}
  BY <1>1, <1>2 DEF Region, Reached, Closed
<1>4. \A m \in N1 : exit \notin to[m]
  BY <1>3
<1>5. ASSUME NEW T \in SUBSET (N1 \cup N2), Closed(to, e1, exit, T)
      PROVE  W1 \subseteq T /\ (Leaves(to, e2, W1) => W2 \subseteq T)
  <2>1. Closed(to, e1, e2, T \cap N1)
    BY <1>3, <1>4, <1>5 DEF Closed
  <2>2. T \cap N1 \in SUBSET N1 /\ T \cap N2 \in SUBSET N2
    OBVIOUS
  <2>3. W1 \subseteq T \cap N1
    BY <1>1, <2>1, <2>2 DEF Reached
  <2>4. ASSUME Leaves(to, e2, W1)
        PROVE  W2 \subseteq T
    <3>1. e2 \in T
      BY <1>3, <1>5, <2>3, <2>4 DEF Leaves, Closed
    <3>2. Closed(to, e2, exit, T \cap N2)
      BY <1>3, <1>5, <3>1 DEF Closed
    <3>3. QED
      BY <1>2, <2>2, <3>2 DEF Reached
  <2>5. QED
    BY <2>3, <2>4
<1>6. CASE Leaves(to, e2, W1)
  <2>1. Closed(to, e1, exit, W1 \cup W2)
    BY <1>3, <1>4 DEF Closed
  <2>2. Reached(to, N1 \cup N2, e1, exit, W1 \cup W2)
    BY <1>3, <1>5, <1>6, <2>1 DEF Reached
  <2>3. Leaves(to, exit, W1 \cup W2) <=> C2
    BY <1>2, <1>3, <1>4 DEF Leaves
  <2>4. W1 \cup W2 = N1 \cup N2 <=> W1 = N1 /\ W2 = N2
    BY <1>3
  <2>5. (C1 /\ C2 <=> Leaves(to, exit, W1 \cup W2)) /\ (B1 \/ B2 \/ ~C1 <=> W1 \cup W2 # N1 \cup N2)
    BY <1>1, <1>2, <1>6, <2>3, <2>4
  <2>6. QED
    BY <1>3, <2>2, <2>5 DEF Region
<1>7. CASE ~Leaves(to, e2, W1)
  <2>1. Closed(to, e1, exit, W1)
    BY <1>3, <1>7 DEF Closed, Leaves
  <2>2. Reached(to, N1 \cup N2, e1, exit, W1)
    BY <1>3, <1>5, <2>1 DEF Reached
  <2>3. ~Leaves(to, exit, W1) /\ W1 # N1 \cup N2
    BY <1>3, <1>4 DEF Leaves
  <2>5. (C1 /\ C2 <=> Leaves(to, exit, W1)) /\ (B1 \/ B2 \/ ~C1 <=> W1 # N1 \cup N2)
    BY <1>1, <1>7, <2>3
  <2>6. QED
    BY <1>3, <2>2, <2>5 DEF Region
<1>8. QED
  BY <1>6, <1>7

\* A node that goes on to a region or past it: an if without else.
LEMMA OneBranch ==
  ASSUME NEW to, NEW b, NEW N, NEW e, NEW exit, NEW C, NEW B,
         Region(to, N, e, exit, C, B), b \notin N, b # exit, to[b] = {e, exit}
  PROVE  Region(to, {b} \cup N, b, exit, TRUE, B)
<1>1. PICK W : /\ Reached(to, N, e, exit, W)
               /\ B <=> W # N
  BY DEF Region
<1>2. /\ e \in N /\ exit \notin N /\ W \subseteq N /\ e \in W
      /\ \A m \in N : to[m] \subseteq N \cup {exit}
      /\ \A m \in W : to[m] \subseteq W \cup {exit}
  BY <1>1 DEF Region, Reached, Closed
<1>3. ASSUME NEW T \in SUBSET ({b} \cup N), Closed(to, b, exit, T)
      PROVE  {b} \cup W \subseteq T
  <2>1. T \cap N \in SUBSET N /\ Closed(to, e, exit, T \cap N)
    BY <1>2, <1>3 DEF Closed
  <2>2. W \subseteq T
    BY <1>1, <2>1 DEF Reached
  <2>3. QED
    BY <1>3, <2>2 DEF Closed
<1>4. Closed(to, b, exit, {b} \cup W)
  BY <1>2 DEF Closed
<1>5. Reached(to, {b} \cup N, b, exit, {b} \cup W)
  BY <1>2, <1>3, <1>4 DEF Reached
<1>6. Leaves(to, exit, {b} \cup W) /\ (B <=> {b} \cup W # {b} \cup N)
  BY <1>1, <1>2 DEF Leaves
<1>7. QED
  BY <1>2, <1>5, <1>6 DEF Region

\* The node b goes on to the regions N1 and N2, which make up N with it.
Forks(to, b, N, N1, N2, e1, e2, exit) ==
  /\ N = {b} \cup N1 \cup N2
  /\ b \notin N1 \cup N2 /\ b # exit /\ N1 \cap N2 = {} /\ to[b] = {e1, e2}

\* A node that goes on to one of two regions: an if with else.
LEMMA TwoBranches ==
  ASSUME NEW to, NEW b, NEW N1, NEW N2, NEW e1, NEW e2, NEW exit, NEW N,
         NEW C1, NEW C2, NEW B1, NEW B2, Forks(to, b, N, N1, N2, e1, e2, exit),
         Region(to, N1, e1, exit, C1, B1), Region(to, N2, e2, exit, C2, B2)
  PROVE  Region(to, N, b, exit, C1 \/ C2, B1 \/ B2)
<1>0. b \notin N1 \cup N2 /\ b # exit /\ N1 \cap N2 = {} /\ to[b] = {e1, e2} /\ N = {b} \cup N1 \cup N2
  BY DEF Forks
<1>1. PICK W1 : /\ Reached(to, N1, e1, exit, W1)
                /\ C1 <=> Leaves(to, exit, W1)
                /\ B1 <=> W1 # N1
  BY DEF Region
<1>2. PICK W2 : /\ Reached(to, N2, e2, exit, W2)
                /\ C2 <=> Leaves(to, exit, W2)
                /\ B2 <=> W2 # N2
  BY DEF Region
<1> DEFINE W == {b} \cup W1 \cup W2
<1>3. /\ e1 \in N1 /\ e2 \in N2 /\ exit \notin N1 \cup N2
      /\ \A m \in N1 : to[m] \subseteq N1 \cup {exit}
      /\ \A m \in N2 : to[m] \subseteq N2 \cup {exit}
      /\ W1 \subseteq N1 /\ W2 \subseteq N2 /\ e1 \in W1 /\ e2 \in W2
      /\ \A m \in W1 : to[m] \subseteq W1 \cup {exit}
      /\ \A m \in W2 : to[m] \subseteq W2 \cup {exit}
  BY <1>1, <1>2 DEF Region, Reached, Closed
<1>4. ASSUME NEW T \in SUBSET N, Closed(to, b, exit, T)
      PROVE  W \subseteq T
  <2>1. b \in T /\ e1 \in T /\ e2 \in T
    BY <1>0, <1>3, <1>4 DEF Closed
  <2>2. T \cap N1 \in SUBSET N1 /\ Closed(to, e1, exit, T \cap N1)
    BY <1>0, <1>3, <1>4, <2>1 DEF Closed
  <2>3. T \cap N2 \in SUBSET N2 /\ Closed(to, e2, exit, T \cap N2)
    BY <1>0, <1>3, <1>4, <2>1 DEF Closed
  <2>4. W1 \subseteq T /\ W2 \subseteq T
    BY <1>1, <1>2, <2>2, <2>3 DEF Reached
  <2>5. QED
    BY <2>1, <2>4
<1>5. Closed(to, b, exit, W)
  BY <1>0, <1>3 DEF Closed
<1>6. Reached(to, N, b, exit, W)
  BY <1>0, <1>3, <1>4, <1>5 DEF Reached
<1>7. Leaves(to, exit, W) <=> C1 \/ C2
  <2>1. exit \notin to[b]
    BY <1>0, <1>3
  <2>2. QED
    BY <1>0, <1>1, <1>2, <2>1 DEF Leaves
<1>8. W = N <=> W1 = N1 /\ W2 = N2
  BY <1>0, <1>3
<1>9. exit \notin N /\ b \in N /\ \A m \in N : to[m] \subseteq N \cup {exit}
  BY <1>0, <1>3
<1> HIDE DEF W
<1>10. (C1 \/ C2 <=> Leaves(to, exit, W)) /\ (B1 \/ B2 <=> W # N)
  BY <1>1, <1>2, <1>7, <1>8
<1>11. QED
  BY <1>6, <1>9, <1>10 DEF Region

\* A node and a region that comes back to it: a loop.  The node goes on to the
\* region, out of the loop, or to either.
LEMMA AroundALoop ==
  ASSUME NEW to, NEW b, NEW N, NEW e, NEW exit, NEW C, NEW B,
         Region(to, N, e, b, C, B), exit \notin {b} \cup N
  PROVE  /\ to[b] = {e} => Region(to, {b} \cup N, b, exit, FALSE, B)
         /\ to[b] = {e, exit} => Region(to, {b} \cup N, b, exit, TRUE, B)
         /\ to[b] = {exit} => Region(to, {b} \cup N, b, exit, TRUE, TRUE)
<1>1. PICK W : /\ Reached(to, N, e, b, W)
               /\ B <=> W # N
  BY DEF Region
<1>2. /\ e \in N /\ b \notin N /\ W \subseteq N /\ e \in W
      /\ \A m \in N : to[m] \subseteq N \cup {b}
      /\ \A m \in W : to[m] \subseteq W \cup {b}
  BY <1>1 DEF Region, Reached, Closed
<1>3. ASSUME NEW T \in SUBSET ({b} \cup N), Closed(to, b, exit, T), e \in to[b]
      PROVE  {b} \cup W \subseteq T
  <2>1. T \cap N \in SUBSET N /\ Closed(to, e, b, T \cap N)
    BY <1>2, <1>3 DEF Closed
  <2>2. W \subseteq T
    BY <1>1, <2>1 DEF Reached
  <2>3. QED
    BY <1>3, <2>2 DEF Closed
<1>4. B <=> {b} \cup W # {b} \cup N
  BY <1>1, <1>2
<1>5. \A m \in N : exit \notin to[m]
  BY <1>2
<1>6. ASSUME to[b] = {e} \/ to[b] = {e, exit}
      PROVE  Reached(to, {b} \cup N, b, exit, {b} \cup W)
  <2>1. Closed(to, b, exit, {b} \cup W)
    BY <1>2, <1>6 DEF Closed
  <2>2. e \in to[b]
    BY <1>6
  <2>3. QED
    BY <1>2, <1>3, <2>1, <2>2 DEF Reached
<1>7. ASSUME to[b] = {e}
      PROVE  Region(to, {b} \cup N, b, exit, FALSE, B)
  <2>1. ~Leaves(to, exit, {b} \cup W)
    BY <1>2, <1>5, <1>7 DEF Leaves
  <2>2. QED
    BY <1>2, <1>4, <1>6, <1>7, <2>1 DEF Region
<1>8. ASSUME to[b] = {e, exit}
      PROVE  Region(to, {b} \cup N, b, exit, TRUE, B)
  <2>1. Leaves(to, exit, {b} \cup W)
    BY <1>8 DEF Leaves
  <2>2. QED
    BY <1>2, <1>4, <1>6, <1>8, <2>1 DEF Region
<1>9. ASSUME to[b] = {exit}
      PROVE  Region(to, {b} \cup N, b, exit, TRUE, TRUE)
  <2>1. Reached(to, {b} \cup N, b, exit, {b})
    BY <1>9 DEF Reached, Closed
  <2>2. Leaves(to, exit, {b}) /\ {b} # {b} \cup N
    BY <1>2, <1>9 DEF Leaves
  <2>3. QED
    BY <1>2, <1>9, <2>1, <2>2 DEF Region
<1>10. QED
  BY <1>7, <1>8, <1>9
-----------------------------------------------------------------------------
(***************************************************************************)
(* The graph under construction: AddNode and AddEdge.                      *)
(***************************************************************************)
\* The successors of each node, as a set.
SuccessorsOf(b) == [m \in 1..Newest(b) |-> Range(b.succ[m])]

\* Each edge stands at both of its ends.
EdgesMirror(b) ==
  \A m, n \in 1..Newest(b) : n \in Range(b.succ[m]) <=> m \in Range(b.pred[n])

\* A graph under construction: its three vectors are of one length, its edges
\* are between its nodes.
Sound(b) ==
  /\ b \in PartialGraphs
  /\ Len(b.succ) = Newest(b) /\ Len(b.pred) = Newest(b)
  /\ \A m \in 1..Newest(b) : /\ b.succ[m] \in Seq(1..Newest(b))
                             /\ b.pred[m] \in Seq(1..Newest(b))
  /\ EdgesMirror(b)

\* The nodes of b are in c with the same statement and the same edges on.
Extends(b, c) ==
  /\ Newest(b) <= Newest(c)
  /\ \A m \in 1..Newest(b) : c.stmt[m] = b.stmt[m] /\ c.succ[m] = b.succ[m]

\* A sequence over a set is one over a larger set.
LEMMA WiderSeq ==
  ASSUME NEW S, NEW T, S \subseteq T, NEW s \in Seq(S)
  PROVE  s \in Seq(T)
OBVIOUS

\* What Append does to a sequence.
LEMMA AppendFacts ==
  ASSUME NEW S, NEW s \in Seq(S), NEW x \in S
  PROVE  /\ Append(s, x) \in Seq(S)
         /\ Len(s) \in Nat
         /\ Len(Append(s, x)) = Len(s) + 1
         /\ Append(s, x)[Len(s) + 1] = x
         /\ \A k \in 1..Len(s) : Append(s, x)[k] = s[k]
         /\ Range(Append(s, x)) = Range(s) \cup {x}
<1> DEFINE t == Append(s, x)
<1>1. /\ t \in Seq(S)
      /\ DOMAIN s = 1..Len(s)
      /\ DOMAIN t = 1..(Len(s) + 1)
      /\ \A k \in 1..Len(s) : t[k] = s[k]
      /\ t[Len(s) + 1] = x
      /\ Len(s) \in Nat
      /\ Len(t) = Len(s) + 1
  OBVIOUS
<1> HIDE DEF t
<1>2. \A k \in DOMAIN t : k = Len(s) + 1 \/ k \in 1..Len(s)
  BY <1>1
<1>3. Range(t) \subseteq Range(s) \cup {x}
  BY <1>1, <1>2 DEF Range
<1>4. Range(s) \cup {x} \subseteq Range(t)
  <2>1. Len(s) + 1 \in DOMAIN t /\ \A k \in DOMAIN s : k \in DOMAIN t
    BY <1>1
  <2>2. QED
    BY <1>1, <2>1 DEF Range
<1>5. QED
  BY <1>1, <1>3, <1>4 DEF t

\* A new node has no edges and changes no other.
LEMMA AddNodeFacts ==
  ASSUME NEW b, Sound(b), NEW s \in Statements
  PROVE  LET c == AddNode(b, s)
             n == Newest(b) + 1
         IN  /\ Sound(c) /\ Extends(b, c)
             /\ Newest(b) \in Nat /\ Newest(c) = n
             /\ c.stmt[n] = s
             /\ c.succ[n] = << >>
<1> DEFINE c == AddNode(b, s)
           n == Newest(b) + 1
<1>1. /\ b.stmt \in Seq(Statements) /\ b.succ \in Seq(Seq(Nat)) /\ b.pred \in Seq(Seq(Nat))
      /\ Len(b.stmt) = Newest(b) /\ Len(b.succ) = Newest(b) /\ Len(b.pred) = Newest(b)
      /\ << >> \in Seq(Nat)
  BY DEF Sound, PartialGraphs, Newest
<1>2. c.stmt = Append(b.stmt, s) /\ c.succ = Append(b.succ, << >>) /\ c.pred = Append(b.pred, << >>)
  BY DEF AddNode
<1>3. /\ c.stmt \in Seq(Statements) /\ Newest(b) \in Nat /\ Newest(c) = n /\ c.stmt[n] = s
      /\ \A k \in 1..Newest(b) : c.stmt[k] = b.stmt[k]
  BY <1>1, <1>2, AppendFacts DEF Newest
<1>4. /\ c.succ \in Seq(Seq(Nat)) /\ Len(c.succ) = n /\ c.succ[n] = << >>
      /\ \A k \in 1..Newest(b) : c.succ[k] = b.succ[k]
  <2>1. Len(b.succ) = Newest(b)
    BY <1>1
  <2>2. QED
    BY <1>1, <1>2, <2>1, AppendFacts
<1>5. /\ c.pred \in Seq(Seq(Nat)) /\ Len(c.pred) = n /\ c.pred[n] = << >>
      /\ \A k \in 1..Newest(b) : c.pred[k] = b.pred[k]
  BY <1>1, <1>2, AppendFacts
<1>6. c \in PartialGraphs
  BY <1>3, <1>4, <1>5 DEF PartialGraphs, AddNode
<1> HIDE DEF c
<1>7. \A k \in 1..n : k = n \/ k \in 1..Newest(b)
  BY <1>3
<1>8. ASSUME NEW k \in 1..n
      PROVE  c.succ[k] \in Seq(1..n) /\ c.pred[k] \in Seq(1..n)
  <2>1. CASE k = n
    BY <1>4, <1>5, <2>1
  <2>2. CASE k \in 1..Newest(b)
    <3>1. c.succ[k] \in Seq(1..Newest(b)) /\ c.pred[k] \in Seq(1..Newest(b))
      BY <1>4, <1>5, <2>2 DEF Sound
    <3>2. 1..Newest(b) \subseteq 1..n
      BY <1>3
    <3>3. QED
      BY ONLY <3>1, <3>2, WiderSeq
  <2>3. QED
    BY <1>7, <2>1, <2>2
<1>9. EdgesMirror(c)
  <2>1. \A k \in 1..Newest(b) : /\ Range(b.succ[k]) \subseteq 1..Newest(b)
                                    /\ Range(b.pred[k]) \subseteq 1..Newest(b)
    BY DEF Sound, Range
  <2>2. Range(<< >>) = {} /\ n \notin 1..Newest(b)
    BY <1>3 DEF Range
  <2>3. \A m, k \in 1..n : k \in Range(c.succ[m]) <=> m \in Range(c.pred[k])
    BY <1>4, <1>5, <1>7, <2>1, <2>2 DEF Sound, EdgesMirror
  <2>4. QED
    BY <1>3, <2>3 DEF EdgesMirror
<1>10. Sound(c)
  BY <1>3, <1>4, <1>5, <1>6, <1>8, <1>9 DEF Sound
<1>11. Extends(b, c)
  BY <1>3, <1>4 DEF Extends
<1>12. QED
  BY <1>3, <1>4, <1>10, <1>11 DEF c

\* The graph c is b with an edge more.
EdgeAdded(b, c, src, dst) ==
  /\ Sound(c) /\ Newest(c) = Newest(b) /\ c.stmt = b.stmt
  /\ \A m \in 1..Newest(b) : m # src => c.succ[m] = b.succ[m]
  /\ Range(c.succ[src]) = Range(b.succ[src]) \cup {dst}

\* A sequence with one element replaced.
LEMMA UpdatedSeq ==
  ASSUME NEW S, NEW v \in Seq(S), NEW k \in 1..Len(v), NEW y \in S,
         NEW w, w = [v EXCEPT ![k] = y]
  PROVE  /\ w \in Seq(S) /\ Len(w) = Len(v) /\ w[k] = y
         /\ \A m \in 1..Len(v) : m # k => w[m] = v[m]
OBVIOUS

\* What AddEdge does to a graph.
LEMMA AddEdgeFacts ==
  ASSUME NEW b, Sound(b), NEW src \in 1..Newest(b), NEW dst \in 1..Newest(b)
  PROVE  EdgeAdded(b, AddEdge(b, src, dst), src, dst)
<1> DEFINE c == AddEdge(b, src, dst)
           n == Newest(b)
<1>1. /\ b.stmt \in Seq(Statements) /\ b.succ \in Seq(Seq(Nat)) /\ b.pred \in Seq(Seq(Nat))
      /\ Len(b.stmt) = n /\ Len(b.succ) = n /\ Len(b.pred) = n
      /\ DOMAIN b.succ = 1..n /\ DOMAIN b.pred = 1..n
      /\ n \in Nat
  BY DEF Sound, PartialGraphs, Newest
<1>2. src \in Nat /\ dst \in Nat /\ src # Null /\ dst # Null
  BY <1>1 DEF Null
<1>3. /\ c = [b EXCEPT !.succ[src] = Append(@, dst), !.pred[dst] = Append(@, src)]
      /\ c.stmt = b.stmt
      /\ c.succ = [b.succ EXCEPT ![src] = Append(@, dst)]
      /\ c.pred = [b.pred EXCEPT ![dst] = Append(@, src)]
  BY <1>2 DEF AddEdge, Sound, PartialGraphs
<1>4. /\ b.succ[src] \in Seq(1..n) /\ b.pred[dst] \in Seq(1..n)
      /\ b.succ[src] \in Seq(Nat) /\ b.pred[dst] \in Seq(Nat)
  BY <1>1 DEF Sound
<1>5. /\ Append(b.succ[src], dst) \in Seq(1..n) /\ Append(b.pred[dst], src) \in Seq(1..n)
      /\ Append(b.succ[src], dst) \in Seq(Nat) /\ Append(b.pred[dst], src) \in Seq(Nat)
      /\ Range(Append(b.succ[src], dst)) = Range(b.succ[src]) \cup {dst}
      /\ Range(Append(b.pred[dst], src)) = Range(b.pred[dst]) \cup {src}
  <2> DEFINE u == b.succ[src]
             v == b.pred[dst]
  <2>1. u \in Seq(1..n) /\ v \in Seq(1..n) /\ u \in Seq(Nat) /\ v \in Seq(Nat)
    BY <1>4
  <2> HIDE DEF u, v
  <2>2. src \in 1..n /\ dst \in 1..n
    OBVIOUS
  <2> HIDE DEF n
  <2>3. Append(u, dst) \in Seq(1..n) /\ Append(v, src) \in Seq(1..n)
    BY <2>1, <2>2, AppendFacts
  <2>4. Append(u, dst) \in Seq(Nat) /\ Range(Append(u, dst)) = Range(u) \cup {dst}
    BY <1>2, <2>1, AppendFacts
  <2>5. Append(v, src) \in Seq(Nat) /\ Range(Append(v, src)) = Range(v) \cup {src}
    BY <1>2, <2>1, AppendFacts
  <2>6. QED
    BY <2>3, <2>4, <2>5 DEF u, v
<1>6. /\ c.succ \in Seq(Seq(Nat)) /\ Len(c.succ) = n
      /\ c.succ[src] = Append(b.succ[src], dst)
      /\ \A m \in 1..n : m # src => c.succ[m] = b.succ[m]
  <2> DEFINE v == b.succ
             w == c.succ
             y == Append(b.succ[src], dst)
  <2>1. v \in Seq(Seq(Nat)) /\ src \in 1..Len(v) /\ y \in Seq(Nat) /\ w = [v EXCEPT ![src] = y]
    BY <1>1, <1>3, <1>5
  <2> HIDE DEF v, w, y
  <2>2. w \in Seq(Seq(Nat)) /\ Len(w) = Len(v) /\ w[src] = y /\ \A m \in 1..Len(v) : m # src => w[m] = v[m]
    BY <2>1, UpdatedSeq
  <2>3. QED
    BY <1>1, <2>2 DEF v, w, y
<1>7. /\ c.pred \in Seq(Seq(Nat)) /\ Len(c.pred) = n
      /\ c.pred[dst] = Append(b.pred[dst], src)
      /\ \A m \in 1..n : m # dst => c.pred[m] = b.pred[m]
  <2> DEFINE v == b.pred
             w == c.pred
             y == Append(b.pred[dst], src)
  <2>1. v \in Seq(Seq(Nat)) /\ dst \in 1..Len(v) /\ y \in Seq(Nat) /\ w = [v EXCEPT ![dst] = y]
    BY <1>1, <1>3, <1>5
  <2> HIDE DEF v, w, y
  <2>2. w \in Seq(Seq(Nat)) /\ Len(w) = Len(v) /\ w[dst] = y /\ \A m \in 1..Len(v) : m # dst => w[m] = v[m]
    BY <2>1, UpdatedSeq
  <2>3. QED
    BY <1>1, <2>2 DEF v, w, y
<1>8. c \in PartialGraphs
  BY <1>1, <1>3, <1>6, <1>7 DEF PartialGraphs, Sound
<1>9. Newest(c) = n
  BY <1>3 DEF Newest
<1> HIDE DEF c
<1>10. \A m \in 1..n : c.succ[m] \in Seq(1..n) /\ c.pred[m] \in Seq(1..n)
  BY <1>5, <1>6, <1>7 DEF Sound
<1>11. \A m, k \in 1..n : k \in Range(c.succ[m]) <=> m \in Range(c.pred[k])
  <2>1. \A m, k \in 1..n : k \in Range(c.succ[m]) <=> k \in Range(b.succ[m]) \/ (m = src /\ k = dst)
    BY <1>5, <1>6
  <2>2. \A m, k \in 1..n : m \in Range(c.pred[k]) <=> m \in Range(b.pred[k]) \/ (m = src /\ k = dst)
    BY <1>5, <1>7
  <2>3. QED
    BY <2>1, <2>2 DEF Sound, EdgesMirror
<1>12. Sound(c)
  BY <1>6, <1>7, <1>8, <1>9, <1>10, <1>11 DEF Sound, EdgesMirror
<1>13. QED
  BY <1>3, <1>5, <1>6, <1>9, <1>12 DEF c, EdgeAdded
-----------------------------------------------------------------------------
(***************************************************************************)
(* The Java rules with the conditions as the folder takes them.  The graph *)
(* follows these, whatever the conditions; that they come to the Java      *)
(* rules where the folder knows the conditions is shown further down.      *)
(***************************************************************************)
FoldedCompletes(completes, s) ==
  CASE s.kind = "return" -> FALSE
    [] s.kind = "block"  -> \A k \in DOMAIN s.stmts : completes[s.stmts[k]]
    [] s.kind = "ifElse" -> completes[s.body] \/ completes[s.else]
    [] s.kind \in {"while", "for"} -> ~FoldsTo(s.cond, TRUE)
    [] OTHER -> TRUE

FoldedCompletesNormally[s \in Statements] == FoldedCompletes(FoldedCompletesNormally, s)

FoldedHoldsUnreachable(holds, s) ==
  CASE s.kind = "block" ->
         \E k \in DOMAIN s.stmts :
           \/ holds[s.stmts[k]]
           \/ k < Len(s.stmts) /\ ~FoldedCompletesNormally[s.stmts[k]]
    [] s.kind = "if"     -> holds[s.body]
    [] s.kind = "ifElse" -> holds[s.body] \/ holds[s.else]
    [] s.kind \in {"while", "for"} -> FoldsTo(s.cond, FALSE) \/ holds[s.body]
    [] OTHER -> FALSE

FoldedSomethingUnreachable[s \in Statements] ==
  FoldedHoldsUnreachable(FoldedSomethingUnreachable, s)

FoldedCutsOffUpdate(cuts, s) ==
  CASE s.kind = "block" -> \E k \in DOMAIN s.stmts : cuts[s.stmts[k]]
    [] s.kind \in {"if", "while"} -> cuts[s.body]
    [] s.kind = "ifElse" -> cuts[s.body] \/ cuts[s.else]
    [] s.kind = "for"    -> ~FoldedCompletesNormally[s.body] \/ cuts[s.body]
    [] OTHER -> FALSE

FoldedUpdateCutOff[s \in Statements] == FoldedCutsOffUpdate(FoldedUpdateCutOff, s)
-----------------------------------------------------------------------------
(***************************************************************************)
(* Recursion on the depth of a statement. The recursive functions of the   *)
(* model are CHOOSEn by their equation; that the equation has a solution,  *)
(* and one only, is proved here from the depths of the statements.         *)
(***************************************************************************)
\* A set of numbers has a least one.
LEMMA Least ==
  ASSUME NEW S \in SUBSET Nat, S # {}
  PROVE  \E n \in S : \A k \in S : n <= k
<1> DEFINE R == OpToRel(<, Nat)
<1>1. IsWellFoundedOn(R, Nat)
  BY NatLessThanWellFounded
<1>2. \A i1, j \in Nat : i1 < j => <<i1, j>> \in R
  BY DEF OpToRel
<1> HIDE DEF R
<1>3. PICK n \in S : \A k \in S : <<k, n>> \notin R
  BY <1>1, WFMin
<1>4. \A k \in S : ~(k < n)
  BY <1>2, <1>3
<1>5. \A k \in S : n <= k
  BY <1>4
<1>6. QED
  BY <1>5

\* Induction on numbers, for a set of them.
LEMMA EveryNumber ==
  ASSUME NEW A, 0 \in A, \A n \in Nat : n \in A => n + 1 \in A
  PROVE  \A n \in Nat : n \in A
<1> SUFFICES ASSUME NEW m \in Nat \ A PROVE FALSE
  OBVIOUS
<1>1. PICK n \in Nat \ A : \A k \in Nat \ A : n <= k
  <2>1. Nat \ A \in SUBSET Nat /\ Nat \ A # {}
    OBVIOUS
  <2>2. QED
    BY <2>1, Least
<1>2. n # 0
  OBVIOUS
<1>3. n - 1 \in Nat /\ ~(n <= n - 1) /\ (n - 1) + 1 = n
  BY <1>2
<1>4. n - 1 \in A
  BY <1>1, <1>3
<1>5. QED
  BY <1>3, <1>4

\* A recursion whose value at s depends only on its values at smaller depths
\* has a solution.
Descends(S, V, d, G) ==
  /\ V # {}
  /\ d \in [S -> Nat]
  /\ \A s \in S, f \in [S -> V] : G[s][f] \in V
  /\ \A s \in S : \A f, h \in [S -> V] :
       (\A t \in S : d[t] < d[s] => f[t] = h[t]) => G[s][f] = G[s][h]

\* Such a recursion has a solution: the values at depths below n, for every n,
\* put together.
LEMMA RecursionByDepth ==
  ASSUME NEW S, NEW V, NEW d, NEW G, Descends(S, V, d, G)
  PROVE  \E f \in [S -> V] : \A s \in S : f[s] = G[s][f]
<1> USE DEF Descends
<1> DEFINE Solves(f, n) == \A s \in S : d[s] < n => f[s] = G[s][f]
           F == [n \in Nat |-> CHOOSE f \in [S -> V] : Solves(f, n)]
           g == [s \in S |-> F[d[s] + 1][s]]
<1>1. \A n \in Nat : \E f \in [S -> V] : Solves(f, n)
  <2> DEFINE A == {n \in Nat : \E f \in [S -> V] : Solves(f, n)}
  <2>1. 0 \in A
    <3>0. PICK v \in V : TRUE
      OBVIOUS
    <3>1. [s \in S |-> v] \in [S -> V]
      OBVIOUS
    <3>2. \A s \in S : ~(d[s] < 0)
      OBVIOUS
    <3>3. Solves([s \in S |-> v], 0)
      BY <3>2
    <3>4. QED
      BY <3>1, <3>3
  <2>2. ASSUME NEW n \in Nat, n \in A
        PROVE  n + 1 \in A
    <3>1. PICK f \in [S -> V] : Solves(f, n)
      BY <2>2
    <3> DEFINE h == [s \in S |-> G[s][f]]
    <3>2. h \in [S -> V]
      OBVIOUS
    <3>3. ASSUME NEW s \in S, d[s] < n + 1
          PROVE  h[s] = G[s][h]
      <4>1. ASSUME NEW t \in S, d[t] < d[s]
            PROVE  f[t] = h[t]
        <5>1. d[t] < n
          BY <3>3, <4>1
        <5>2. f[t] = G[t][f]
          BY <3>1, <5>1
        <5>3. QED
          BY <5>2
      <4>2. G[s][f] = G[s][h]
        BY <3>2, <4>1
      <4>3. QED
        BY <4>2
    <3>4. Solves(h, n + 1)
      BY <3>3
    <3> HIDE DEF h, Solves
    <3>5. QED
      BY <3>2, <3>4
  <2> HIDE DEF A
  <2>3. \A n \in Nat : n \in A
    BY <2>1, <2>2, EveryNumber
  <2>4. QED
    BY <2>3 DEF A
<1>2. \A n \in Nat : F[n] \in [S -> V] /\ Solves(F[n], n)
  BY <1>1
<1> HIDE DEF F
<1>3. ASSUME NEW f \in [S -> V], NEW h \in [S -> V], NEW n \in Nat, Solves(f, n), Solves(h, n)
      PROVE  \A s \in S : d[s] < n => f[s] = h[s]
  <2> DEFINE D == {d[s] : s \in {t \in S : d[t] < n /\ f[t] # h[t]}}
  <2> SUFFICES ASSUME D # {} PROVE FALSE
    OBVIOUS
  <2>1. D \in SUBSET Nat
    OBVIOUS
  <2>2. PICK m \in D : \A k \in D : m <= k
    BY <2>1, Least
  <2>3. PICK s \in S : d[s] = m /\ d[s] < n /\ f[s] # h[s]
    OBVIOUS
  <2>4. ASSUME NEW t \in S, d[t] < d[s]
        PROVE  f[t] = h[t]
    <3>1. d[t] < n
      BY <2>3, <2>4
    <3>2. CASE f[t] # h[t]
      <4>1. d[t] \in D
        BY <3>1, <3>2
      <4>2. m <= d[t]
        BY <2>2, <4>1
      <4>3. QED
        BY <2>3, <2>4, <4>2
    <3>3. QED
      BY <3>2
  <2>5. G[s][f] = G[s][h]
    BY <2>4
  <2>6. QED
    BY <1>3, <2>3, <2>5
<1>4. g \in [S -> V]
  BY <1>2
<1>5. ASSUME NEW s \in S
      PROVE  g[s] = G[s][g]
  <2> DEFINE h == F[d[s] + 1]
  <2>1. d[s] \in Nat /\ d[s] + 1 \in Nat /\ d[s] < d[s] + 1
    OBVIOUS
  <2>2. h \in [S -> V] /\ Solves(h, d[s] + 1)
    BY <1>2, <2>1
  <2>3. g[s] = h[s] /\ h[s] = G[s][h]
    BY <2>1, <2>2
  <2>4. ASSUME NEW t \in S, d[t] < d[s]
        PROVE  h[t] = g[t]
    <3>1. d[t] + 1 \in Nat /\ d[t] < d[t] + 1 /\ \A k \in Nat : k < d[t] + 1 => k < d[s] + 1
      BY <2>4
    <3>2. Solves(h, d[t] + 1)
      BY <2>2, <3>1
    <3>3. F[d[t] + 1] \in [S -> V] /\ Solves(F[d[t] + 1], d[t] + 1)
      BY <1>2, <3>1
    <3>4. h[t] = F[d[t] + 1][t]
      BY <1>3, <2>2, <3>1, <3>2, <3>3
    <3>5. QED
      BY <3>4
  <2> HIDE DEF g, h
  <2>5. G[s][h] = G[s][g]
    BY <1>4, <2>2, <2>4
  <2>6. QED
    BY <2>3, <2>5
<1> HIDE DEF g
<1>6. QED
  BY <1>4, <1>5

\* The recursion of FoldedCompletesNormally determines it.
LEMMA FoldedCompletesNormallyDef ==
  /\ FoldedCompletesNormally \in [Statements -> BOOLEAN]
  /\ \A s \in Statements : FoldedCompletesNormally[s] = FoldedCompletes(FoldedCompletesNormally, s)
<1> DEFINE G == [s \in Statements |-> [f \in [Statements -> BOOLEAN] |-> FoldedCompletes(f, s)]]
<1>1. \A s \in Statements, f \in [Statements -> BOOLEAN] : G[s][f] = FoldedCompletes(f, s)
  OBVIOUS
<1>2. ASSUME NEW s \in Statements, NEW f
      PROVE  FoldedCompletes(f, s) \in BOOLEAN
  BY StatementsAssumption DEF FoldedCompletes, Parts, FoldsTo
<1>3. ASSUME NEW s \in Statements, NEW f \in [Statements -> BOOLEAN], NEW h \in [Statements -> BOOLEAN],
             \A t \in Statements : Depth[t] < Depth[s] => f[t] = h[t]
      PROVE  FoldedCompletes(f, s) = FoldedCompletes(h, s)
  <2>1. \A t \in Parts(s) : f[t] = h[t]
    BY <1>3, StatementsAssumption
  <2>2. CASE s.kind = "block"
    <3>1. \A k \in DOMAIN s.stmts : s.stmts[k] \in Parts(s)
      BY <2>2 DEF Parts, Range
    <3>2. QED
      BY <2>1, <2>2, <3>1 DEF FoldedCompletes
  <2>3. CASE s.kind = "ifElse"
    BY <2>1, <2>3 DEF FoldedCompletes, Parts
  <2>4. CASE s.kind \notin {"block", "ifElse"}
    BY <2>4 DEF FoldedCompletes
  <2>5. QED
    BY <2>2, <2>3, <2>4
<1> HIDE DEF G
<1>4. PICK f \in [Statements -> BOOLEAN] : \A s \in Statements : f[s] = G[s][f]
  <2>1. Depth \in [Statements -> Nat]
    BY StatementsAssumption
  <2>2. \A s \in Statements, f \in [Statements -> BOOLEAN] : G[s][f] \in BOOLEAN
    BY <1>1, <1>2
  <2>3. \A s \in Statements : \A f, h \in [Statements -> BOOLEAN] :
          (\A t \in Statements : Depth[t] < Depth[s] => f[t] = h[t]) => G[s][f] = G[s][h]
    BY <1>1, <1>3
  <2>4. QED
    <3>1. BOOLEAN # {}
      OBVIOUS
    <3>2. Descends(Statements, BOOLEAN, Depth, G)
      BY ONLY <2>1, <2>2, <2>3, <3>1 DEF Descends
    <3>3. QED
      BY ONLY <3>2, RecursionByDepth
<1>5. f = [s \in Statements |-> FoldedCompletes(f, s)]
  BY <1>1, <1>4
<1>6. FoldedCompletesNormally = [s \in Statements |-> FoldedCompletes(FoldedCompletesNormally, s)]
  BY <1>5, Zenon DEF FoldedCompletesNormally
<1>7. QED
  BY <1>2, <1>6
-----------------------------------------------------------------------------
(***************************************************************************)
(* BuildStmt is such a recursion: what it does with a statement depends on *)
(* what it does with the parts of the statement.                           *)
(***************************************************************************)
\* The empty sequence is one over any set.
LEMMA EmptySeq == \A X : << >> \in Seq(X)
OBVIOUS

\* A node more leaves a graph typed.
LEMMA AddNodeTyped ==
  ASSUME NEW b \in PartialGraphs, NEW s \in Statements
  PROVE  AddNode(b, s) \in PartialGraphs /\ Newest(AddNode(b, s)) \in Nat
<1>1. b.stmt \in Seq(Statements) /\ b.succ \in Seq(Seq(Nat)) /\ b.pred \in Seq(Seq(Nat))
  BY DEF PartialGraphs
<1>2. Append(b.stmt, s) \in Seq(Statements) /\ Len(Append(b.stmt, s)) \in Nat
  BY <1>1
<1>3. Append(b.succ, << >>) \in Seq(Seq(Nat)) /\ Append(b.pred, << >>) \in Seq(Seq(Nat))
  BY <1>1, EmptySeq
<1>4. QED
  BY <1>2, <1>3 DEF AddNode, PartialGraphs, Newest

\* A sequence of sequences with an element appended to one of them.
LEMMA AppendAt ==
  ASSUME NEW v \in Seq(Seq(Nat)), NEW k, NEW x \in Nat
  PROVE  [v EXCEPT ![k] = Append(@, x)] \in Seq(Seq(Nat))
<1>1. CASE k \in 1..Len(v)
  <2>1. v[k] \in Seq(Nat)
    BY <1>1
  <2>2. Append(v[k], x) \in Seq(Nat)
    BY <2>1
  <2>3. [v EXCEPT ![k] = Append(v[k], x)] \in Seq(Seq(Nat))
    BY <1>1, <2>2, UpdatedSeq
  <2>4. QED
    BY <2>3
<1>2. CASE k \notin 1..Len(v)
  <2>1. [v EXCEPT ![k] = Append(@, x)] = v
    BY <1>2
  <2>2. QED
    BY <2>1
<1>3. QED
  BY <1>1, <1>2

\* An edge more leaves a graph typed.
LEMMA AddEdgeTyped ==
  ASSUME NEW b \in PartialGraphs, NEW src \in Nat, NEW dst \in Nat
  PROVE  AddEdge(b, src, dst) \in PartialGraphs
<1>1. b.succ \in Seq(Seq(Nat)) /\ b.pred \in Seq(Seq(Nat))
  BY DEF PartialGraphs
<1>2. /\ [b.succ EXCEPT ![src] = Append(@, dst)] \in Seq(Seq(Nat))
      /\ [b.pred EXCEPT ![dst] = Append(@, src)] \in Seq(Seq(Nat))
  BY <1>1, AppendAt
<1>3. CASE Null \in {src, dst}
  BY <1>3 DEF AddEdge
<1>4. CASE Null \notin {src, dst}
  <2>1. AddEdge(b, src, dst) = [b EXCEPT !.succ[src] = Append(@, dst), !.pred[dst] = Append(@, src)]
    BY <1>4 DEF AddEdge
  <2>2. QED
    BY <1>2, <2>1 DEF PartialGraphs
<1>5. QED
  BY <1>3, <1>4

\* The edges of a loop leave a graph typed.
LEMMA LoopEdgesTyped ==
  ASSUME NEW b \in PartialGraphs, NEW c, NEW branch \in Nat, NEW body \in Nat, NEW successor \in Nat
  PROVE  LoopEdges(b, c, branch, body, successor) \in PartialGraphs
<1>1. /\ AddEdge(b, branch, body) \in PartialGraphs
      /\ AddEdge(b, branch, successor) \in PartialGraphs
  BY AddEdgeTyped
<1>2. AddEdge(AddEdge(b, branch, body), branch, successor) \in PartialGraphs
  BY <1>1, AddEdgeTyped
<1>3. QED
  BY <1>1, <1>2 DEF LoopEdges

\* What build operators take for buildStmt.
Builders == [Statements -> [Fragments -> Fragments]]

\* The fields of a fragment.
LEMMA FragmentFacts ==
  /\ \A r \in Fragments : r.entry \in Nat /\ r.graph \in PartialGraphs
  /\ \A e \in Nat, b \in PartialGraphs : [entry |-> e, graph |-> b] \in Fragments
  /\ \A r \in Fragments, b \in PartialGraphs :
       [r EXCEPT !.graph = b] = [entry |-> r.entry, graph |-> b]
BY DEF Fragments

\* The statements of a sequence are built one by one, the last one first.
LEMMA BuildStmtsFacts ==
  ASSUME NEW f \in Builders, NEW stmts \in Seq(Statements), NEW next \in Fragments
  PROVE  \E last \in [0..Len(stmts) -> Fragments] :
           /\ last[0] = next
           /\ \A k \in 1..Len(stmts) : last[k] = f[stmts[Len(stmts) + 1 - k]][last[k - 1]]
           /\ BuildStmts(f, stmts, next) = last[Len(stmts)]
<1> DEFINE n == Len(stmts)
           Step(l, k) == IF k = 0 THEN next ELSE f[stmts[n + 1 - k]][l[k - 1]]
           d == [k \in 0..n |-> k]
           H == [k \in 0..n |-> [l \in [0..n -> Fragments] |-> Step(l, k)]]
<1>1. /\ n \in Nat
      /\ \A k \in 1..n : n + 1 - k \in 1..n /\ k - 1 \in 0..n /\ stmts[n + 1 - k] \in Statements
  OBVIOUS
<1> HIDE DEF n
<1>2. \A k \in 0..n : \A l \in [0..n -> Fragments] : H[k][l] = Step(l, k)
  OBVIOUS
<1>3. \A k \in 0..n : \A l \in [0..n -> Fragments] : Step(l, k) \in Fragments
  <2> TAKE k \in 0..n
  <2> TAKE l \in [0..n -> Fragments]
  <2>1. CASE k = 0
    BY <2>1
  <2>2. CASE k # 0
    <3>1. k \in 1..n
      BY <1>1, <2>2
    <3>2. l[k - 1] \in Fragments /\ stmts[n + 1 - k] \in Statements
      BY <1>1, <3>1
    <3>3. QED
      BY <2>2, <3>2 DEF Builders
  <2>3. QED
    BY <2>1, <2>2
<1>4. ASSUME NEW k \in 0..n, NEW l \in [0..n -> Fragments], NEW m \in [0..n -> Fragments],
             \A j \in 0..n : d[j] < d[k] => l[j] = m[j]
      PROVE  Step(l, k) = Step(m, k)
  <2>1. CASE k = 0
    BY <2>1
  <2>2. CASE k # 0
    <3>1. k - 1 \in 0..n /\ k - 1 < k
      BY <1>1, <2>2
    <3>2. l[k - 1] = m[k - 1]
      BY <1>4, <3>1
    <3>3. QED
      BY <2>2, <3>2
  <2>3. QED
    BY <2>1, <2>2
<1>5. d \in [0..n -> Nat]
  BY <1>1
<1> HIDE DEF H, Step, d
<1>6. Descends(0..n, Fragments, d, H)
  BY <1>2, <1>3, <1>4, <1>5 DEF Descends
<1>7. PICK l \in [0..n -> Fragments] : \A k \in 0..n : l[k] = H[k][l]
  <2> DEFINE D == 0..n
  <2>1. Descends(D, Fragments, d, H)
    BY <1>6
  <2> HIDE DEF D
  <2>2. \E l \in [D -> Fragments] : \A k \in D : l[k] = H[k][l]
    BY ONLY <2>1, RecursionByDepth
  <2>3. QED
    BY <2>2 DEF D
<1>8. l = [k \in 0..n |-> Step(l, k)]
  BY <1>2, <1>7
<1> DEFINE last == CHOOSE last : last = [k \in 0..n |-> Step(last, k)]
<1>9. last = [k \in 0..n |-> Step(last, k)]
  BY <1>8, Zenon
<1>10. BuildStmts(f, stmts, next) = last[n]
  BY DEF BuildStmts, Step, n
<1> HIDE DEF last
<1>11. \A k \in 0..n : last[k] = Step(last, k)
  BY <1>9
<1>12. last[0] = next
  BY <1>1, <1>11 DEF Step
<1>13. \A k \in 1..n : last[k] = f[stmts[n + 1 - k]][last[k - 1]]
  <2>1. \A k \in 1..n : k \in 0..n /\ k # 0
    BY <1>1
  <2>2. QED
    BY <1>11, <2>1 DEF Step
<1>14. \A k \in Nat : k \in {j \in Nat : j <= n => last[j] \in Fragments}
  <2> DEFINE A == {j \in Nat : j <= n => last[j] \in Fragments}
  <2>1. 0 \in A
    BY <1>12
  <2>2. ASSUME NEW k \in Nat, k \in A
        PROVE  k + 1 \in A
    <3> SUFFICES ASSUME k + 1 <= n
                 PROVE  last[k + 1] \in Fragments
      OBVIOUS
    <3>1. k + 1 \in 1..n /\ (k + 1) - 1 = k /\ k <= n
      BY <1>1
    <3>2. last[k] \in Fragments
      BY <2>2, <3>1
    <3>3. last[k + 1] = f[stmts[n + 1 - (k + 1)]][last[k]]
      BY <1>13, <3>1
    <3>4. stmts[n + 1 - (k + 1)] \in Statements
      BY <1>1, <3>1
    <3>5. QED
      BY <3>2, <3>3, <3>4 DEF Builders
  <2> HIDE DEF A
  <2>3. QED
    BY <2>1, <2>2, EveryNumber DEF A
<1>15. \A k \in 0..n : k \in Nat /\ k <= n
  BY <1>1
<1>16. last \in [0..n -> Fragments]
  BY <1>9, <1>14, <1>15
<1>17. QED
  BY <1>10, <1>12, <1>13, <1>16 DEF n

\* A sequence of statements builds a fragment.
LEMMA BuildStmtsTyped ==
  ASSUME NEW f \in Builders, NEW stmts \in Seq(Statements), NEW next \in Fragments
  PROVE  BuildStmts(f, stmts, next) \in Fragments
<1>1. PICK last \in [0..Len(stmts) -> Fragments] : BuildStmts(f, stmts, next) = last[Len(stmts)]
  BY BuildStmtsFacts
<1>2. Len(stmts) \in 0..Len(stmts)
  OBVIOUS
<1>3. QED
  BY <1>1, <1>2

\* BuildStmts asks the builder about the statements of the sequence only.
LEMMA BuildStmtsSame ==
  ASSUME NEW f \in Builders, NEW h, NEW stmts \in Seq(Statements), NEW next \in Fragments,
         \A k \in DOMAIN stmts : f[stmts[k]] = h[stmts[k]]
  PROVE  BuildStmts(f, stmts, next) = BuildStmts(h, stmts, next)
<1> DEFINE n == Len(stmts)
<1>1. /\ n \in Nat /\ DOMAIN stmts = 1..n
      /\ \A k \in 1..n : n + 1 - k \in 1..n
  OBVIOUS
<1> HIDE DEF n
<1>2. PICK l \in [0..n -> Fragments] :
        /\ l[0] = next
        /\ \A k \in 1..n : l[k] = f[stmts[n + 1 - k]][l[k - 1]]
        /\ BuildStmts(f, stmts, next) = l[n]
  BY BuildStmtsFacts DEF n
<1> DEFINE Step(last, k) == IF k = 0 THEN next ELSE h[stmts[n + 1 - k]][last[k - 1]]
           m == CHOOSE last : last = [k \in 0..n |-> Step(last, k)]
<1>3. /\ m[0] = next
      /\ \A k \in 1..n : m[k] = h[stmts[n + 1 - k]][m[k - 1]]
      /\ BuildStmts(h, stmts, next) = m[n]
  <2>1. \A k \in 0..n : k = 0 \/ k \in 1..n
    BY <1>1
  <2>2. \A k \in 1..n : h[stmts[n + 1 - k]] = f[stmts[n + 1 - k]]
    BY <1>1
  <2>3. \A k \in 0..n : l[k] = Step(l, k)
    BY <1>1, <1>2, <2>1, <2>2
  <2>4. l = [k \in 0..n |-> Step(l, k)]
    BY <2>3
  <2> HIDE DEF Step
  <2>5. m = [k \in 0..n |-> Step(m, k)]
    BY <2>4, Zenon
  <2>6. BuildStmts(h, stmts, next) = m[n]
    BY DEF BuildStmts, Step, n
  <2> HIDE DEF m
  <2>7. \A k \in 0..n : m[k] = Step(m, k)
    BY <2>5
  <2>8. 0 \in 0..n /\ \A k \in 1..n : k \in 0..n /\ k # 0
    BY <1>1
  <2>9. QED
    BY <2>6, <2>7, <2>8 DEF Step
<1> HIDE DEF m
<1>4. \A k \in Nat : k \in {j \in Nat : j <= n => l[j] = m[j]}
  <2> DEFINE A == {j \in Nat : j <= n => l[j] = m[j]}
  <2>1. 0 \in A
    BY <1>2, <1>3
  <2>2. ASSUME NEW k \in Nat, k \in A
        PROVE  k + 1 \in A
    <3> SUFFICES ASSUME k + 1 <= n
                 PROVE  l[k + 1] = m[k + 1]
      OBVIOUS
    <3>1. k + 1 \in 1..n /\ (k + 1) - 1 = k /\ k <= n
      BY <1>1
    <3>2. l[k] = m[k]
      BY <2>2, <3>1
    <3>3. f[stmts[n + 1 - (k + 1)]] = h[stmts[n + 1 - (k + 1)]]
      BY <1>1, <3>1
    <3>4. l[k + 1] = f[stmts[n + 1 - (k + 1)]][l[k]] /\ m[k + 1] = h[stmts[n + 1 - (k + 1)]][m[k]]
      BY <1>2, <1>3, <3>1
    <3>5. QED
      BY <3>2, <3>3, <3>4
  <2> HIDE DEF A
  <2>3. QED
    BY <2>1, <2>2, EveryNumber DEF A
<1>5. l[n] = m[n]
  BY <1>1, <1>4
<1>6. QED
  BY <1>2, <1>3, <1>5

\* What the assumption says of the parts of one statement.
LEMMA PartFacts ==
  ASSUME NEW s \in Statements
  PROVE  /\ \A t \in Parts(s) : t \in Statements /\ t # Sentinel /\ Depth[t] < Depth[s]
         /\ s.kind = "block" => /\ s.stmts \in Seq(Statements)
                                /\ \A k \in DOMAIN s.stmts : s.stmts[k] \in Parts(s)
         /\ s.kind \in {"if", "ifElse", "while", "for"} => s.body \in Parts(s)
         /\ s.kind = "ifElse" => s.else \in Parts(s)
         /\ s.kind = "for" => s.init \in Parts(s) /\ s.update \in Parts(s)
<1>1. s.kind = "block" => \A k \in DOMAIN s.stmts : s.stmts[k] \in Parts(s)
  BY DEF Parts, Range
<1>2. s.kind \in {"if", "ifElse", "while", "for"} => s.body \in Parts(s)
  BY DEF Parts
<1>3. s.kind = "ifElse" => s.else \in Parts(s)
  BY DEF Parts
<1>4. s.kind = "for" => s.init \in Parts(s) /\ s.update \in Parts(s)
  BY DEF Parts
<1>5. QED
  BY <1>1, <1>2, <1>3, <1>4, StatementsAssumption

\* What agrees on a statement whenever it agrees on its parts agrees on all.
LEMMA AgreeByParts ==
  ASSUME NEW f, NEW g,
         \A s \in Statements : (\A t \in Parts(s) : f[t] = g[t]) => f[s] = g[s]
  PROVE  \A s \in Statements : f[s] = g[s]
<1> SUFFICES ASSUME NEW o \in Statements, f[o] # g[o]
             PROVE  FALSE
  OBVIOUS
<1> DEFINE D == {Depth[s] : s \in {t \in Statements : f[t] # g[t]}}
<1>1. D \in SUBSET Nat /\ D # {}
  BY StatementsAssumption
<1>2. PICK n \in D : \A k \in D : n <= k
  BY <1>1, Least
<1>3. PICK s \in Statements : Depth[s] = n /\ f[s] # g[s]
  OBVIOUS
<1>4. ASSUME NEW t \in Parts(s)
      PROVE  f[t] = g[t]
  <2>1. t \in Statements /\ Depth[t] < n /\ Depth[t] \in Nat /\ n \in Nat
    BY <1>1, <1>3, PartFacts, StatementsAssumption
  <2>2. Depth[t] \notin D
    BY <1>2, <2>1
  <2>3. QED
    BY <2>1, <2>2
<1>5. QED
  BY <1>3, <1>4

\* What a builder returns.
LEMMA BuiltBy ==
  ASSUME NEW f \in Builders, NEW s \in Statements, NEW e \in Nat, NEW b \in PartialGraphs
  PROVE  LET r == f[s][[entry |-> e, graph |-> b]]
         IN  r \in Fragments /\ r.entry \in Nat /\ r.graph \in PartialGraphs
BY FragmentFacts DEF Builders

\* A statement of one node builds a fragment.
LEMMA OtherTyped ==
  ASSUME NEW s \in Statements, NEW next \in Fragments
  PROVE  BuildOtherStmt(s, next) \in Fragments /\ BuildReturnStmt(s, next) \in Fragments
<1> DEFINE b == AddNode(next.graph, s)
<1>1. b \in PartialGraphs /\ Newest(b) \in Nat /\ next.entry \in Nat
  BY AddNodeTyped, FragmentFacts
<1> HIDE DEF b
<1>2. AddEdge(b, Newest(b), next.entry) \in PartialGraphs
  BY <1>1, AddEdgeTyped
<1>3. /\ [entry |-> Newest(b), graph |-> b] \in Fragments
      /\ [entry |-> Newest(b), graph |-> AddEdge(b, Newest(b), next.entry)] \in Fragments
  BY <1>1, <1>2, FragmentFacts
<1>4. QED
  BY <1>3 DEF b, BuildOtherStmt, BuildReturnStmt

\* An if statement builds a fragment.
LEMMA IfTyped ==
  ASSUME NEW f \in Builders, NEW s \in Statements, NEW next \in Fragments,
         s.kind \in {"if", "ifElse"}
  PROVE  BuildIfStmt(f, s, next) \in Fragments
<1> DEFINE b1 == AddNode(next.graph, s)
           branch == Newest(b1)
           then == f[s.body][[next EXCEPT !.graph = b1]]
           b2 == AddEdge(then.graph, branch, then.entry)
           other == f[s.else][[next EXCEPT !.graph = b2]]
           g == IF s.kind = "if" THEN AddEdge(b2, branch, next.entry)
                ELSE AddEdge(other.graph, branch, other.entry)
<1>1. b1 \in PartialGraphs /\ branch \in Nat /\ next.entry \in Nat
  BY AddNodeTyped, FragmentFacts
<1>2. s.body \in Statements /\ (s.kind = "ifElse" => s.else \in Statements)
  BY PartFacts
<1> HIDE DEF b1, branch
<1>3. then.entry \in Nat /\ then.graph \in PartialGraphs
  <2>1. [next EXCEPT !.graph = b1] = [entry |-> next.entry, graph |-> b1]
    BY <1>1, FragmentFacts
  <2>2. QED
    BY <1>1, <1>2, <2>1, BuiltBy
<1> HIDE DEF then
<1>4. b2 \in PartialGraphs
  BY <1>1, <1>3, AddEdgeTyped
<1> HIDE DEF b2
<1>5. ASSUME s.kind = "ifElse"
      PROVE  other.entry \in Nat /\ other.graph \in PartialGraphs
  <2>1. [next EXCEPT !.graph = b2] = [entry |-> next.entry, graph |-> b2]
    BY <1>4, FragmentFacts
  <2>2. QED
    BY <1>1, <1>2, <1>4, <1>5, <2>1, BuiltBy
<1> HIDE DEF other
<1>6. g \in PartialGraphs
  <2>1. CASE s.kind = "if"
    BY <1>1, <1>4, <2>1, AddEdgeTyped
  <2>2. CASE s.kind = "ifElse"
    BY <1>1, <1>5, <2>2, AddEdgeTyped
  <2>3. QED
    BY <2>1, <2>2
<1> HIDE DEF g
<1>7. [entry |-> branch, graph |-> g] \in Fragments
  BY <1>1, <1>6, FragmentFacts
<1>8. BuildIfStmt(f, s, next) = [entry |-> branch, graph |-> g]
  BY DEF BuildIfStmt, b1, branch, then, b2, other, g
<1>9. QED
  BY <1>7, <1>8

\* A while statement builds a fragment.
LEMMA WhileTyped ==
  ASSUME NEW f \in Builders, NEW s \in Statements, NEW next \in Fragments, s.kind = "while"
  PROVE  BuildWhileStmt(f, s, next) \in Fragments
<1> DEFINE b1 == AddNode(next.graph, s)
           branch == Newest(b1)
           body == f[s.body][[entry |-> branch, graph |-> b1]]
           g == LoopEdges(body.graph, s.cond, branch, body.entry, next.entry)
<1>1. b1 \in PartialGraphs /\ branch \in Nat /\ next.entry \in Nat
  BY AddNodeTyped, FragmentFacts
<1>2. s.body \in Statements
  BY PartFacts
<1> HIDE DEF b1, branch
<1>3. body.entry \in Nat /\ body.graph \in PartialGraphs
  BY <1>1, <1>2, BuiltBy
<1> HIDE DEF body
<1>4. g \in PartialGraphs
  BY <1>1, <1>3, LoopEdgesTyped
<1> HIDE DEF g
<1>5. [entry |-> branch, graph |-> g] \in Fragments
  BY <1>1, <1>4, FragmentFacts
<1>6. BuildWhileStmt(f, s, next) = [entry |-> branch, graph |-> g]
  BY DEF BuildWhileStmt, b1, branch, body, g
<1>7. QED
  BY <1>5, <1>6

\* A for statement builds a fragment.
LEMMA ForTyped ==
  ASSUME NEW f \in Builders, NEW s \in Statements, NEW next \in Fragments, s.kind = "for"
  PROVE  BuildForStmt(f, s, next) \in Fragments
<1> DEFINE b1 == AddNode(next.graph, s)
           branch == Newest(b1)
           init == f[s.init][[entry |-> branch, graph |-> b1]]
           update == f[s.update][[entry |-> branch, graph |-> init.graph]]
           body == f[s.body][update]
           g == LoopEdges(body.graph, s.cond, branch, body.entry, next.entry)
<1>1. b1 \in PartialGraphs /\ branch \in Nat /\ next.entry \in Nat
  BY AddNodeTyped, FragmentFacts
<1>2. s.init \in Statements /\ s.update \in Statements /\ s.body \in Statements
  BY PartFacts
<1> HIDE DEF b1, branch
<1>3. init.entry \in Nat /\ init.graph \in PartialGraphs
  BY <1>1, <1>2, BuiltBy
<1> HIDE DEF init
<1>4. update \in Fragments
  BY <1>1, <1>2, <1>3, BuiltBy
<1> HIDE DEF update
<1>5. body \in Fragments
  BY <1>2, <1>4 DEF Builders
<1>6. body.entry \in Nat /\ body.graph \in PartialGraphs
  BY <1>5, FragmentFacts
<1> HIDE DEF body
<1>7. g \in PartialGraphs
  BY <1>1, <1>6, LoopEdgesTyped
<1> HIDE DEF g
<1>8. [entry |-> init.entry, graph |-> g] \in Fragments
  BY <1>3, <1>7, FragmentFacts
<1>9. BuildForStmt(f, s, next) = [entry |-> init.entry, graph |-> g]
  BY DEF BuildForStmt, b1, branch, init, update, body, g
<1>10. QED
  BY <1>8, <1>9

\* Every statement builds a fragment.
LEMMA BuildTyped ==
  ASSUME NEW f \in Builders, NEW s \in Statements, NEW next \in Fragments
  PROVE  BuildByKind(f, s, next) \in Fragments
<1>1. s.kind = "block" => BuildBlock(f, s, next) \in Fragments
  <2>1. s.kind = "block" => s.stmts \in Seq(Statements)
    BY PartFacts
  <2>2. QED
    BY <2>1, OtherTyped, BuildStmtsTyped DEF BuildBlock
<1>2. QED
  BY <1>1, OtherTyped, IfTyped, WhileTyped, ForTyped DEF BuildByKind

\* The builder of a statement asks about its parts only.
LEMMA BuildSame ==
  ASSUME NEW f \in Builders, NEW h, NEW s \in Statements, NEW next \in Fragments,
         \A t \in Parts(s) : f[t] = h[t]
  PROVE  BuildByKind(f, s, next) = BuildByKind(h, s, next)
<1> USE PartFacts
<1>1. CASE s.kind = "block"
  <2>1. s.stmts \in Seq(Statements) /\ \A k \in DOMAIN s.stmts : f[s.stmts[k]] = h[s.stmts[k]]
    BY <1>1
  <2>2. BuildStmts(f, s.stmts, next) = BuildStmts(h, s.stmts, next)
    BY <2>1, BuildStmtsSame
  <2>3. QED
    BY <1>1, <2>2 DEF BuildByKind, BuildBlock
<1>2. CASE s.kind \in {"if", "ifElse"}
  <2>1. f[s.body] = h[s.body] /\ (s.kind = "ifElse" => f[s.else] = h[s.else])
    BY <1>2
  <2>2. BuildIfStmt(f, s, next) = BuildIfStmt(h, s, next)
    BY <1>2, <2>1 DEF BuildIfStmt
  <2>3. QED
    BY <1>2, <2>2 DEF BuildByKind
<1>3. CASE s.kind = "while"
  <2>1. BuildWhileStmt(f, s, next) = BuildWhileStmt(h, s, next)
    BY <1>3 DEF BuildWhileStmt
  <2>2. QED
    BY <1>3, <2>1 DEF BuildByKind
<1>4. CASE s.kind = "for"
  <2>1. BuildForStmt(f, s, next) = BuildForStmt(h, s, next)
    BY <1>4 DEF BuildForStmt
  <2>2. QED
    BY <1>4, <2>1 DEF BuildByKind
<1>5. CASE s.kind \notin {"block", "if", "ifElse", "while", "for"}
  BY <1>5 DEF BuildByKind
<1>6. QED
  BY <1>1, <1>2, <1>3, <1>4, <1>5

\* The recursion of BuildStmt determines it.
LEMMA BuildStmtDef ==
  /\ BuildStmt \in Builders
  /\ \A s \in Statements, next \in Fragments :
       BuildStmt[s][next] = BuildByKind(BuildStmt, s, next)
<1> DEFINE V == [Fragments -> Fragments]
           Step(f, s) == [next \in Fragments |-> BuildByKind(f, s, next)]
           G == [s \in Statements |-> [f \in Builders |-> Step(f, s)]]
<1>1. \A s \in Statements, f \in Builders : G[s][f] = Step(f, s) /\ Step(f, s) \in V
  BY BuildTyped
<1>2. ASSUME NEW s \in Statements, NEW f \in Builders, NEW h \in Builders,
             \A t \in Statements : Depth[t] < Depth[s] => f[t] = h[t]
      PROVE  Step(f, s) = Step(h, s)
  <2>1. \A t \in Parts(s) : f[t] = h[t]
    BY <1>2, PartFacts
  <2>2. \A next \in Fragments : BuildByKind(f, s, next) = BuildByKind(h, s, next)
    BY <2>1, BuildSame
  <2>3. QED
    BY <2>2
<1>3. V # {}
  <2>1. [r \in Fragments |-> r] \in V
    OBVIOUS
  <2>2. QED
    BY <2>1
<1>4. Builders = [Statements -> V] /\ Depth \in [Statements -> Nat]
  BY StatementsAssumption DEF Builders
<1> HIDE DEF G, V
<1>5. Descends(Statements, V, Depth, G)
  <2> HIDE DEF Step
  <2>1. QED
    BY <1>1, <1>2, <1>3, <1>4 DEF Descends
<1>6. PICK f \in [Statements -> V] : \A s \in Statements : f[s] = G[s][f]
  BY ONLY <1>5, RecursionByDepth
<1>7. f = [s \in Statements |-> Step(f, s)]
  <2> HIDE DEF Step
  <2>1. QED
    BY <1>1, <1>4, <1>6
<1>8. BuildStmt = [s \in Statements |-> Step(BuildStmt, s)]
  BY <1>7, Zenon DEF BuildStmt
<1>9. \A s \in Statements : BuildStmt[s] = Step(BuildStmt, s)
  <2> HIDE DEF Step
  <2>1. QED
    BY <1>8
<1>10. \A s \in Statements : BuildStmt[s] = f[s]
  <2>1. ASSUME NEW s \in Statements, \A t \in Parts(s) : f[t] = BuildStmt[t]
        PROVE  f[s] = BuildStmt[s]
    <3>1. f \in Builders
      BY <1>4
    <3>2. \A next \in Fragments : BuildByKind(f, s, next) = BuildByKind(BuildStmt, s, next)
      BY <2>1, <3>1, BuildSame
    <3>3. Step(f, s) = Step(BuildStmt, s)
      BY <3>2
    <3> HIDE DEF Step
    <3>4. f[s] = Step(f, s)
      BY <1>7
    <3>5. QED
      BY <1>9, <3>3, <3>4
  <2>2. QED
    BY <2>1, AgreeByParts
<1>11. BuildStmt = f
  <2> HIDE DEF Step
  <2>1. QED
    BY <1>7, <1>8, <1>10
<1>12. QED
  BY <1>4, <1>9, <1>11
-----------------------------------------------------------------------------
(***************************************************************************)
(* So are the rules.                                                       *)
(***************************************************************************)
\* A rule that asks about the parts of a statement only has a solution.
AsksParts(G) ==
  /\ \A s \in Statements, f \in [Statements -> BOOLEAN] : G[s][f] \in BOOLEAN
  /\ \A s \in Statements, f \in [Statements -> BOOLEAN], h \in [Statements -> BOOLEAN] :
       (\A t \in Parts(s) : f[t] = h[t]) => G[s][f] = G[s][h]

\* Such a rule has a solution, by recursion on the depth.
LEMMA RuleHasSolution ==
  ASSUME NEW G, AsksParts(G)
  PROVE  \E f \in [Statements -> BOOLEAN] : \A s \in Statements : f[s] = G[s][f]
<1>1. Depth \in [Statements -> Nat] /\ BOOLEAN # {}
  BY StatementsAssumption
<1>2. \A s \in Statements : \A f, h \in [Statements -> BOOLEAN] :
        (\A t \in Statements : Depth[t] < Depth[s] => f[t] = h[t]) => G[s][f] = G[s][h]
  BY PartFacts DEF AsksParts
<1>3. Descends(Statements, BOOLEAN, Depth, G)
  BY <1>1, <1>2 DEF Descends, AsksParts
<1>4. QED
  BY ONLY <1>3, RecursionByDepth

\* The recursion of FoldedSomethingUnreachable determines it.
LEMMA FoldedSomethingUnreachableDef ==
  /\ FoldedSomethingUnreachable \in [Statements -> BOOLEAN]
  /\ \A s \in Statements :
       FoldedSomethingUnreachable[s] = FoldedHoldsUnreachable(FoldedSomethingUnreachable, s)
<1> DEFINE G == [s \in Statements |-> [f \in [Statements -> BOOLEAN] |-> FoldedHoldsUnreachable(f, s)]]
<1>1. \A s \in Statements, f \in [Statements -> BOOLEAN] : G[s][f] = FoldedHoldsUnreachable(f, s)
  OBVIOUS
<1>2. ASSUME NEW s \in Statements, NEW f \in [Statements -> BOOLEAN]
      PROVE  FoldedHoldsUnreachable(f, s) \in BOOLEAN
  <2>1. \A t \in Parts(s) : f[t] \in BOOLEAN
    BY PartFacts
  <2>2. CASE s.kind = "if"
    BY <2>1, <2>2, PartFacts DEF FoldedHoldsUnreachable
  <2>3. CASE s.kind # "if"
    BY <2>3 DEF FoldedHoldsUnreachable, FoldsTo
  <2>4. QED
    BY <2>2, <2>3
<1>3. ASSUME NEW s \in Statements, NEW f \in [Statements -> BOOLEAN], NEW h,
             \A t \in Parts(s) : f[t] = h[t]
      PROVE  FoldedHoldsUnreachable(f, s) = FoldedHoldsUnreachable(h, s)
  <2>1. CASE s.kind = "block"
    <3>1. \A k \in DOMAIN s.stmts : f[s.stmts[k]] = h[s.stmts[k]]
      BY <1>3, <2>1, PartFacts
    <3>2. QED
      BY <2>1, <3>1 DEF FoldedHoldsUnreachable
  <2>2. CASE s.kind = "if"
    BY <1>3, <2>2, PartFacts DEF FoldedHoldsUnreachable
  <2>3. CASE s.kind = "ifElse"
    BY <1>3, <2>3, PartFacts DEF FoldedHoldsUnreachable
  <2>4. CASE s.kind \in {"while", "for"}
    BY <1>3, <2>4, PartFacts DEF FoldedHoldsUnreachable
  <2>5. CASE s.kind \notin {"block", "if", "ifElse", "while", "for"}
    BY <2>5 DEF FoldedHoldsUnreachable
  <2>6. QED
    BY <2>1, <2>2, <2>3, <2>4, <2>5
<1> HIDE DEF G
<1>4. AsksParts(G)
  BY <1>1, <1>2, <1>3 DEF AsksParts
<1>5. PICK f \in [Statements -> BOOLEAN] : \A s \in Statements : f[s] = G[s][f]
  BY <1>4, RuleHasSolution
<1>6. f = [s \in Statements |-> FoldedHoldsUnreachable(f, s)]
  BY <1>1, <1>5
<1>7. FoldedSomethingUnreachable = [s \in Statements |-> FoldedHoldsUnreachable(FoldedSomethingUnreachable, s)]
  BY <1>6, Zenon DEF FoldedSomethingUnreachable
<1>8. \A s \in Statements :
        FoldedSomethingUnreachable[s] = FoldedHoldsUnreachable(FoldedSomethingUnreachable, s)
  BY <1>7
<1>9. \A s \in Statements : f[s] = FoldedSomethingUnreachable[s]
  BY <1>1, <1>3, <1>5, <1>8, AgreeByParts
<1>10. FoldedSomethingUnreachable = f
  BY <1>6, <1>7, <1>9
<1>11. QED
  BY <1>8, <1>10

\* The recursion of FoldedUpdateCutOff determines it.
LEMMA FoldedUpdateCutOffDef ==
  /\ FoldedUpdateCutOff \in [Statements -> BOOLEAN]
  /\ \A s \in Statements : FoldedUpdateCutOff[s] = FoldedCutsOffUpdate(FoldedUpdateCutOff, s)
<1> DEFINE G == [s \in Statements |-> [f \in [Statements -> BOOLEAN] |-> FoldedCutsOffUpdate(f, s)]]
<1>1. \A s \in Statements, f \in [Statements -> BOOLEAN] : G[s][f] = FoldedCutsOffUpdate(f, s)
  OBVIOUS
<1>2. ASSUME NEW s \in Statements, NEW f \in [Statements -> BOOLEAN]
      PROVE  FoldedCutsOffUpdate(f, s) \in BOOLEAN
  <2>1. \A t \in Parts(s) : f[t] \in BOOLEAN
    BY PartFacts
  <2>2. CASE s.kind \in {"if", "while"}
    BY <2>1, <2>2, PartFacts DEF FoldedCutsOffUpdate
  <2>3. CASE s.kind \notin {"if", "while"}
    BY <2>3 DEF FoldedCutsOffUpdate
  <2>4. QED
    BY <2>2, <2>3
<1>3. ASSUME NEW s \in Statements, NEW f \in [Statements -> BOOLEAN], NEW h,
             \A t \in Parts(s) : f[t] = h[t]
      PROVE  FoldedCutsOffUpdate(f, s) = FoldedCutsOffUpdate(h, s)
  <2>1. CASE s.kind = "block"
    <3>1. \A k \in DOMAIN s.stmts : f[s.stmts[k]] = h[s.stmts[k]]
      BY <1>3, <2>1, PartFacts
    <3>2. QED
      BY <2>1, <3>1 DEF FoldedCutsOffUpdate
  <2>2. CASE s.kind \in {"if", "while"}
    BY <1>3, <2>2, PartFacts DEF FoldedCutsOffUpdate
  <2>3. CASE s.kind = "ifElse"
    BY <1>3, <2>3, PartFacts DEF FoldedCutsOffUpdate
  <2>4. CASE s.kind = "for"
    BY <1>3, <2>4, PartFacts DEF FoldedCutsOffUpdate
  <2>5. CASE s.kind \notin {"block", "if", "ifElse", "while", "for"}
    BY <2>5 DEF FoldedCutsOffUpdate
  <2>6. QED
    BY <2>1, <2>2, <2>3, <2>4, <2>5
<1> HIDE DEF G
<1>4. AsksParts(G)
  BY <1>1, <1>2, <1>3 DEF AsksParts
<1>5. PICK f \in [Statements -> BOOLEAN] : \A s \in Statements : f[s] = G[s][f]
  BY <1>4, RuleHasSolution
<1>6. f = [s \in Statements |-> FoldedCutsOffUpdate(f, s)]
  BY <1>1, <1>5
<1>7. FoldedUpdateCutOff = [s \in Statements |-> FoldedCutsOffUpdate(FoldedUpdateCutOff, s)]
  BY <1>6, Zenon DEF FoldedUpdateCutOff
<1>8. \A s \in Statements : FoldedUpdateCutOff[s] = FoldedCutsOffUpdate(FoldedUpdateCutOff, s)
  BY <1>7
<1>9. \A s \in Statements : f[s] = FoldedUpdateCutOff[s]
  BY <1>1, <1>3, <1>5, <1>8, AgreeByParts
<1>10. FoldedUpdateCutOff = f
  BY <1>6, <1>7, <1>9
<1>11. QED
  BY <1>8, <1>10
-----------------------------------------------------------------------------
(***************************************************************************)
(* What is built for one statement. Next is what control goes on to; the   *)
(* nodes made for the statement are a region in front of it.               *)
(***************************************************************************)
\* Some node of what is built for s is out of reach although s can be reached.
Bad(s) == FoldedSomethingUnreachable[s] \/ FoldedUpdateCutOff[s]

\* The nodes created between two fragments.
NewNodes(next, r) == (Newest(next.graph) + 1)..Newest(r.graph)

\* A fragment that something can go on to.
Ready(next) ==
  next \in Fragments /\ Sound(next.graph) /\ next.entry \in 1..Newest(next.graph)

\* What is built in front of next: a region of new nodes that goes on to the
\* entry of next, without a second sentinel, with nothing behind a return.
Built(next, r, completes, cutOff) ==
  /\ r \in Fragments /\ Sound(r.graph) /\ Extends(next.graph, r.graph)
  /\ \A m \in NewNodes(next, r) :
       /\ r.graph.stmt[m] # Sentinel
       /\ r.graph.stmt[m].kind = "return" => r.graph.succ[m] = << >>
  /\ Region(SuccessorsOf(r.graph), NewNodes(next, r), r.entry, next.entry, completes, cutOff)

\* A graph has a number of nodes.
LEMMA SizeIsNat == ASSUME NEW b, Sound(b) PROVE Newest(b) \in Nat
BY DEF Sound, PartialGraphs, Newest

\* What has been built can be built on.
LEMMA BuiltIsReady ==
  ASSUME NEW next, Ready(next), NEW r, NEW C, NEW B, Built(next, r, C, B)
  PROVE  /\ Ready(r) /\ r.graph \in PartialGraphs
         /\ Newest(next.graph) \in Nat /\ Newest(r.graph) \in Nat
         /\ Newest(next.graph) < Newest(r.graph)
         /\ r.entry \in NewNodes(next, r) /\ r.entry # next.entry
<1>1. Newest(next.graph) \in Nat /\ Newest(r.graph) \in Nat
  BY SizeIsNat DEF Ready, Built
<1>2. r.entry \in NewNodes(next, r) /\ next.entry \notin NewNodes(next, r)
  BY DEF Built, Region
<1>3. r.entry \in 1..Newest(r.graph) /\ Newest(next.graph) < Newest(r.graph)
  BY <1>1, <1>2 DEF NewNodes
<1>4. QED
  BY <1>1, <1>2, <1>3 DEF Ready, Built, Sound

\* What is built before something that has been built goes on to it.
LEMMA BuiltBefore ==
  ASSUME NEW next, Ready(next), NEW r2, NEW C2, NEW B2, Built(next, r2, C2, B2),
         NEW r1, NEW C1, NEW B1, Built(r2, r1, C1, B1)
  PROVE  Built(next, r1, C1 /\ C2, B1 \/ B2 \/ ~C1)
<1> DEFINE n == Newest(next.graph)
           k == Newest(r2.graph)
           o == Newest(r1.graph)
           to == SuccessorsOf(r1.graph)
<1>1. n \in Nat /\ k \in Nat /\ o \in Nat /\ n < k /\ k < o /\ Ready(r2)
  BY BuiltIsReady
<1>2. NewNodes(next, r2) = (n + 1)..k /\ NewNodes(r2, r1) = (k + 1)..o /\ NewNodes(next, r1) = (n + 1)..o
  BY DEF NewNodes
<1>3. /\ \A m \in 1..n : r2.graph.stmt[m] = next.graph.stmt[m] /\ r2.graph.succ[m] = next.graph.succ[m]
      /\ \A m \in 1..k : r1.graph.stmt[m] = r2.graph.stmt[m] /\ r1.graph.succ[m] = r2.graph.succ[m]
  BY DEF Built, Extends
<1> HIDE DEF n, k, o
<1>4. /\ 1..n \subseteq 1..k /\ (n + 1)..k \subseteq 1..k /\ 1..k \subseteq 1..o
      /\ (n + 1)..o = ((k + 1)..o) \cup ((n + 1)..k)
      /\ ((k + 1)..o) \cap ((n + 1)..k) = {}
      /\ next.entry \notin (k + 1)..o
  <2>1. next.entry \in 1..n
    BY DEF Ready, n
  <2>2. QED
    BY <1>1, <2>1
<1>5. Extends(next.graph, r1.graph)
  <2>1. n <= o
    BY <1>1
  <2>2. \A m \in 1..n : r1.graph.stmt[m] = next.graph.stmt[m] /\ r1.graph.succ[m] = next.graph.succ[m]
    BY <1>3, <1>4
  <2>3. QED
    BY <2>1, <2>2 DEF Extends, n, o
<1>6. ASSUME NEW m \in (n + 1)..o
      PROVE  /\ r1.graph.stmt[m] # Sentinel
             /\ r1.graph.stmt[m].kind = "return" => r1.graph.succ[m] = << >>
  <2>1. CASE m \in (k + 1)..o
    BY <1>2, <2>1 DEF Built
  <2>2. CASE m \in (n + 1)..k
    <3>1. r1.graph.stmt[m] = r2.graph.stmt[m] /\ r1.graph.succ[m] = r2.graph.succ[m]
      BY <1>3, <1>4, <2>2
    <3>2. QED
      BY <1>2, <2>2, <3>1 DEF Built
  <2>3. QED
    BY <1>4, <2>1, <2>2
<1>7. Region(to, (n + 1)..k, r2.entry, next.entry, C2, B2)
  <2>1. \A m \in (n + 1)..k : to[m] = SuccessorsOf(r2.graph)[m]
    BY <1>3, <1>4 DEF SuccessorsOf, k, o
  <2>2. Region(SuccessorsOf(r2.graph), (n + 1)..k, r2.entry, next.entry, C2, B2)
    BY <1>2 DEF Built
  <2> HIDE DEF to
  <2> DEFINE N == (n + 1)..k
  <2> HIDE DEF N
  <2>3. /\ Region(SuccessorsOf(r2.graph), N, r2.entry, next.entry, C2, B2)
        /\ \A m \in N : to[m] = SuccessorsOf(r2.graph)[m]
    BY <2>1, <2>2 DEF N
  <2>4. Region(to, N, r2.entry, next.entry, C2, B2)
    BY <2>3, SameEdges
  <2>5. QED
    BY <2>4 DEF N
<1>8. Region(to, (k + 1)..o, r1.entry, r2.entry, C1, B1)
  BY <1>2 DEF Built
<1> HIDE DEF to
<1>9. Region(to, ((k + 1)..o) \cup ((n + 1)..k), r1.entry, next.entry, C1 /\ C2, B1 \/ B2 \/ ~C1)
  <2> DEFINE M == (k + 1)..o
             N == (n + 1)..k
  <2>1. /\ Region(to, M, r1.entry, r2.entry, C1, B1)
        /\ Region(to, N, r2.entry, next.entry, C2, B2)
        /\ M \cap N = {} /\ next.entry \notin M
    BY <1>4, <1>7, <1>8
  <2> HIDE DEF M, N
  <2>2. Region(to, M \cup N, r1.entry, next.entry, C1 /\ C2, B1 \/ B2 \/ ~C1)
    BY ONLY <2>1, OneAfterTheOther
  <2>3. QED
    BY <2>2 DEF M, N
<1>10. Region(to, NewNodes(next, r1), r1.entry, next.entry, C1 /\ C2, B1 \/ B2 \/ ~C1)
  BY <1>2, <1>4, <1>9
<1>11. QED
  BY <1>2, <1>5, <1>6, <1>10 DEF Built, to

\* The parts of Built, for a fragment given by its fields.
LEMMA BuiltRecord ==
  ASSUME NEW next, Ready(next), NEW e \in Nat, NEW c, Sound(c), Extends(next.graph, c),
         NEW N, N = (Newest(next.graph) + 1)..Newest(c),
         \A m \in N : c.stmt[m] # Sentinel /\ (c.stmt[m].kind = "return" => c.succ[m] = << >>),
         NEW C, NEW B, Region(SuccessorsOf(c), N, e, next.entry, C, B)
  PROVE  Built(next, [entry |-> e, graph |-> c], C, B)
<1> DEFINE r == [entry |-> e, graph |-> c]
<1>1. r.entry = e /\ r.graph = c
  OBVIOUS
<1>2. r \in Fragments
  BY FragmentFacts DEF Sound
<1> HIDE DEF r
<1>3. NewNodes(next, r) = N
  BY <1>1 DEF NewNodes
<1>4. QED
  BY <1>1, <1>2, <1>3 DEF Built, r

\* A node of its own, with no edge or with the edge to what comes next.
LEMMA OtherBuilt ==
  ASSUME NEW next, Ready(next), NEW s \in Statements, s # Sentinel, s.kind # "return"
  PROVE  Built(next, BuildOtherStmt(s, next), TRUE, FALSE)
<1> DEFINE b == AddNode(next.graph, s)
           n == Newest(next.graph) + 1
           c == AddEdge(b, n, next.entry)
           r == [entry |-> n, graph |-> c]
<1>1. /\ Sound(b) /\ Extends(next.graph, b) /\ Newest(next.graph) \in Nat /\ Newest(b) = n
      /\ b.stmt[n] = s /\ b.succ[n] = << >>
  BY AddNodeFacts DEF Ready
<1>2. BuildOtherStmt(s, next) = r
  BY <1>1 DEF BuildOtherStmt
<1>3. /\ n \in 1..Newest(b) /\ next.entry \in 1..Newest(b) /\ next.entry # n
      /\ n \in Nat /\ n \notin 1..Newest(next.graph)
  BY <1>1 DEF Ready
<1> HIDE DEF b
<1>4. /\ Sound(c) /\ Newest(c) = n /\ c.stmt = b.stmt
      /\ \A m \in 1..n : m # n => c.succ[m] = b.succ[m]
      /\ Range(c.succ[n]) = Range(b.succ[n]) \cup {next.entry}
  <2>1. EdgeAdded(b, c, n, next.entry)
    BY <1>1, <1>3, AddEdgeFacts
  <2>2. QED
    BY <1>1, <2>1 DEF EdgeAdded
<1> HIDE DEF c
<1>5. Extends(next.graph, c)
  BY <1>1, <1>3, <1>4 DEF Extends
<1>7. {n} = (Newest(next.graph) + 1)..Newest(c)
  BY <1>1, <1>4
<1>8. SuccessorsOf(c)[n] = {next.entry}
  <2>1. Range(<< >>) = {}
    BY DEF Range
  <2>2. QED
    BY <1>1, <1>3, <1>4, <2>1 DEF SuccessorsOf
<1> HIDE DEF n
<1>9. Region(SuccessorsOf(c), {n}, n, next.entry, next.entry \in SuccessorsOf(c)[n], FALSE)
  BY <1>3, <1>8, SingleNode
<1>10. Region(SuccessorsOf(c), {n}, n, next.entry, TRUE, FALSE)
  BY <1>8, <1>9 DEF Region
<1>11. \A m \in {n} : c.stmt[m] # Sentinel /\ (c.stmt[m].kind = "return" => c.succ[m] = << >>)
  BY <1>1, <1>4
<1>12. Ready(next) /\ n \in Nat /\ Sound(c)
  BY <1>3, <1>4
<1>13. Built(next, r, TRUE, FALSE)
  BY ONLY <1>5, <1>7, <1>10, <1>11, <1>12, BuiltRecord
<1>14. QED
  BY <1>2, <1>13

\* A return statement: a node that goes nowhere.
LEMMA ReturnBuilt ==
  ASSUME NEW next, Ready(next), NEW s \in Statements, s # Sentinel
  PROVE  Built(next, BuildReturnStmt(s, next), FALSE, FALSE)
<1> DEFINE b == AddNode(next.graph, s)
           n == Newest(next.graph) + 1
           r == [entry |-> n, graph |-> b]
<1>1. /\ Sound(b) /\ Extends(next.graph, b) /\ Newest(next.graph) \in Nat /\ Newest(b) = n
      /\ b.stmt[n] = s /\ b.succ[n] = << >>
  BY AddNodeFacts DEF Ready
<1>2. BuildReturnStmt(s, next) = r
  BY <1>1 DEF BuildReturnStmt
<1>3. n \in 1..Newest(b) /\ next.entry # n /\ n \in Nat
  BY <1>1 DEF Ready
<1> HIDE DEF b
<1>5. {n} = (Newest(next.graph) + 1)..Newest(b)
  BY <1>1
<1>6. SuccessorsOf(b)[n] = {}
  BY <1>1, <1>3 DEF SuccessorsOf, Range
<1> HIDE DEF n
<1>7. Region(SuccessorsOf(b), {n}, n, next.entry, next.entry \in SuccessorsOf(b)[n], FALSE)
  BY <1>3, <1>6, SingleNode
<1>8. Region(SuccessorsOf(b), {n}, n, next.entry, FALSE, FALSE)
  BY <1>6, <1>7 DEF Region
<1>9. \A m \in {n} : b.stmt[m] # Sentinel /\ b.succ[m] = << >>
  BY <1>1
<1>10. QED
  BY <1>1, <1>2, <1>3, <1>5, <1>8, <1>9, BuiltRecord

\* A node of the method's own: no sentinel, and nothing follows a return.
IsStatementNode(g, m) ==
  /\ g.stmt[m] # Sentinel
  /\ g.stmt[m].kind = "return" => g.succ[m] = << >>

\* The statement s is built as the rules say, whatever it goes on to.
Good(s) ==
  \A next : Ready(next) => Built(next, BuildStmt[s][next], FoldedCompletesNormally[s], Bad(s))

\* The graphs agree from node lo to node hi.
Agree(g, c, lo, hi) ==
  \A m \in lo..hi : c.stmt[m] = g.stmt[m] /\ c.succ[m] = g.succ[m]

\* A region stays one in a graph that agrees on its nodes.
LEMMA RegionKept ==
  ASSUME NEW g, NEW c, NEW lo \in Nat, NEW hi \in Nat, Agree(g, c, lo, hi), 1 <= lo,
         Newest(g) \in Nat, Newest(c) \in Nat, hi <= Newest(g), hi <= Newest(c),
         NEW entry, NEW exit, NEW C, NEW B, Region(SuccessorsOf(g), lo..hi, entry, exit, C, B)
  PROVE  Region(SuccessorsOf(c), lo..hi, entry, exit, C, B)
<1> DEFINE N == lo..hi
           to == SuccessorsOf(g)
           new == SuccessorsOf(c)
<1>1. \A m \in N : m \in 1..Newest(g) /\ m \in 1..Newest(c)
  OBVIOUS
<1>2. \A m \in N : new[m] = to[m]
  BY <1>1 DEF SuccessorsOf, Agree
<1>3. Region(to, N, entry, exit, C, B)
  OBVIOUS
<1> HIDE DEF N, to, new
<1>4. Region(new, N, entry, exit, C, B)
  BY ONLY <1>2, <1>3, SameEdges
<1>5. QED
  BY <1>4 DEF N, new

\* The node of a statement that branches, ready for what is built into it.
LEMMA BranchNode ==
  ASSUME NEW next, Ready(next), NEW s \in Statements
  PROVE  LET b == AddNode(next.graph, s)
             n == Newest(b)
         IN  /\ Newest(next.graph) \in Nat /\ n = Newest(next.graph) + 1 /\ n \in Nat
             /\ b \in PartialGraphs /\ Sound(b) /\ Extends(next.graph, b)
             /\ b.stmt[n] = s /\ Range(b.succ[n]) = {}
             /\ next.entry # n /\ next.entry \in 1..Newest(next.graph)
             /\ Ready([entry |-> next.entry, graph |-> b])
             /\ Ready([entry |-> n, graph |-> b])
             /\ [next EXCEPT !.graph = b] = [entry |-> next.entry, graph |-> b]
<1> DEFINE b == AddNode(next.graph, s)
           n == Newest(b)
<1>1. /\ Sound(b) /\ Extends(next.graph, b) /\ Newest(next.graph) \in Nat
      /\ n = Newest(next.graph) + 1
      /\ b.stmt[n] = s /\ b.succ[n] = << >>
  BY AddNodeFacts DEF Ready
<1>2. b \in PartialGraphs
  BY <1>1 DEF Sound
<1> HIDE DEF b
<1>3. /\ n \in Nat /\ n \in 1..n /\ next.entry \in 1..Newest(next.graph)
      /\ next.entry \in 1..n /\ next.entry # n /\ next.entry \in Nat
  BY <1>1 DEF Ready
<1>4. Range(b.succ[n]) = {}
  BY <1>1 DEF Range
<1>5. Ready([entry |-> next.entry, graph |-> b])
  BY <1>1, <1>2, <1>3, FragmentFacts DEF Ready
<1>6. Ready([entry |-> n, graph |-> b])
  BY <1>1, <1>2, <1>3, FragmentFacts DEF Ready
<1>7. [next EXCEPT !.graph = b] = [entry |-> next.entry, graph |-> b]
  BY <1>2, FragmentFacts DEF Ready
<1>8. QED
  BY <1>1, <1>2, <1>3, <1>4, <1>5, <1>6, <1>7 DEF b

\* What Built says of the graph, node by node.
LEMMA BuiltParts ==
  ASSUME NEW next, Ready(next), NEW r, NEW C, NEW B, Built(next, r, C, B)
  PROVE  /\ Sound(r.graph) /\ r.graph \in PartialGraphs /\ Ready(r) /\ r.entry \in Nat
         /\ Newest(next.graph) \in Nat /\ Newest(r.graph) \in Nat
         /\ Newest(next.graph) < Newest(r.graph)
         /\ r.entry \in (Newest(next.graph) + 1)..Newest(r.graph)
         /\ r.entry \in 1..Newest(r.graph) /\ r.entry # next.entry
         /\ Agree(next.graph, r.graph, 1, Newest(next.graph))
         /\ \A m \in (Newest(next.graph) + 1)..Newest(r.graph) : IsStatementNode(r.graph, m)
         /\ Region(SuccessorsOf(r.graph), (Newest(next.graph) + 1)..Newest(r.graph),
                   r.entry, next.entry, C, B)
<1>1. /\ Ready(r) /\ r.graph \in PartialGraphs
      /\ Newest(next.graph) \in Nat /\ Newest(r.graph) \in Nat
      /\ Newest(next.graph) < Newest(r.graph)
      /\ r.entry \in NewNodes(next, r) /\ r.entry # next.entry
  BY BuiltIsReady
<1>2. r.entry \in 1..Newest(r.graph) /\ r.entry \in Nat
  BY <1>1 DEF NewNodes
<1>3. QED
  BY <1>1, <1>2 DEF Built, NewNodes, Extends, Agree, IsStatementNode

\* An if statement without else is built as the rules say.
LEMMA IfBuilt ==
  ASSUME NEW next, Ready(next), NEW s \in Statements, s # Sentinel, s.kind = "if", Good(s.body)
  PROVE  Built(next, BuildIfStmt(BuildStmt, s, next), TRUE, Bad(s.body))
<1> DEFINE b1 == AddNode(next.graph, s)
           n == Newest(b1)
           p == [entry |-> next.entry, graph |-> b1]
           then == BuildStmt[s.body][p]
           g == then.graph
           e == then.entry
           b2 == AddEdge(g, n, e)
           c == AddEdge(b2, n, next.entry)
           x == next.entry
           o == Newest(next.graph)
           hi == Newest(g)
           N == (n + 1)..hi
           to == SuccessorsOf(c)
<1>1. /\ o \in Nat /\ n = o + 1 /\ n \in Nat
      /\ b1 \in PartialGraphs /\ Sound(b1) /\ Extends(next.graph, b1)
      /\ b1.stmt[n] = s /\ Range(b1.succ[n]) = {}
      /\ x # n /\ x \in 1..o
      /\ Ready(p)
      /\ [next EXCEPT !.graph = b1] = p
  BY BranchNode
<1>2. BuildIfStmt(BuildStmt, s, next) = [entry |-> n, graph |-> c]
  BY <1>1 DEF BuildIfStmt
<1>3. Built(p, then, FoldedCompletesNormally[s.body], Bad(s.body))
  BY <1>1 DEF Good
<1>4. /\ Sound(g) /\ hi \in Nat /\ n < hi /\ e \in N /\ e \in 1..hi
      /\ Agree(b1, g, 1, n)
      /\ \A m \in N : IsStatementNode(g, m)
      /\ Region(SuccessorsOf(g), N, e, x, FoldedCompletesNormally[s.body], Bad(s.body))
  <2>1. p.graph = b1 /\ p.entry = x
    OBVIOUS
  <2> HIDE DEF p, then
  <2>2. QED
    BY <1>1, <1>3, <2>1, BuiltParts
<1> HIDE DEF then, p, b1, x, o
<1>5. n \in 1..hi /\ x \in 1..hi
  BY <1>1, <1>4
<1>6. EdgeAdded(g, b2, n, e)
  BY <1>4, <1>5, AddEdgeFacts
<1> HIDE DEF b2, e
<1>7. Sound(b2) /\ n \in 1..Newest(b2) /\ x \in 1..Newest(b2)
  BY <1>5, <1>6 DEF EdgeAdded
<1>8. EdgeAdded(b2, c, n, x)
  BY <1>7, AddEdgeFacts DEF x
<1> HIDE DEF c, to
<1>9. /\ Sound(c) /\ Newest(c) = hi /\ c.stmt = g.stmt
      /\ \A m \in 1..hi : m # n => c.succ[m] = g.succ[m]
      /\ Range(c.succ[n]) = Range(g.succ[n]) \cup {e, x}
  BY <1>6, <1>8 DEF EdgeAdded
<1> HIDE DEF hi, g
<1>10. n \in 1..n /\ g.succ[n] = b1.succ[n] /\ g.stmt[n] = s
  BY <1>1, <1>4 DEF Agree
<1>11. to[n] = {e, x}
  BY <1>1, <1>5, <1>9, <1>10 DEF to, SuccessorsOf
<1>12. Agree(g, c, n + 1, hi)
  <2>1. \A m \in N : m \in 1..hi /\ m # n
    BY <1>1, <1>4
  <2>2. QED
    BY <1>9, <2>1 DEF Agree
<1>13. Region(to, N, e, x, FoldedCompletesNormally[s.body], Bad(s.body))
  <2> DEFINE lo == n + 1
  <2>1. /\ lo \in Nat /\ 1 <= lo /\ hi \in Nat
        /\ Newest(g) \in Nat /\ Newest(c) \in Nat /\ hi <= Newest(g) /\ hi <= Newest(c)
    BY <1>1, <1>4, <1>9 DEF hi
  <2>2. Agree(g, c, lo, hi) /\ Region(SuccessorsOf(g), lo..hi, e, x, FoldedCompletesNormally[s.body], Bad(s.body))
    BY <1>4, <1>12
  <2> HIDE DEF lo
  <2>3. Region(SuccessorsOf(c), lo..hi, e, x, FoldedCompletesNormally[s.body], Bad(s.body))
    BY ONLY <2>1, <2>2, RegionKept
  <2>4. QED
    BY <2>3 DEF lo, to
<1>14. n \notin N /\ {n} \cup N = (o + 1)..Newest(c)
  BY <1>1, <1>4, <1>9
<1>15. Region(to, {n} \cup N, n, x, TRUE, Bad(s.body))
  <2> HIDE DEF N
  <2>1. n \notin N /\ n # x /\ to[n] = {e, x}
    BY <1>1, <1>11, <1>14
  <2>2. QED
    BY ONLY <1>13, <2>1, OneBranch
<1>16. \A m \in {n} \cup N : IsStatementNode(c, m)
  <2>1. IsStatementNode(c, n)
    BY <1>9, <1>10 DEF IsStatementNode
  <2>2. \A m \in N : IsStatementNode(c, m)
    BY <1>4, <1>12 DEF IsStatementNode, Agree
  <2>3. QED
    BY <2>1, <2>2
<1>17. Extends(next.graph, c)
  <2>1. \A m \in 1..o : m \in 1..n /\ m \in 1..hi /\ m # n
    BY <1>1, <1>4
  <2>2. \A m \in 1..o : c.stmt[m] = next.graph.stmt[m] /\ c.succ[m] = next.graph.succ[m]
    BY <1>1, <1>4, <1>9, <2>1 DEF Extends, Agree, o
  <2>3. o <= Newest(c)
    BY <1>1, <1>4, <1>9
  <2>4. QED
    BY <2>2, <2>3 DEF Extends, o
<1>18. Built(next, [entry |-> n, graph |-> c], TRUE, Bad(s.body))
  <2> DEFINE M == {n} \cup N
  <2>1. M = (Newest(next.graph) + 1)..Newest(c)
    BY <1>14 DEF o
  <2>2. \A m \in M : c.stmt[m] # Sentinel /\ (c.stmt[m].kind = "return" => c.succ[m] = << >>)
    BY <1>16 DEF IsStatementNode
  <2>3. Ready(next) /\ n \in Nat /\ Sound(c) /\ Region(SuccessorsOf(c), M, n, next.entry, TRUE, Bad(s.body))
    BY <1>1, <1>9, <1>15 DEF x, to
  <2> HIDE DEF M
  <2>4. QED
    BY ONLY <1>17, <2>1, <2>2, <2>3, BuiltRecord
<1>19. QED
  BY <1>2, <1>18

\* A branch node with all that is built behind it, put together.
LEMMA BranchBuilt ==
  ASSUME NEW next, Ready(next), NEW s \in Statements, s # Sentinel, s.kind # "return",
         NEW n, n = Newest(next.graph) + 1,
         NEW c, Sound(c), Agree(next.graph, c, 1, Newest(next.graph)), c.stmt[n] = s,
         n < Newest(c), \A m \in (n + 1)..Newest(c) : IsStatementNode(c, m),
         NEW e \in Nat, NEW C, NEW B,
         Region(SuccessorsOf(c), {n} \cup ((n + 1)..Newest(c)), e, next.entry, C, B)
  PROVE  Built(next, [entry |-> e, graph |-> c], C, B)
<1> DEFINE M == {n} \cup ((n + 1)..Newest(c))
<1>1. Newest(next.graph) \in Nat /\ Newest(c) \in Nat
  BY SizeIsNat DEF Ready
<1>2. M = (Newest(next.graph) + 1)..Newest(c)
  BY <1>1
<1>3. \A m \in M : c.stmt[m] # Sentinel /\ (c.stmt[m].kind = "return" => c.succ[m] = << >>)
  BY DEF IsStatementNode
<1>4. Extends(next.graph, c)
  BY <1>1 DEF Extends, Agree
<1>5. Ready(next) /\ e \in Nat /\ Sound(c) /\ Region(SuccessorsOf(c), M, e, next.entry, C, B)
  OBVIOUS
<1> HIDE DEF M
<1>6. QED
  BY ONLY <1>2, <1>3, <1>4, <1>5, BuiltRecord

\* An if statement with else is built as the rules say.
LEMMA IfElseBuilt ==
  ASSUME NEW next, Ready(next), NEW s \in Statements, s # Sentinel, s.kind = "ifElse",
         Good(s.body), Good(s.else)
  PROVE  Built(next, BuildIfStmt(BuildStmt, s, next),
               FoldedCompletesNormally[s.body] \/ FoldedCompletesNormally[s.else],
               Bad(s.body) \/ Bad(s.else))
<1> DEFINE b1 == AddNode(next.graph, s)
           n == Newest(b1)
           x == next.entry
           o == Newest(next.graph)
           p == [entry |-> x, graph |-> b1]
           then == BuildStmt[s.body][p]
           g == then.graph
           e == then.entry
           h == Newest(g)
           b2 == AddEdge(g, n, e)
           p2 == [entry |-> x, graph |-> b2]
           other == BuildStmt[s.else][p2]
           k == other.graph
           f == other.entry
           c == AddEdge(k, n, f)
           z == Newest(c)
           C1 == FoldedCompletesNormally[s.body]
           C2 == FoldedCompletesNormally[s.else]
           B1 == Bad(s.body)
           B2 == Bad(s.else)
           to == SuccessorsOf(c)
<1>1. /\ o \in Nat /\ n = o + 1 /\ n \in Nat
      /\ b1 \in PartialGraphs /\ Sound(b1) /\ Extends(next.graph, b1)
      /\ b1.stmt[n] = s /\ Range(b1.succ[n]) = {}
      /\ x # n /\ x \in 1..o
      /\ Ready(p)
      /\ [next EXCEPT !.graph = b1] = p
  BY BranchNode
<1>2. Built(p, then, C1, B1)
  BY <1>1 DEF Good
<1>3. /\ Sound(g) /\ h \in Nat /\ n < h /\ e \in (n + 1)..h /\ e \in 1..h
      /\ Agree(b1, g, 1, n)
      /\ \A m \in (n + 1)..h : IsStatementNode(g, m)
      /\ Region(SuccessorsOf(g), (n + 1)..h, e, x, C1, B1)
  <2>1. p.graph = b1 /\ p.entry = x
    OBVIOUS
  <2> HIDE DEF p, then, C1, B1
  <2>2. QED
    BY <1>1, <1>2, <2>1, BuiltParts
<1> HIDE DEF then, g, e
<1>4. EdgeAdded(g, b2, n, e)
  BY <1>1, <1>3, AddEdgeFacts
<1>5. /\ Sound(b2) /\ Newest(b2) = h /\ b2.stmt = g.stmt
      /\ \A m \in 1..h : m # n => b2.succ[m] = g.succ[m]
      /\ Range(b2.succ[n]) = Range(g.succ[n]) \cup {e}
  BY <1>4 DEF EdgeAdded
<1> HIDE DEF b2
<1>6. b2 \in PartialGraphs /\ x \in 1..h
  BY <1>1, <1>3, <1>5 DEF Sound
<1>7. Ready(p2) /\ [next EXCEPT !.graph = b2] = p2
  BY <1>1, <1>5, <1>6, FragmentFacts DEF Ready
<1>8. Built(p2, other, C2, B2)
  BY <1>7 DEF Good
<1>9. BuildIfStmt(BuildStmt, s, next) = [entry |-> n, graph |-> c]
  <2>1. BuildStmt[s.body][[next EXCEPT !.graph = b1]] = then
    BY <1>1 DEF then
  <2>2. AddEdge(then.graph, n, then.entry) = b2
    BY DEF b2, g, e
  <2>3. BuildStmt[s.else][[next EXCEPT !.graph = b2]] = other
    BY <1>7
  <2> HIDE DEF then, other
  <2>4. QED
    BY <2>1, <2>2, <2>3 DEF BuildIfStmt
<1>10. /\ Sound(k) /\ Newest(k) \in Nat /\ h < Newest(k) /\ f \in (h + 1)..Newest(k) /\ f \in 1..Newest(k)
       /\ Agree(b2, k, 1, h)
       /\ \A m \in (h + 1)..Newest(k) : IsStatementNode(k, m)
       /\ Region(SuccessorsOf(k), (h + 1)..Newest(k), f, x, C2, B2)
  <2>1. p2.graph = b2 /\ p2.entry = x
    OBVIOUS
  <2> HIDE DEF p2, other, C2, B2
  <2>2. QED
    BY <1>5, <1>7, <1>8, <2>1, BuiltParts
<1> HIDE DEF other, k, f, p2, p, b1, x, o, h, C1, C2, B1, B2
<1>11. n \in 1..Newest(k)
  BY <1>1, <1>3, <1>10
<1>12. EdgeAdded(k, c, n, f)
  BY <1>10, <1>11, AddEdgeFacts
<1>13. /\ Sound(c) /\ z = Newest(k) /\ c.stmt = k.stmt
       /\ \A m \in 1..z : m # n => c.succ[m] = k.succ[m]
       /\ Range(c.succ[n]) = Range(k.succ[n]) \cup {f}
  BY <1>12 DEF EdgeAdded
<1> HIDE DEF c, to
<1>14. /\ 1..o \subseteq 1..h /\ 1..o \subseteq 1..n /\ (n + 1)..h \subseteq 1..h /\ 1..h \subseteq 1..z
       /\ (h + 1)..z \subseteq 1..z /\ n \in 1..n /\ n \in 1..h
       /\ n \notin 1..o /\ n \notin (n + 1)..h /\ n \notin (h + 1)..z
       /\ ((n + 1)..h) \cap ((h + 1)..z) = {}
       /\ (n + 1)..z = ((n + 1)..h) \cup ((h + 1)..z)
       /\ z \in Nat /\ n < z
  BY <1>1, <1>3, <1>10, <1>13
<1> HIDE DEF z, n
<1>15. \A m \in 1..h : m # n => c.stmt[m] = g.stmt[m] /\ c.succ[m] = g.succ[m]
  BY <1>5, <1>10, <1>13, <1>14 DEF Agree
<1>16. c.stmt[n] = s /\ Range(c.succ[n]) = {e, f}
  <2>1. g.stmt[n] = s /\ Range(g.succ[n]) = {}
    BY <1>1, <1>3, <1>14 DEF Agree
  <2>2. k.stmt[n] = s /\ Range(k.succ[n]) = {e}
    BY <1>5, <1>10, <1>14, <2>1 DEF Agree
  <2>3. QED
    BY <1>13, <2>2
<1>17. to[n] = {e, f}
  BY <1>14, <1>16 DEF to, SuccessorsOf, z
<1>18. Agree(g, c, n + 1, h)
  BY <1>14, <1>15 DEF Agree
<1>19. Agree(k, c, h + 1, z)
  BY <1>13, <1>14 DEF Agree
<1>20. Region(to, (n + 1)..h, e, x, C1, B1)
  <2> DEFINE lo == n + 1
  <2>1. /\ lo \in Nat /\ 1 <= lo /\ h \in Nat
        /\ Newest(g) \in Nat /\ Newest(c) \in Nat /\ h <= Newest(g) /\ h <= Newest(c)
    BY <1>1, <1>3, <1>10, <1>13, <1>14 DEF h, z
  <2>2. Agree(g, c, lo, h) /\ Region(SuccessorsOf(g), lo..h, e, x, C1, B1)
    BY <1>3, <1>18
  <2> HIDE DEF lo
  <2>3. Region(SuccessorsOf(c), lo..h, e, x, C1, B1)
    BY ONLY <2>1, <2>2, RegionKept
  <2>4. QED
    BY <2>3 DEF lo, to
<1>21. Region(to, (h + 1)..z, f, x, C2, B2)
  <2> DEFINE lo == h + 1
  <2>1. /\ lo \in Nat /\ 1 <= lo /\ z \in Nat
        /\ Newest(k) \in Nat /\ Newest(c) \in Nat /\ z <= Newest(k) /\ z <= Newest(c)
    BY <1>3, <1>10, <1>13, <1>14 DEF z
  <2>2. Agree(k, c, lo, z) /\ Region(SuccessorsOf(k), lo..z, f, x, C2, B2)
    BY <1>10, <1>13, <1>19
  <2> HIDE DEF lo
  <2>3. Region(SuccessorsOf(c), lo..z, f, x, C2, B2)
    BY ONLY <2>1, <2>2, RegionKept
  <2>4. QED
    BY <2>3 DEF lo, to
<1>22. Region(to, {n} \cup ((n + 1)..z), n, x, C1 \/ C2, B1 \/ B2)
  <2> DEFINE N1 == (n + 1)..h
             N2 == (h + 1)..z
  <2>1. n \notin N1 \cup N2 /\ n # x /\ N1 \cap N2 = {} /\ to[n] = {e, f}
    BY <1>1, <1>14, <1>17
  <2>2. Region(to, N1, e, x, C1, B1) /\ Region(to, N2, f, x, C2, B2)
    BY <1>20, <1>21
  <2>3. (n + 1)..z = N1 \cup N2
    BY <1>14
  <2> HIDE DEF N1, N2
  <2>5. {n} \cup ((n + 1)..z) = {n} \cup N1 \cup N2
    BY <2>3
  <2> DEFINE N == {n} \cup ((n + 1)..z)
  <2>6. N = {n} \cup N1 \cup N2
    BY <2>5
  <2>4. Forks(to, n, N, N1, N2, e, f, x)
    BY <2>1, <2>6 DEF Forks
  <2> HIDE DEF N
  <2>7. Region(to, N, n, x, C1 \/ C2, B1 \/ B2)
    BY ONLY <2>2, <2>4, TwoBranches
  <2>8. QED
    BY <2>7 DEF N
<1>23. ASSUME NEW m \in (n + 1)..z
       PROVE  IsStatementNode(c, m)
  <2>1. CASE m \in (n + 1)..h
    BY <1>3, <1>18, <2>1 DEF IsStatementNode, Agree
  <2>2. CASE m \in (h + 1)..z
    BY <1>10, <1>13, <1>19, <2>2 DEF IsStatementNode, Agree
  <2>3. QED
    BY <1>14, <2>1, <2>2
<1>24. Agree(next.graph, c, 1, o)
  <2>1. \A m \in 1..o : c.stmt[m] = g.stmt[m] /\ c.succ[m] = g.succ[m]
    BY <1>14, <1>15
  <2>2. \A m \in 1..o : g.stmt[m] = next.graph.stmt[m] /\ g.succ[m] = next.graph.succ[m]
    BY <1>1, <1>3, <1>14 DEF Agree, Extends, o
  <2>3. QED
    BY <2>1, <2>2 DEF Agree
<1>25. Built(next, [entry |-> n, graph |-> c], C1 \/ C2, B1 \/ B2)
  <2>1. s.kind # "return"
    OBVIOUS
  <2>2. /\ Agree(next.graph, c, 1, Newest(next.graph)) /\ n = Newest(next.graph) + 1
        /\ n < Newest(c) /\ \A m \in (n + 1)..Newest(c) : IsStatementNode(c, m)
        /\ Region(SuccessorsOf(c), {n} \cup ((n + 1)..Newest(c)), n, next.entry, C1 \/ C2, B1 \/ B2)
    BY <1>1, <1>14, <1>22, <1>23, <1>24 DEF o, z, x, to
  <2>3. QED
    BY <1>1, <1>13, <1>16, <2>1, <2>2, BranchBuilt
<1>26. QED
  BY <1>9, <1>25 DEF C1, C2, B1, B2
-----------------------------------------------------------------------------
(***************************************************************************)
(* Loops.                                                                  *)
(***************************************************************************)
\* No condition folds to both.
LEMMA FoldsToOne ==
  ASSUME NEW e
  PROVE  /\ ~(FoldsTo(e, TRUE) /\ FoldsTo(e, FALSE))
         /\ FoldsTo(e, TRUE) \in BOOLEAN /\ FoldsTo(e, FALSE) \in BOOLEAN
<1>1. Truth(TRUE).val = TRUE /\ Truth(FALSE).val = FALSE
  BY DEF Truth
<1>2. QED
  BY <1>1 DEF FoldsTo

\* Around a loop whose condition may fold.
Loops(to, b, M, N, e, exit, cond) ==
  /\ M = {b} \cup N /\ exit \notin M
  /\ FoldsTo(cond, TRUE) => to[b] = {e}
  /\ FoldsTo(cond, FALSE) => to[b] = {exit}
  /\ ~FoldsTo(cond, TRUE) /\ ~FoldsTo(cond, FALSE) => to[b] = {e, exit}

\* What the rules say of a loop whose body has an unreachable node just if B.
LoopRule(cond, B, D, E) ==
  (D <=> ~FoldsTo(cond, TRUE)) /\ (E <=> FoldsTo(cond, FALSE) \/ B)

\* The region of a loop whose condition may fold.
LEMMA LoopRegion ==
  ASSUME NEW to, NEW b, NEW M, NEW N, NEW e, NEW exit, NEW cond, NEW C, NEW B, NEW D, NEW E,
         Loops(to, b, M, N, e, exit, cond), Region(to, N, e, b, C, B),
         LoopRule(cond, B, D, E)
  PROVE  Region(to, M, b, exit, D, E)
<1>1. Region(to, N, e, b, C, B) /\ exit \notin {b} \cup N
  BY DEF Loops
<1>2. /\ to[b] = {e} => Region(to, {b} \cup N, b, exit, FALSE, B)
      /\ to[b] = {e, exit} => Region(to, {b} \cup N, b, exit, TRUE, B)
      /\ to[b] = {exit} => Region(to, {b} \cup N, b, exit, TRUE, TRUE)
  BY ONLY <1>1, AroundALoop
<1>3. M = {b} \cup N
  BY DEF Loops
<1>4. CASE FoldsTo(cond, TRUE)
  <2>1. Region(to, M, b, exit, FALSE, B) /\ ~D /\ (E <=> B)
    BY <1>2, <1>3, <1>4, FoldsToOne DEF Loops, LoopRule
  <2>2. QED
    BY <2>1 DEF Region
<1>5. CASE FoldsTo(cond, FALSE)
  <2>1. Region(to, M, b, exit, TRUE, TRUE) /\ D /\ E
    BY <1>2, <1>3, <1>5, FoldsToOne DEF Loops, LoopRule
  <2>2. QED
    BY <2>1 DEF Region
<1>6. CASE ~FoldsTo(cond, TRUE) /\ ~FoldsTo(cond, FALSE)
  <2>1. Region(to, M, b, exit, TRUE, B) /\ D /\ (E <=> B)
    BY <1>2, <1>3, <1>6 DEF Loops, LoopRule
  <2>2. QED
    BY <2>1 DEF Region
<1>7. QED
  BY <1>4, <1>5, <1>6

\* What LoopEdges adds to a graph.
LoopAdded(g, c, cond, n, e, x) ==
  /\ Sound(c) /\ Newest(c) = Newest(g) /\ c.stmt = g.stmt
  /\ \A m \in 1..Newest(g) : m # n => c.succ[m] = g.succ[m]
  /\ FoldsTo(cond, TRUE) => SuccessorsOf(c)[n] = {e}
  /\ FoldsTo(cond, FALSE) => SuccessorsOf(c)[n] = {x}
  /\ ~FoldsTo(cond, TRUE) /\ ~FoldsTo(cond, FALSE) => SuccessorsOf(c)[n] = {e, x}

\* LoopEdges adds the edges its name promises, and the folded condition decides
\* which.
LEMMA LoopEdgesFacts ==
  ASSUME NEW g, Sound(g), NEW n \in 1..Newest(g), NEW e \in 1..Newest(g), NEW x \in 1..Newest(g),
         Range(g.succ[n]) = {}, NEW cond, NEW c, c = LoopEdges(g, cond, n, e, x)
  PROVE  LoopAdded(g, c, cond, n, e, x)
<1> DEFINE c1 == AddEdge(g, n, e)
           c2 == AddEdge(g, n, x)
           c3 == AddEdge(c1, n, x)
<1>1. EdgeAdded(g, c1, n, e) /\ EdgeAdded(g, c2, n, x)
  BY AddEdgeFacts
<1>2. c = IF FoldsTo(cond, TRUE) THEN c1 ELSE IF FoldsTo(cond, FALSE) THEN c2 ELSE c3
  BY FoldsToOne DEF LoopEdges
<1> HIDE DEF c1, c2
<1>3. Sound(c1) /\ n \in 1..Newest(c1) /\ x \in 1..Newest(c1)
  BY <1>1 DEF EdgeAdded
<1>4. EdgeAdded(c1, c3, n, x)
  BY <1>3, AddEdgeFacts
<1> HIDE DEF c3
<1>5. /\ Sound(c1) /\ Newest(c1) = Newest(g) /\ c1.stmt = g.stmt
      /\ \A m \in 1..Newest(g) : m # n => c1.succ[m] = g.succ[m]
      /\ Range(c1.succ[n]) = {e}
  BY <1>1 DEF EdgeAdded
<1>6. /\ Sound(c2) /\ Newest(c2) = Newest(g) /\ c2.stmt = g.stmt
      /\ \A m \in 1..Newest(g) : m # n => c2.succ[m] = g.succ[m]
      /\ Range(c2.succ[n]) = {x}
  BY <1>1 DEF EdgeAdded
<1>7. /\ Sound(c3) /\ Newest(c3) = Newest(g) /\ c3.stmt = g.stmt
      /\ \A m \in 1..Newest(g) : m # n => c3.succ[m] = g.succ[m]
      /\ Range(c3.succ[n]) = {e, x}
  BY <1>4, <1>5 DEF EdgeAdded
<1>8. CASE FoldsTo(cond, TRUE)
  BY <1>2, <1>5, <1>8, FoldsToOne DEF SuccessorsOf, LoopAdded
<1>9. CASE FoldsTo(cond, FALSE)
  BY <1>2, <1>6, <1>9, FoldsToOne DEF SuccessorsOf, LoopAdded
<1>10. CASE ~FoldsTo(cond, TRUE) /\ ~FoldsTo(cond, FALSE)
  BY <1>2, <1>7, <1>10 DEF SuccessorsOf, LoopAdded
<1>11. QED
  BY <1>8, <1>9, <1>10

\* A branch node at n without edges, and the body of its loop behind node h.
LoopToClose(g, n, h, e, x) ==
  /\ Sound(g) /\ h \in Nat /\ n \in 1..h /\ h < Newest(g) /\ n \in 1..Newest(g)
  /\ x \in 1..Newest(g) /\ x < n
  /\ e \in (h + 1)..Newest(g)
  /\ Range(g.succ[n]) = {}

\* The graph c is g with the edges of the loop at n.
LoopClosed(g, c, n, h, x, D, E) ==
  /\ Sound(c) /\ Newest(c) = Newest(g) /\ c.stmt = g.stmt
  /\ \A m \in 1..Newest(g) : m # n => c.succ[m] = g.succ[m]
  /\ Region(SuccessorsOf(c), {n} \cup ((h + 1)..Newest(c)), n, x, D, E)

\* LoopEdges closes a loop as the rules say.
LEMMA LoopBuilt ==
  ASSUME NEW g, NEW n, NEW h, NEW e, NEW x, LoopToClose(g, n, h, e, x),
         NEW C, NEW B, Region(SuccessorsOf(g), (h + 1)..Newest(g), e, n, C, B),
         NEW cond, NEW c, c = LoopEdges(g, cond, n, e, x),
         NEW D, NEW E, LoopRule(cond, B, D, E)
  PROVE  LoopClosed(g, c, n, h, x, D, E)
<1> DEFINE z == Newest(g)
           lo == h + 1
           N == lo..z
           M == {n} \cup N
           to == SuccessorsOf(c)
<1>1. /\ z \in Nat /\ lo \in Nat /\ 1 <= lo /\ n \in 1..h /\ n \in 1..z /\ e \in 1..z /\ e \in lo..z
      /\ x \in 1..z /\ x < n /\ h \in Nat /\ h < z /\ Sound(g) /\ Range(g.succ[n]) = {}
  BY SizeIsNat DEF LoopToClose
<1>2. LoopAdded(g, c, cond, n, e, x)
  BY <1>1, LoopEdgesFacts
<1>21. /\ Sound(c) /\ Newest(c) = z /\ c.stmt = g.stmt
      /\ \A m \in 1..z : m # n => c.succ[m] = g.succ[m]
  BY <1>2 DEF LoopAdded
<1>3. n \notin N /\ x \notin N /\ x # n /\ \A m \in N : m \in 1..z
  BY <1>1
<1>4. Agree(g, c, lo, z)
  BY <1>21, <1>3 DEF Agree
<1>5. Region(SuccessorsOf(g), N, e, n, C, B)
  OBVIOUS
<1>6. Newest(g) \in Nat /\ Newest(c) \in Nat /\ z <= Newest(g) /\ z <= Newest(c)
  BY <1>1, <1>21
<1> HIDE DEF z, lo
<1>7. Region(to, N, e, n, C, B)
  BY ONLY <1>1, <1>4, <1>5, <1>6, RegionKept
<1> HIDE DEF N
<1>8. Loops(to, n, M, N, e, x, cond)
  BY <1>2, <1>3 DEF Loops, LoopAdded
<1> HIDE DEF to
<1> HIDE DEF M
<1>9. LoopRule(cond, B, D, E)
  OBVIOUS
<1>10. Region(to, M, n, x, D, E)
  BY ONLY <1>7, <1>8, <1>9, LoopRegion
<1>11. M = {n} \cup ((h + 1)..Newest(c))
  BY <1>21 DEF M, N, lo
<1>12. QED
  BY <1>21, <1>10, <1>11 DEF z, to, LoopClosed

\* A while statement is built as the rules say.
LEMMA WhileBuilt ==
  ASSUME NEW next, Ready(next), NEW s \in Statements, s # Sentinel, s.kind = "while", Good(s.body)
  PROVE  Built(next, BuildWhileStmt(BuildStmt, s, next), FoldedCompletesNormally[s], Bad(s))
<1> DEFINE b1 == AddNode(next.graph, s)
           n == Newest(b1)
           x == next.entry
           o == Newest(next.graph)
           p == [entry |-> n, graph |-> b1]
           body == BuildStmt[s.body][p]
           g == body.graph
           e == body.entry
           z == Newest(g)
           c == LoopEdges(g, s.cond, n, e, x)
           Cb == FoldedCompletesNormally[s.body]
           Bb == Bad(s.body)
           D == FoldedCompletesNormally[s]
           E == Bad(s)
           to == SuccessorsOf(c)
<1>1. /\ o \in Nat /\ n = o + 1 /\ n \in Nat
      /\ b1 \in PartialGraphs /\ Sound(b1) /\ Extends(next.graph, b1)
      /\ b1.stmt[n] = s /\ Range(b1.succ[n]) = {}
      /\ x # n /\ x \in 1..o
      /\ Ready(p)
  BY BranchNode
<1>2. Built(p, body, Cb, Bb)
  BY <1>1 DEF Good
<1>3. BuildWhileStmt(BuildStmt, s, next) = [entry |-> n, graph |-> c]
  BY DEF BuildWhileStmt
<1>31. LoopRule(s.cond, Bb, D, E)
  BY FoldedCompletesNormallyDef, FoldedSomethingUnreachableDef, FoldedUpdateCutOffDef
     DEF FoldedCompletes, FoldedHoldsUnreachable, FoldedCutsOffUpdate, Bad, LoopRule
<1> HIDE DEF D, E
<1>4. /\ Sound(g) /\ z \in Nat /\ n < z /\ e \in (n + 1)..z /\ e \in 1..z
      /\ Agree(b1, g, 1, n)
      /\ \A m \in (n + 1)..z : IsStatementNode(g, m)
      /\ Region(SuccessorsOf(g), (n + 1)..z, e, n, Cb, Bb)
  <2>1. p.graph = b1 /\ p.entry = n
    OBVIOUS
  <2> HIDE DEF p, body, Cb, Bb
  <2>2. QED
    BY <1>1, <1>2, <2>1, BuiltParts
<1> HIDE DEF body, g, e, p, b1, x, o, Cb, Bb
<1>5. n \in 1..n /\ n \in 1..z /\ x \in 1..z /\ x < n
  BY <1>1, <1>4
<1>6. g.stmt[n] = s /\ Range(g.succ[n]) = {}
  BY <1>1, <1>4, <1>5 DEF Agree
<1>61. LoopToClose(g, n, n, e, x)
  BY <1>1, <1>4, <1>5, <1>6 DEF LoopToClose, z
<1> HIDE DEF c, z
<1>7. LoopClosed(g, c, n, n, x, D, E)
  <2>1. c = LoopEdges(g, s.cond, n, e, x) /\ Region(SuccessorsOf(g), (n + 1)..Newest(g), e, n, Cb, Bb)
    BY <1>4 DEF c, z
  <2>2. QED
    BY <1>31, <1>61, <2>1, LoopBuilt
<1>71. /\ Sound(c) /\ Newest(c) = z /\ c.stmt = g.stmt
      /\ \A m \in 1..z : m # n => c.succ[m] = g.succ[m]
      /\ Region(to, {n} \cup ((n + 1)..Newest(c)), n, x, D, E)
  BY <1>7 DEF LoopClosed, z, to
<1> HIDE DEF n, to
<1>8. Agree(next.graph, c, 1, o)
  <2>1. \A m \in 1..o : m \in 1..n /\ m \in 1..z /\ m # n
    BY <1>1, <1>4
  <2>2. QED
    BY <1>1, <1>4, <1>71, <2>1 DEF Agree, Extends, o
<1>9. \A m \in (n + 1)..z : IsStatementNode(c, m)
  <2>1. \A m \in (n + 1)..z : m \in 1..z /\ m # n
    BY <1>1, <1>4
  <2>2. QED
    BY <1>4, <1>71, <2>1 DEF IsStatementNode
<1>10. Built(next, [entry |-> n, graph |-> c], D, E)
  <2>1. s.kind # "return"
    OBVIOUS
  <2>2. /\ Agree(next.graph, c, 1, Newest(next.graph)) /\ n = Newest(next.graph) + 1
        /\ n < Newest(c) /\ \A m \in (n + 1)..Newest(c) : IsStatementNode(c, m)
    BY <1>1, <1>4, <1>71, <1>8, <1>9 DEF o
  <2>5. Region(SuccessorsOf(c), {n} \cup ((n + 1)..Newest(c)), n, next.entry, D, E)
    BY <1>7 DEF x, LoopClosed
  <2>3. c.stmt[n] = s
    BY <1>6, <1>71
  <2>4. QED
    BY <1>1, <1>71, <2>1, <2>2, <2>3, <2>5, BranchBuilt
<1>11. QED
  BY <1>3, <1>10 DEF D, E
-----------------------------------------------------------------------------
(***************************************************************************)
(* For statements and sequences of statements.                             *)
(***************************************************************************)
\* The answers for one region behind another.
OrderRule(C1, B1, C2, B2, C, B) == (C <=> C1 /\ C2) /\ (B <=> B1 \/ B2 \/ ~C1)

\* Two regions one after the other, with the answers by name.
LEMMA RegionsInOrder ==
  ASSUME NEW to, NEW N, NEW N1, NEW N2, NEW e1, NEW e2, NEW exit,
         NEW C1, NEW C2, NEW B1, NEW B2, NEW C, NEW B,
         Region(to, N1, e1, e2, C1, B1), Region(to, N2, e2, exit, C2, B2),
         N1 \cap N2 = {}, exit \notin N1, N = N1 \cup N2, OrderRule(C1, B1, C2, B2, C, B)
  PROVE  Region(to, N, e1, exit, C, B)
<1>1. Region(to, N1 \cup N2, e1, exit, C1 /\ C2, B1 \/ B2 \/ ~C1)
  BY OneAfterTheOther
<1>2. QED
  BY <1>1 DEF Region, OrderRule

\* The same for two fragments.
LEMMA BuiltInOrder ==
  ASSUME NEW next, Ready(next), NEW r2, NEW C2, NEW B2, Built(next, r2, C2, B2),
         NEW r1, NEW C1, NEW B1, Built(r2, r1, C1, B1), NEW C, NEW B,
         OrderRule(C1, B1, C2, B2, C, B)
  PROVE  Built(next, r1, C, B)
<1>1. Built(next, r1, C1 /\ C2, B1 \/ B2 \/ ~C1)
  BY BuiltBefore
<1>2. QED
  BY <1>1 DEF Built, Region, OrderRule

\* The rules on a statement that holds no other and is no return.
LEMMA SimpleRules ==
  ASSUME NEW s \in Statements, s.kind \notin {"block", "if", "ifElse", "while", "for", "return"}
  PROVE  FoldedCompletesNormally[s] /\ ~Bad(s)
BY FoldedCompletesNormallyDef, FoldedSomethingUnreachableDef, FoldedUpdateCutOffDef
   DEF FoldedCompletes, FoldedHoldsUnreachable, FoldedCutsOffUpdate, Bad

\* The rules on a for statement and on its clauses.
LEMMA ForRules ==
  ASSUME NEW s \in Statements, s.kind = "for"
  PROVE  /\ LoopRule(s.cond, Bad(s.body) \/ ~FoldedCompletesNormally[s.body], FoldedCompletesNormally[s], Bad(s))
         /\ FoldedCompletesNormally[s.init] /\ ~Bad(s.init)
         /\ FoldedCompletesNormally[s.update] /\ ~Bad(s.update)
<1>1. LoopRule(s.cond, Bad(s.body) \/ ~FoldedCompletesNormally[s.body], FoldedCompletesNormally[s], Bad(s))
  BY FoldedCompletesNormallyDef, FoldedSomethingUnreachableDef, FoldedUpdateCutOffDef
     DEF FoldedCompletes, FoldedHoldsUnreachable, FoldedCutsOffUpdate, Bad, LoopRule
<1>2. s.init \in Statements /\ s.update \in Statements
  BY PartFacts
<1>3. {s.init.kind, s.update.kind} \subseteq {"decl", "expr", "null"}
  BY StatementsAssumption
<1>4. QED
  BY <1>1, <1>2, <1>3, SimpleRules

\* A for statement is built as the rules say: its initialisation goes on to the
\* branch node, its body to the update clause and that to the branch node.
LEMMA ForBuilt ==
  ASSUME NEW next, Ready(next), NEW s \in Statements, s # Sentinel, s.kind = "for",
         Good(s.init), Good(s.update), Good(s.body)
  PROVE  Built(next, BuildForStmt(BuildStmt, s, next), FoldedCompletesNormally[s], Bad(s))
<1> DEFINE b1 == AddNode(next.graph, s)
           n == Newest(b1)
           x == next.entry
           o == Newest(next.graph)
           p == [entry |-> n, graph |-> b1]
           init == BuildStmt[s.init][p]
           a == init.entry
           u == init.graph
           h == Newest(u)
           v == [entry |-> n, graph |-> u]
           update == BuildStmt[s.update][v]
           body == BuildStmt[s.body][update]
           g == body.graph
           e == body.entry
           z == Newest(g)
           c == LoopEdges(g, s.cond, n, e, x)
           Ci == FoldedCompletesNormally[s.init]
           Bi == Bad(s.init)
           Cu == FoldedCompletesNormally[s.update]
           Bu == Bad(s.update)
           Cb == FoldedCompletesNormally[s.body]
           Bb == Bad(s.body)
           Cl == Cb
           Bl == Bb \/ ~Cb
           D == FoldedCompletesNormally[s]
           E == Bad(s)
           to == SuccessorsOf(c)
<1>1. /\ o \in Nat /\ n = o + 1 /\ n \in Nat
      /\ b1 \in PartialGraphs /\ Sound(b1) /\ Extends(next.graph, b1)
      /\ b1.stmt[n] = s /\ Range(b1.succ[n]) = {}
      /\ x # n /\ x \in 1..o
      /\ Ready(p)
  BY BranchNode
<1>2. Built(p, init, Ci, Bi)
  BY <1>1 DEF Good
<1>3. BuildForStmt(BuildStmt, s, next) = [entry |-> a, graph |-> c]
  BY DEF BuildForStmt
<1>4. LoopRule(s.cond, Bl, D, E) /\ Ci /\ ~Bi /\ Cu /\ ~Bu
  BY ForRules
<1>5. /\ Sound(u) /\ u \in PartialGraphs /\ h \in Nat /\ n < h /\ a \in (n + 1)..h /\ a \in Nat
      /\ Agree(b1, u, 1, n)
      /\ \A m \in (n + 1)..h : IsStatementNode(u, m)
      /\ Region(SuccessorsOf(u), (n + 1)..h, a, n, Ci, Bi)
  <2>1. p.graph = b1 /\ p.entry = n
    OBVIOUS
  <2> HIDE DEF p, init, Ci, Bi
  <2>2. QED
    BY <1>1, <1>2, <2>1, BuiltParts
<1> HIDE DEF init, a, u
<1>6. Ready(v)
  <2>1. v.graph = u /\ v.entry = n /\ v \in Fragments
    BY <1>1, <1>5, FragmentFacts
  <2>2. n \in 1..h
    BY <1>1, <1>5
  <2> HIDE DEF v
  <2>3. QED
    BY <1>5, <2>1, <2>2 DEF Ready
<1>7. Built(v, update, Cu, Bu)
  BY <1>6 DEF Good
<1>8. Ready(update)
  <2> HIDE DEF v, update, Cu, Bu
  <2>1. QED
    BY <1>6, <1>7, BuiltIsReady
<1>9. Built(update, body, Cb, Bb)
  BY <1>8 DEF Good
<1>10. Built(v, body, Cl, Bl)
  <2>1. OrderRule(Cb, Bb, Cu, Bu, Cl, Bl)
    BY <1>4 DEF OrderRule
  <2> HIDE DEF v, update, body, Cb, Bb, Cu, Bu, Cl, Bl
  <2>2. QED
    BY <1>6, <1>7, <1>9, <2>1, BuiltInOrder
<1> HIDE DEF Ci, Bi, Cu, Bu, Cb, Bb, Cl, Bl, D, E
<1>11. /\ Sound(g) /\ z \in Nat /\ h < z /\ e \in (h + 1)..z /\ e \in 1..z
       /\ Agree(u, g, 1, h)
       /\ \A m \in (h + 1)..z : IsStatementNode(g, m)
       /\ Region(SuccessorsOf(g), (h + 1)..z, e, n, Cl, Bl)
  <2>1. v.graph = u /\ v.entry = n
    OBVIOUS
  <2> HIDE DEF v, body, update
  <2>2. QED
    BY <1>6, <1>10, <2>1, BuiltParts
<1> HIDE DEF update, body, g, e, p, v, b1, x, o
<1>12. /\ n \in 1..n /\ n \in 1..h /\ n \in 1..z /\ x \in 1..z /\ x < n
       /\ 1..o \subseteq 1..n /\ 1..n \subseteq 1..h /\ 1..h \subseteq 1..z
       /\ (n + 1)..h \subseteq 1..h /\ (h + 1)..z \subseteq 1..z
       /\ n \notin 1..o /\ n \notin (n + 1)..h /\ n \notin (h + 1)..z /\ x \notin (n + 1)..h
       /\ (n + 1)..z = ((n + 1)..h) \cup ((h + 1)..z)
       /\ ((n + 1)..h) \cap ((h + 1)..z) = {}
  BY <1>1, <1>5, <1>11
<1>13. g.stmt[n] = s /\ Range(g.succ[n]) = {}
  <2>1. u.stmt[n] = s /\ u.succ[n] = b1.succ[n]
    BY <1>1, <1>5, <1>12 DEF Agree
  <2>2. QED
    BY <1>1, <1>11, <1>12, <2>1 DEF Agree
<1>14. LoopToClose(g, n, h, e, x)
  BY <1>5, <1>11, <1>12, <1>13 DEF LoopToClose, z
<1> HIDE DEF c
<1>15. LoopClosed(g, c, n, h, x, D, E)
  <2>1. c = LoopEdges(g, s.cond, n, e, x) /\ Region(SuccessorsOf(g), (h + 1)..Newest(g), e, n, Cl, Bl)
    BY <1>11 DEF c, z
  <2>2. QED
    BY <1>4, <1>14, <2>1, LoopBuilt
<1> HIDE DEF z
<1>16. /\ Sound(c) /\ Newest(c) = z /\ c.stmt = g.stmt
       /\ \A m \in 1..z : m # n => c.succ[m] = g.succ[m]
  BY <1>15 DEF LoopClosed, z
<1> HIDE DEF n, to, h
<1>17. Agree(u, c, n + 1, h)
  BY <1>11, <1>12, <1>16 DEF Agree
<1>18. Region(to, (n + 1)..h, a, n, Ci, Bi)
  <2> DEFINE lo == n + 1
  <2>1. /\ lo \in Nat /\ 1 <= lo /\ h \in Nat
        /\ Newest(u) \in Nat /\ Newest(c) \in Nat /\ h <= Newest(u) /\ h <= Newest(c)
    BY <1>1, <1>5, <1>11, <1>16 DEF h
  <2>2. Agree(u, c, lo, h) /\ Region(SuccessorsOf(u), lo..h, a, n, Ci, Bi)
    BY <1>5, <1>17
  <2> HIDE DEF lo
  <2>3. Region(SuccessorsOf(c), lo..h, a, n, Ci, Bi)
    BY ONLY <2>1, <2>2, RegionKept
  <2>4. QED
    BY <2>3 DEF lo, to
<1>19. Region(to, {n} \cup ((h + 1)..z), n, x, D, E)
  <2>1. Region(to, {n} \cup ((h + 1)..Newest(c)), n, x, D, E)
    BY <1>15 DEF LoopClosed, to
  <2>2. z = Newest(c)
    BY <1>16
  <2>3. QED
    BY <2>1, <2>2
<1>20. Region(to, {n} \cup ((n + 1)..z), a, x, D, E)
  <2> DEFINE N1 == (n + 1)..h
             N2 == {n} \cup ((h + 1)..z)
             N == {n} \cup ((n + 1)..z)
  <2>1. N1 \cap N2 = {} /\ x \notin N1 /\ N = N1 \cup N2
    BY <1>12
  <2>2. Region(to, N1, a, n, Ci, Bi) /\ Region(to, N2, n, x, D, E)
    BY <1>18, <1>19
  <2>3. OrderRule(Ci, Bi, D, E, D, E)
    BY <1>4, FoldedCompletesNormallyDef DEF OrderRule
  <2> HIDE DEF N1, N2, N
  <2>4. Region(to, N, a, x, D, E)
    BY ONLY <2>1, <2>2, <2>3, RegionsInOrder
  <2>5. QED
    BY <2>4 DEF N
<1>21. Agree(next.graph, c, 1, o)
  <2>1. \A m \in 1..o : b1.stmt[m] = next.graph.stmt[m] /\ b1.succ[m] = next.graph.succ[m]
    BY <1>1 DEF Extends, o
  <2>2. \A m \in 1..o : u.stmt[m] = b1.stmt[m] /\ u.succ[m] = b1.succ[m]
    BY <1>5, <1>12 DEF Agree
  <2>3. \A m \in 1..o : c.stmt[m] = u.stmt[m] /\ c.succ[m] = u.succ[m]
    BY <1>11, <1>12, <1>16 DEF Agree
  <2>4. QED
    BY <2>1, <2>2, <2>3 DEF Agree
<1>22. ASSUME NEW m \in (n + 1)..z
       PROVE  IsStatementNode(c, m)
  <2>1. CASE m \in (n + 1)..h
    BY <1>5, <1>17, <2>1 DEF IsStatementNode, Agree
  <2>2. CASE m \in (h + 1)..z
    BY <1>11, <1>12, <1>16, <2>2 DEF IsStatementNode
  <2>3. QED
    BY <1>12, <2>1, <2>2
<1>23. Built(next, [entry |-> a, graph |-> c], D, E)
  <2>1. s.kind # "return" /\ a \in Nat
    BY <1>5
  <2>2. /\ Agree(next.graph, c, 1, Newest(next.graph)) /\ n = Newest(next.graph) + 1
        /\ n < Newest(c) /\ \A m \in (n + 1)..Newest(c) : IsStatementNode(c, m)
    BY <1>1, <1>5, <1>11, <1>16, <1>21, <1>22 DEF o
  <2>3. Region(SuccessorsOf(c), {n} \cup ((n + 1)..Newest(c)), a, next.entry, D, E)
    <3>1. z = Newest(c)
      BY <1>16
    <3>2. QED
      BY <1>20, <3>1 DEF x, to
  <2>4. c.stmt[n] = s
    BY <1>13, <1>16
  <2>5. QED
    BY <1>16, <2>1, <2>2, <2>3, <2>4, BranchBuilt
<1>24. QED
  BY <1>3, <1>23 DEF D, E

\* A sequence of statements, built one by one from the last: the fragments.
Chain(last, stmts) ==
  /\ stmts \in Seq(Statements)
  /\ Ready(last[0])
  /\ \A k \in 1..Len(stmts) :
       /\ Good(stmts[k])
       /\ last[k] = BuildStmt[stmts[Len(stmts) + 1 - k]][last[k - 1]]

\* The statements from the j-th on complete normally.
AllComplete(stmts, j) == \A k \in j..Len(stmts) : FoldedCompletesNormally[stmts[k]]

\* There is something out of reach in the statements from the j-th on.
SomethingBad(stmts, j) ==
  \E k \in j..Len(stmts) :
    Bad(stmts[k]) \/ (k < Len(stmts) /\ ~FoldedCompletesNormally[stmts[k]])

\* Each fragment of a chain is built as the rules say of the statements in it.
LEMMA ChainBuilt ==
  ASSUME NEW last, NEW stmts, Chain(last, stmts)
  PROVE  \A j \in 1..Len(stmts) :
           Built(last[0], last[j], AllComplete(stmts, Len(stmts) + 1 - j),
                 SomethingBad(stmts, Len(stmts) + 1 - j))
<1> DEFINE n == Len(stmts)
           A == {j \in Nat : j + 1 <= n =>
                   Built(last[0], last[j + 1], AllComplete(stmts, n - j), SomethingBad(stmts, n - j))}
<1>1. n \in Nat
  BY DEF Chain
<1>2. Ready(last[0])
  BY DEF Chain
<1>3. ASSUME NEW k \in 1..n, Ready(last[k - 1])
      PROVE  Built(last[k - 1], last[k], FoldedCompletesNormally[stmts[n + 1 - k]], Bad(stmts[n + 1 - k]))
  <2>1. n + 1 - k \in 1..n
    BY <1>1
  <2>2. Good(stmts[n + 1 - k]) /\ last[k] = BuildStmt[stmts[n + 1 - k]][last[k - 1]]
    BY <2>1 DEF Chain
  <2>3. QED
    BY <1>3, <2>2 DEF Good
<1>4. 0 \in A
  <2> SUFFICES ASSUME 1 <= n
               PROVE  Built(last[0], last[1], AllComplete(stmts, n), SomethingBad(stmts, n))
    BY <1>1
  <2>1. 1 \in 1..n /\ 1 - 1 = 0 /\ n + 1 - 1 = n
    BY <1>1
  <2>2. Built(last[0], last[1], FoldedCompletesNormally[stmts[n]], Bad(stmts[n]))
    BY <1>2, <1>3, <2>1
  <2>3. \A k : k \in n..n <=> k = n
    BY <1>1
  <2>4. (AllComplete(stmts, n) <=> FoldedCompletesNormally[stmts[n]]) /\ (SomethingBad(stmts, n) <=> Bad(stmts[n]))
    BY <1>1, <2>3 DEF AllComplete, SomethingBad
  <2>5. QED
    BY <2>2, <2>4 DEF Built, Region
<1>5. ASSUME NEW j \in Nat, j \in A
      PROVE  j + 1 \in A
  <2> DEFINE i1 == n - j
             i2 == n - (j + 1)
             f == stmts[i2]
  <2> SUFFICES ASSUME (j + 1) + 1 <= n
               PROVE  Built(last[0], last[(j + 1) + 1], AllComplete(stmts, i2), SomethingBad(stmts, i2))
    OBVIOUS
  <2>1. /\ (j + 1) + 1 \in 1..n /\ ((j + 1) + 1) - 1 = j + 1 /\ n + 1 - ((j + 1) + 1) = i2
        /\ i1 = i2 + 1 /\ i2 \in 1..n /\ i2 < n /\ j + 1 <= n /\ i2 \in Nat
    BY <1>1
  <2>2. Built(last[0], last[j + 1], AllComplete(stmts, i1), SomethingBad(stmts, i1))
    BY <1>5, <2>1
  <2>3. Ready(last[j + 1])
    BY <1>2, <2>2, BuiltIsReady
  <2>4. Built(last[j + 1], last[(j + 1) + 1], FoldedCompletesNormally[f], Bad(f))
    BY <1>3, <2>1, <2>3
  <2>5. \A k : k \in i2..n <=> k = i2 \/ k \in i1..n
    BY <1>1, <2>1
  <2>6. OrderRule(FoldedCompletesNormally[f], Bad(f), AllComplete(stmts, i1), SomethingBad(stmts, i1),
                  AllComplete(stmts, i2), SomethingBad(stmts, i2))
    BY <2>1, <2>5 DEF OrderRule, AllComplete, SomethingBad
  <2> HIDE DEF i1, i2, f
  <2>7. QED
    BY <1>2, <2>2, <2>4, <2>6, BuiltInOrder
<1>6. \A j \in Nat : j \in A
  <2> HIDE DEF A
  <2>1. QED
    BY <1>4, <1>5, EveryNumber
<1>7. ASSUME NEW j \in 1..n
      PROVE  Built(last[0], last[j], AllComplete(stmts, n + 1 - j), SomethingBad(stmts, n + 1 - j))
  <2>1. j - 1 \in Nat /\ (j - 1) + 1 = j /\ n - (j - 1) = n + 1 - j /\ j <= n
    BY <1>1
  <2>2. j - 1 \in A
    BY <1>6, <2>1
  <2>3. QED
    BY <2>1, <2>2
<1>8. QED
  BY <1>7

\* The rules on a block.
LEMMA BlockRules ==
  ASSUME NEW s \in Statements, s.kind = "block"
  PROVE  /\ FoldedCompletesNormally[s] <=> AllComplete(s.stmts, 1)
         /\ Bad(s) <=> SomethingBad(s.stmts, 1)
<1>1. DOMAIN s.stmts = 1..Len(s.stmts)
  BY PartFacts
<1>2. FoldedCompletesNormally[s] <=> AllComplete(s.stmts, 1)
  BY <1>1, FoldedCompletesNormallyDef DEF FoldedCompletes, AllComplete
<1>3. FoldedSomethingUnreachable[s] <=>
        \E k \in DOMAIN s.stmts :
          \/ FoldedSomethingUnreachable[s.stmts[k]]
          \/ k < Len(s.stmts) /\ ~FoldedCompletesNormally[s.stmts[k]]
  BY FoldedSomethingUnreachableDef DEF FoldedHoldsUnreachable
<1>4. FoldedUpdateCutOff[s] <=> \E k \in DOMAIN s.stmts : FoldedUpdateCutOff[s.stmts[k]]
  BY FoldedUpdateCutOffDef DEF FoldedCutsOffUpdate
<1>5. QED
  BY <1>1, <1>2, <1>3, <1>4 DEF Bad, SomethingBad

\* A block is built as the rules say.
LEMMA BlockBuilt ==
  ASSUME NEW next, Ready(next), NEW s \in Statements, s # Sentinel, s.kind = "block",
         \A k \in DOMAIN s.stmts : Good(s.stmts[k])
  PROVE  Built(next, BuildBlock(BuildStmt, s, next), FoldedCompletesNormally[s], Bad(s))
<1> DEFINE stmts == s.stmts
           n == Len(stmts)
<1>1. stmts \in Seq(Statements) /\ n \in Nat /\ DOMAIN stmts = 1..n
  BY PartFacts
<1>2. CASE stmts = << >>
  <2>1. n = 0
    BY <1>2
  <2>2. AllComplete(stmts, 1) /\ ~SomethingBad(stmts, 1)
    BY <2>1 DEF AllComplete, SomethingBad
  <2>3. FoldedCompletesNormally[s] /\ ~Bad(s)
    BY <2>2, BlockRules
  <2>4. Built(next, BuildOtherStmt(s, next), TRUE, FALSE)
    BY OtherBuilt
  <2>5. QED
    BY <1>2, <2>3, <2>4 DEF Built, Region, BuildBlock
<1>3. CASE stmts # << >>
  <2>1. n \in 1..n /\ n + 1 - n = 1
    BY <1>1, <1>3
  <2>2. PICK last \in [0..n -> Fragments] :
          /\ last[0] = next
          /\ \A k \in 1..n : last[k] = BuildStmt[stmts[n + 1 - k]][last[k - 1]]
          /\ BuildStmts(BuildStmt, stmts, next) = last[n]
    <3>1. BuildStmt \in Builders /\ stmts \in Seq(Statements) /\ next \in Fragments
      BY <1>1, BuildStmtDef DEF Ready
    <3> HIDE DEF stmts
    <3>2. QED
      BY <3>1, BuildStmtsFacts
  <2>3. Chain(last, stmts)
    BY <1>1, <2>2 DEF Chain
  <2>4. Built(last[0], last[n], AllComplete(stmts, n + 1 - n), SomethingBad(stmts, n + 1 - n))
    BY <2>1, <2>3, ChainBuilt
  <2>5. Built(next, last[n], AllComplete(stmts, 1), SomethingBad(stmts, 1))
    BY <2>1, <2>2, <2>4
  <2>6. BuildBlock(BuildStmt, s, next) = last[n]
    BY <1>3, <2>2 DEF BuildBlock
  <2>7. QED
    BY <2>5, <2>6, BlockRules DEF Built, Region
<1>4. QED
  BY <1>2, <1>3
-----------------------------------------------------------------------------
(***************************************************************************)
(* Every statement, by induction on its depth.                             *)
(***************************************************************************)
\* What is built for a statement, and how it goes on to what comes next.
THEOREM EveryFragment == \A s \in Statements \ {Sentinel} : Good(s)
<1> DEFINE D == {Depth[s] : s \in {t \in Statements \ {Sentinel} : ~Good(t)}}
<1> SUFFICES ASSUME D # {}
             PROVE  FALSE
  OBVIOUS
<1>1. D \in SUBSET Nat
  BY StatementsAssumption
<1>2. PICK m \in D : \A k \in D : m <= k
  BY <1>1, Least
<1>3. PICK s \in Statements \ {Sentinel} : ~Good(s) /\ Depth[s] = m
  OBVIOUS
<1>4. ASSUME NEW t \in Parts(s)
      PROVE  Good(t)
  <2>1. t \in Statements /\ t # Sentinel /\ Depth[t] < Depth[s]
    BY StatementsAssumption
  <2>2. Depth[t] \in Nat /\ Depth[s] \in Nat
    BY <2>1, StatementsAssumption
  <2>3. CASE ~Good(t)
    <3>1. Depth[t] \in D
      BY <2>1, <2>3
    <3>2. m <= Depth[t]
      BY <1>2, <3>1
    <3>3. QED
      BY <1>3, <2>1, <2>2, <3>2
  <2>4. QED
    BY <2>3
<1> HIDE DEF D
<1>5. ASSUME NEW next, Ready(next)
      PROVE  Built(next, BuildStmt[s][next], FoldedCompletesNormally[s], Bad(s))
  <2>1. s \in Statements /\ s # Sentinel /\ BuildStmt[s][next] = BuildByKind(BuildStmt, s, next)
    BY <1>5, BuildStmtDef DEF Ready
  <2>2. CASE s.kind = "block"
    <3>1. \A k \in DOMAIN s.stmts : Good(s.stmts[k])
      BY <1>4, <2>1, <2>2, PartFacts
    <3>2. QED
      BY <1>5, <2>1, <2>2, <3>1, BlockBuilt DEF BuildByKind
  <2>3. CASE s.kind = "if"
    <3>1. Good(s.body)
      BY <1>4, <2>1, <2>3, PartFacts
    <3>2. Built(next, BuildIfStmt(BuildStmt, s, next), TRUE, Bad(s.body))
      BY <1>5, <2>1, <2>3, <3>1, IfBuilt
    <3>3. FoldedCompletesNormally[s] /\ (Bad(s) <=> Bad(s.body))
      BY <2>1, <2>3, FoldedCompletesNormallyDef, FoldedSomethingUnreachableDef, FoldedUpdateCutOffDef
         DEF FoldedCompletes, FoldedHoldsUnreachable, FoldedCutsOffUpdate, Bad
    <3>4. BuildStmt[s][next] = BuildIfStmt(BuildStmt, s, next)
      BY <2>1, <2>3 DEF BuildByKind
    <3>5. QED
      BY <3>2, <3>3, <3>4 DEF Built, Region
  <2>4. CASE s.kind = "ifElse"
    <3>1. Good(s.body) /\ Good(s.else)
      BY <1>4, <2>1, <2>4, PartFacts
    <3>2. Built(next, BuildIfStmt(BuildStmt, s, next),
                FoldedCompletesNormally[s.body] \/ FoldedCompletesNormally[s.else],
                Bad(s.body) \/ Bad(s.else))
      BY <1>5, <2>1, <2>4, <3>1, IfElseBuilt
    <3>3. /\ FoldedCompletesNormally[s] <=> FoldedCompletesNormally[s.body] \/ FoldedCompletesNormally[s.else]
          /\ Bad(s) <=> Bad(s.body) \/ Bad(s.else)
      BY <2>1, <2>4, FoldedCompletesNormallyDef, FoldedSomethingUnreachableDef, FoldedUpdateCutOffDef
         DEF FoldedCompletes, FoldedHoldsUnreachable, FoldedCutsOffUpdate, Bad
    <3>4. BuildStmt[s][next] = BuildIfStmt(BuildStmt, s, next)
      BY <2>1, <2>4 DEF BuildByKind
    <3>5. QED
      BY <3>2, <3>3, <3>4 DEF Built, Region
  <2>5. CASE s.kind = "while"
    <3>1. Good(s.body)
      BY <1>4, <2>1, <2>5, PartFacts
    <3>2. QED
      BY <1>5, <2>1, <2>5, <3>1, WhileBuilt DEF BuildByKind
  <2>6. CASE s.kind = "for"
    <3>1. Good(s.init) /\ Good(s.update) /\ Good(s.body)
      BY <1>4, <2>1, <2>6, PartFacts
    <3>2. QED
      BY <1>5, <2>1, <2>6, <3>1, ForBuilt DEF BuildByKind
  <2>7. CASE s.kind = "return"
    <3>1. Built(next, BuildReturnStmt(s, next), FALSE, FALSE)
      BY <1>5, <2>1, ReturnBuilt
    <3>2. ~FoldedCompletesNormally[s] /\ ~Bad(s)
      BY <2>1, <2>7, FoldedCompletesNormallyDef, FoldedSomethingUnreachableDef, FoldedUpdateCutOffDef
         DEF FoldedCompletes, FoldedHoldsUnreachable, FoldedCutsOffUpdate, Bad
    <3>3. BuildStmt[s][next] = BuildReturnStmt(s, next)
      BY <2>1, <2>7 DEF BuildByKind
    <3>4. QED
      BY <3>1, <3>2, <3>3 DEF Built, Region
  <2>8. CASE s.kind \notin {"block", "if", "ifElse", "while", "for", "return"}
    <3>1. Built(next, BuildOtherStmt(s, next), TRUE, FALSE)
      BY <1>5, <2>1, <2>8, OtherBuilt
    <3>2. FoldedCompletesNormally[s] /\ ~Bad(s)
      BY <2>1, <2>8, SimpleRules
    <3>3. BuildStmt[s][next] = BuildOtherStmt(s, next)
      BY <2>1, <2>8 DEF BuildByKind
    <3>4. QED
      BY <3>1, <3>2, <3>3 DEF Built, Region
  <2>9. QED
    BY <2>2, <2>3, <2>4, <2>5, <2>6, <2>7, <2>8
<1>6. QED
  BY <1>3, <1>5 DEF Good
-----------------------------------------------------------------------------
(***************************************************************************)
(* The graph of a method, and the verdict on it.                           *)
(***************************************************************************)
\* A method's graph: the sentinel is node 1, the statements are behind it.
Whole(b, entry, C, B) ==
  /\ Sound(b) /\ Newest(b) \in Nat /\ 1 <= Newest(b)
  /\ entry \in 1..Newest(b)
  /\ b.stmt[1] = Sentinel /\ b.succ[1] = << >>
  /\ \A m \in 2..Newest(b) : IsStatementNode(b, m)
  /\ \/ Newest(b) = 1 /\ C /\ ~B
     \/ Region(SuccessorsOf(b), 2..Newest(b), entry, 1, C, B)

\* The first node: buildCFG starts with the sentinel.
LEMMA SentinelFirst ==
  LET r == BuildStmt[Sentinel][[entry |-> Null, graph |-> EmptyGraph]]
  IN  /\ [entry |-> Null, graph |-> EmptyGraph] \in Fragments
      /\ Ready(r) /\ r.entry = 1 /\ Newest(r.graph) = 1
      /\ r.graph.stmt[1] = Sentinel /\ r.graph.succ[1] = << >>
<1> DEFINE next == [entry |-> Null, graph |-> EmptyGraph]
           b == AddNode(EmptyGraph, Sentinel)
<1>1. /\ EmptyGraph \in PartialGraphs /\ Newest(EmptyGraph) = 0
      /\ EmptyGraph.stmt = << >> /\ EmptyGraph.succ = << >> /\ EmptyGraph.pred = << >>
  BY EmptySeq DEF EmptyGraph, PartialGraphs, Newest
<1>2. Sound(EmptyGraph)
  BY <1>1 DEF Sound, EdgesMirror
<1>3. Sentinel \in Statements
  BY StatementsAssumption
<1>4. /\ Sound(b) /\ Newest(b) = 1 /\ b.stmt[1] = Sentinel /\ b.succ[1] = << >>
  BY <1>1, <1>2, <1>3, AddNodeFacts
<1>5. b \in PartialGraphs
  BY <1>4 DEF Sound
<1> HIDE DEF b
<1>6. next \in Fragments
  BY <1>1, FragmentFacts DEF Null
<1>7. BuildOtherStmt(Sentinel, next) = [entry |-> 1, graph |-> b]
  BY <1>4 DEF BuildOtherStmt, AddEdge, b
<1>8. BuildStmt[Sentinel][next] = [entry |-> 1, graph |-> b]
  <2>1. BuildByKind(BuildStmt, Sentinel, next) = BuildOtherStmt(Sentinel, next)
    BY DEF BuildByKind, Sentinel
  <2>2. BuildStmt[Sentinel][next] = BuildByKind(BuildStmt, Sentinel, next)
    BY <1>3, <1>6, BuildStmtDef
  <2>3. QED
    BY <1>7, <2>1, <2>2
<1>9. [entry |-> 1, graph |-> b] \in Fragments
  BY <1>5, FragmentFacts
<1>10. Ready([entry |-> 1, graph |-> b])
  BY <1>4, <1>9 DEF Ready
<1>11. QED
  BY <1>4, <1>6, <1>8, <1>10

\* The statements of a method, with the sentinel behind them.
LEMMA WholeIsBuilt ==
  ASSUME NEW stmts \in Seq(Statements \ {Sentinel})
  PROVE  LET built == BuildStmts(BuildStmt, Append(stmts, Sentinel), [entry |-> Null, graph |-> EmptyGraph])
         IN  Whole(built.graph, built.entry, AllComplete(stmts, 1), SomethingBad(stmts, 1))
<1> DEFINE n == Len(stmts)
           next == [entry |-> Null, graph |-> EmptyGraph]
           all == Append(stmts, Sentinel)
           first == BuildStmt[Sentinel][next]
           built == BuildStmts(BuildStmt, all, next)
<1>1. /\ n \in Nat /\ stmts \in Seq(Statements) /\ all \in Seq(Statements)
      /\ Len(all) = n + 1 /\ all[n + 1] = Sentinel
      /\ \A k \in 1..n : all[k] = stmts[k] /\ stmts[k] \in Statements \ {Sentinel}
  <2>1. Sentinel \in Statements
    BY StatementsAssumption
  <2>2. stmts \in Seq(Statements)
    OBVIOUS
  <2>3. QED
    BY <2>1, <2>2, AppendFacts
<1>2. /\ next \in Fragments
      /\ Ready(first) /\ first.entry = 1 /\ Newest(first.graph) = 1
      /\ first.graph.stmt[1] = Sentinel /\ first.graph.succ[1] = << >>
  BY SentinelFirst
<1> HIDE DEF next, all, n
<1>3. PICK last \in [0..Len(all) -> Fragments] :
        /\ last[0] = next
        /\ \A k \in 1..Len(all) : last[k] = BuildStmt[all[Len(all) + 1 - k]][last[k - 1]]
        /\ BuildStmts(BuildStmt, all, next) = last[Len(all)]
  <2>1. BuildStmt \in Builders /\ all \in Seq(Statements) /\ next \in Fragments
    BY <1>1, <1>2, BuildStmtDef
  <2>2. QED
    BY <2>1, BuildStmtsFacts
<1>4. built = last[n + 1] /\ last[1] = first
  <2>1. 1 \in 1..(n + 1) /\ (n + 1) + 1 - 1 = n + 1 /\ 1 - 1 = 0
    BY <1>1
  <2>2. last[1] = BuildStmt[all[n + 1]][last[0]]
    BY <1>1, <1>3, <2>1
  <2>3. QED
    BY <1>1, <1>3, <2>2
<1> HIDE DEF first, built
<1>5. CASE n = 0
  <2>1. built = first
    BY <1>4, <1>5
  <2>2. AllComplete(stmts, 1) /\ ~SomethingBad(stmts, 1)
    BY <1>5 DEF AllComplete, SomethingBad, n
  <2>3. \A m : m \notin 2..1
    OBVIOUS
  <2>4. Whole(built.graph, built.entry, AllComplete(stmts, 1), SomethingBad(stmts, 1))
    BY <1>2, <2>1, <2>2, <2>3 DEF Whole, Ready
  <2>5. QED
    BY <2>4 DEF built, all, next
<1>6. CASE n # 0
  <2> DEFINE tail == [k \in 0..n |-> last[k + 1]]
  <2>1. /\ n \in 1..n /\ n + 1 - n = 1 /\ 0 \in 0..n /\ n \in 0..n
        /\ \A k \in 1..n : /\ k \in 0..n /\ k - 1 \in 0..n /\ (k - 1) + 1 = k
                           /\ k + 1 \in 1..(n + 1) /\ (k + 1) - 1 = k
                           /\ (n + 1) + 1 - (k + 1) = n + 1 - k /\ n + 1 - k \in 1..n
    BY <1>1, <1>6
  <2>2. tail[0] = first /\ tail[n] = built
    BY <1>4, <2>1
  <2>3. ASSUME NEW k \in 1..n
        PROVE  tail[k] = BuildStmt[stmts[n + 1 - k]][tail[k - 1]]
    <3>1. tail[k] = last[k + 1] /\ tail[k - 1] = last[k]
      BY <2>1
    <3>2. last[k + 1] = BuildStmt[all[n + 1 - k]][last[k]]
      BY <1>1, <1>3, <2>1
    <3>3. all[n + 1 - k] = stmts[n + 1 - k]
      BY <1>1, <2>1
    <3>4. QED
      BY <3>1, <3>2, <3>3
  <2> HIDE DEF tail
  <2>4. Chain(tail, stmts)
    BY <1>1, <1>2, <2>2, <2>3, EveryFragment DEF Chain, n
  <2>5. Built(tail[0], tail[n], AllComplete(stmts, n + 1 - n), SomethingBad(stmts, n + 1 - n))
    BY <2>1, <2>4, ChainBuilt DEF n
  <2>6. Built(first, built, AllComplete(stmts, 1), SomethingBad(stmts, 1))
    BY <2>1, <2>2, <2>5
  <2> DEFINE C == AllComplete(stmts, 1)
             B == SomethingBad(stmts, 1)
             b == built.graph
             z == Newest(b)
  <2>7. Built(first, built, C, B)
    BY <2>6
  <2> HIDE DEF C, B
  <2>8. /\ Sound(b) /\ z \in Nat /\ 1 < z /\ built.entry \in 1..z
        /\ Agree(first.graph, b, 1, 1)
        /\ \A m \in (1 + 1)..z : IsStatementNode(b, m)
        /\ Region(SuccessorsOf(b), (1 + 1)..z, built.entry, 1, C, B)
    BY <1>2, <2>7, BuiltParts
  <2>9. b.stmt[1] = Sentinel /\ b.succ[1] = << >>
    BY <1>2, <2>8 DEF Agree
  <2>10. 1 + 1 = 2 /\ 1 <= z
    BY <2>8
  <2> HIDE DEF b
  <2>11. Whole(b, built.entry, C, B)
    BY <2>8, <2>9, <2>10 DEF Whole
  <2>12. QED
    BY <2>11 DEF C, B, b, built, all, next
<1>7. QED
  BY <1>5, <1>6

\* What buildCFG hands out, and what control reaches in it.
GraphOf(g, b, entry, C, B) ==
  /\ Whole(b, entry, C, B)
  /\ g.nodes = 1..Newest(b) /\ g.entry = entry /\ g.end = 1
  /\ g.succ = b.succ /\ g.pred = b.pred
  /\ g.returns = {m \in 1..Newest(b) : b.stmt[m].kind = "return"}

\* buildCFG hands out such a graph, with the sentinel at its end.
LEMMA BuildCFGIsGraphOf ==
  ASSUME NEW stmts \in Seq(Statements \ {Sentinel}), NEW nonVoid
  PROVE  LET g == BuildCFG(stmts, nonVoid)
         IN  /\ \E b, entry : GraphOf(g, b, entry, AllComplete(stmts, 1), SomethingBad(stmts, 1))
             /\ g.decls \subseteq g.nodes /\ g.nonVoid = nonVoid
<1> DEFINE built == BuildStmts(BuildStmt, Append(stmts, Sentinel), [entry |-> Null, graph |-> EmptyGraph])
           b == built.graph
           g == BuildCFG(stmts, nonVoid)
           C == AllComplete(stmts, 1)
           B == SomethingBad(stmts, 1)
<1>1. Whole(b, built.entry, C, B)
  BY WholeIsBuilt
<1>2. /\ g.nodes = DOMAIN b.stmt /\ g.entry = built.entry
      /\ g.end = CHOOSE m \in DOMAIN b.stmt : b.stmt[m] = Sentinel
      /\ g.succ = b.succ /\ g.pred = b.pred
      /\ g.returns = {m \in DOMAIN b.stmt : b.stmt[m].kind = "return"}
      /\ g.decls \subseteq g.nodes /\ g.nonVoid = nonVoid
  BY DEF BuildCFG
<1> HIDE DEF built, b, g, C, B
<1>3. DOMAIN b.stmt = 1..Newest(b)
  BY <1>1 DEF Whole, Sound, PartialGraphs, Newest
<1>4. \A m \in 1..Newest(b) : b.stmt[m] = Sentinel <=> m = 1
  <2>1. \A m \in 1..Newest(b) : m # 1 => m \in 2..Newest(b)
    BY <1>1 DEF Whole
  <2>2. QED
    BY <1>1, <2>1 DEF Whole, IsStatementNode
<1>5. g.end = 1
  <2>1. 1 \in 1..Newest(b)
    BY <1>1 DEF Whole
  <2>2. QED
    BY <1>2, <1>3, <1>4, <2>1
<1>6. GraphOf(g, b, built.entry, C, B)
  BY <1>1, <1>2, <1>3, <1>5 DEF GraphOf
<1>7. QED
  BY <1>2, <1>6 DEF g, C, B

\* Such a graph satisfies all the analyses ask of one.
LEMMA GraphIsCFG ==
  ASSUME NEW g, NEW b, NEW entry, NEW C, NEW B, GraphOf(g, b, entry, C, B),
         g.decls \subseteq g.nodes, g.nonVoid \in BOOLEAN
  PROVE  IsCFG(g)
<1> DEFINE z == Newest(b)
           Nodes == 1..z
<1>1. /\ z \in Nat /\ 1 \in Nodes /\ entry \in Nodes /\ Sound(b) /\ b.succ[1] = << >>
      /\ g.nodes = Nodes /\ g.entry = entry /\ g.end = 1 /\ g.succ = b.succ /\ g.pred = b.pred
      /\ g.returns \subseteq g.nodes
  BY DEF GraphOf, Whole
<1>2. IsFiniteSet(Nodes)
  BY <1>1, FS_Interval
<1>3. b.succ \in [Nodes -> Seq(Nodes)] /\ b.pred \in [Nodes -> Seq(Nodes)]
  <2>1. /\ b.succ \in Seq(Seq(Nat)) /\ b.pred \in Seq(Seq(Nat))
        /\ DOMAIN b.succ = Nodes /\ DOMAIN b.pred = Nodes
        /\ \A m \in Nodes : b.succ[m] \in Seq(Nodes) /\ b.pred[m] \in Seq(Nodes)
    BY <1>1 DEF Sound, PartialGraphs
  <2>2. ASSUME NEW u \in Seq(Seq(Nat)), DOMAIN u = Nodes, \A m \in Nodes : u[m] \in Seq(Nodes)
        PROVE  u \in [Nodes -> Seq(Nodes)]
    <3> HIDE DEF Nodes
    <3>1. QED
      BY <2>2
  <2>3. QED
    BY <2>1, <2>2
<1>4. \A m, n \in Nodes : n \in Range(b.succ[m]) <=> m \in Range(b.pred[n])
  BY <1>1 DEF Sound, EdgesMirror
<1> HIDE DEF Nodes
<1>5. QED
  BY <1>1, <1>2, <1>3, <1>4 DEF IsCFG, Succ, Pred

\* The sentinel is reached just if the body can complete, and every other node
\* is reached unless the body holds something unreachable.
LEMMA ReachableInGraph ==
  ASSUME NEW g, NEW b, NEW entry, NEW C, NEW B, GraphOf(g, b, entry, C, B)
  PROVE  /\ C <=> g.end \in Reachable(g)
         /\ B <=> \E m \in g.nodes \ {g.end} : m \notin Reachable(g)
<1> DEFINE z == Newest(b)
           N == 2..z
           to == SuccessorsOf(b)
<1>1. /\ z \in Nat /\ 1 <= z /\ entry \in 1..z /\ Sound(b)
      /\ b.stmt[1] = Sentinel /\ b.succ[1] = << >>
      /\ \A m \in N : IsStatementNode(b, m)
      /\ g.nodes = 1..z /\ g.entry = entry /\ g.end = 1 /\ g.succ = b.succ
      /\ g.returns = {m \in 1..z : b.stmt[m].kind = "return"}
      /\ (z = 1 /\ C /\ ~B) \/ Region(to, N, entry, 1, C, B)
  BY DEF GraphOf, Whole
<1>2. g.nodes = {1} \cup N /\ 1 \notin N /\ N \subseteq 1..z /\ 1 \in 1..z
  BY <1>1
<1>3. \A m \in 1..z : Succ(g, m) = to[m]
  BY <1>1 DEF Succ, SuccessorsOf
<1>4. to[1] = {} /\ 1 \notin g.returns
  <2>1. Sentinel.kind # "return"
    BY DEF Sentinel
  <2>2. QED
    BY <1>1, <1>2, <2>1 DEF SuccessorsOf, Range
<1>5. \A m \in g.returns : to[m] = {}
  <2>1. \A m \in g.returns : m \in N
    BY <1>1, <1>2, <1>4
  <2>2. QED
    BY <1>1, <2>1 DEF SuccessorsOf, Range, IsStatementNode
<1> HIDE DEF z, N, to
<1>6. \A S \in SUBSET g.nodes :
        ClosedUnderFlow(g, S) <=> entry \in S /\ \A m \in S : to[m] \subseteq S
  BY <1>1, <1>3, <1>5 DEF ClosedUnderFlow
<1>7. CASE z = 1 /\ C /\ ~B
  <2>1. N = {} /\ entry = 1
    BY <1>1, <1>7 DEF N
  <2>2. Reachable(g) = {1}
    BY <1>1, <1>2, <1>4, <1>6, <2>1 DEF Reachable
  <2>3. QED
    BY <1>1, <1>2, <1>7, <2>1, <2>2
<1>8. CASE Region(to, N, entry, 1, C, B)
  <2>1. PICK W : /\ Reached(to, N, entry, 1, W)
                 /\ C <=> Leaves(to, 1, W)
                 /\ B <=> W # N
    BY <1>8 DEF Region
  <2>2. W \subseteq N /\ entry \in W /\ \A m \in W : to[m] \subseteq W \cup {1}
    BY <2>1 DEF Reached, Closed
  <2>3. ASSUME NEW S \in SUBSET g.nodes, ClosedUnderFlow(g, S)
        PROVE  W \subseteq S /\ (C => 1 \in S)
    <3>1. entry \in S \cap N /\ \A m \in S \cap N : to[m] \subseteq (S \cap N) \cup {1}
      BY <1>2, <1>6, <2>2, <2>3
    <3>2. W \subseteq S \cap N
      <4>1. Closed(to, entry, 1, S \cap N) /\ S \cap N \in SUBSET N
        BY <3>1 DEF Closed
      <4>2. QED
        BY <2>1, <4>1 DEF Reached
    <3>3. QED
      BY <1>6, <2>1, <2>3, <3>2 DEF Leaves
  <2>4. CASE C
    <3>1. ClosedUnderFlow(g, W \cup {1})
      BY <1>2, <1>4, <1>6, <2>2
    <3>2. Reachable(g) = W \cup {1}
      BY <1>2, <2>2, <2>3, <2>4, <3>1 DEF Reachable
    <3>3. W # N <=> \E m \in g.nodes \ {1} : m \notin W \cup {1}
      BY <1>2, <2>2
    <3>4. QED
      BY <1>1, <2>1, <2>4, <3>2, <3>3
  <2>5. CASE ~C
    <3>0. \A m \in W : 1 \notin to[m]
      BY <2>1, <2>5 DEF Leaves
    <3>1. ClosedUnderFlow(g, W)
      <4>1. \A m \in W : to[m] \subseteq W
        BY <2>2, <3>0
      <4>2. W \in SUBSET g.nodes
        BY <1>2, <2>2
      <4>3. QED
        BY <1>6, <2>2, <4>1, <4>2
    <3>2. Reachable(g) = W
      BY <1>2, <2>2, <2>3, <3>1 DEF Reachable
    <3>3. W # N <=> \E m \in g.nodes \ {1} : m \notin W
      BY <1>2, <2>2
    <3>4. 1 \notin W
      BY <1>2, <2>2
    <3>5. QED
      BY <1>1, <2>1, <2>5, <3>2, <3>3, <3>4
  <2>6. QED
    BY <2>4, <2>5
<1>9. QED
  BY <1>1, <1>7, <1>8

\* Every graph that buildCFG can hand out is one the analyses can work on.
THEOREM BuiltGraphsAreCFGs ==
  \A stmts \in Seq(Statements \ {Sentinel}), nonVoid \in BOOLEAN : IsCFG(BuildCFG(stmts, nonVoid))
<1> SUFFICES ASSUME NEW stmts \in Seq(Statements \ {Sentinel}), NEW nonVoid \in BOOLEAN
             PROVE  IsCFG(BuildCFG(stmts, nonVoid))
  OBVIOUS
<1> DEFINE g == BuildCFG(stmts, nonVoid)
<1>1. /\ \E b, entry : GraphOf(g, b, entry, AllComplete(stmts, 1), SomethingBad(stmts, 1))
      /\ g.decls \subseteq g.nodes /\ g.nonVoid = nonVoid
  BY BuildCFGIsGraphOf
<1> HIDE DEF g
<1>2. IsCFG(g)
  BY <1>1, GraphIsCFG
<1>3. QED
  BY <1>2 DEF g

\* The use and def sets of the nodes are of locals, and empty at the sentinel:
\* with BuiltGraphsAreCFGs all that checkDeadAssignments needs of a graph.
THEOREM BuiltSetsAreOfLocals ==
  \A stmts \in Seq(Statements \ {Sentinel}), nonVoid \in BOOLEAN :
    LET g == BuildCFG(stmts, nonVoid)
    IN  /\ g.use \in [g.nodes -> SUBSET Locals]
        /\ g.def \in [g.nodes -> SUBSET Locals]
        /\ g.use[g.end] = {} /\ g.def[g.end] = {}
<1> SUFFICES ASSUME NEW stmts \in Seq(Statements \ {Sentinel}), NEW nonVoid \in BOOLEAN
             PROVE  LET g == BuildCFG(stmts, nonVoid)
                    IN  /\ g.use \in [g.nodes -> SUBSET Locals]
                        /\ g.def \in [g.nodes -> SUBSET Locals]
                        /\ g.use[g.end] = {} /\ g.def[g.end] = {}
  OBVIOUS
<1> DEFINE built == BuildStmts(BuildStmt, Append(stmts, Sentinel), [entry |-> Null, graph |-> EmptyGraph])
           b == built.graph
           g == BuildCFG(stmts, nonVoid)
<1>1. Whole(b, built.entry, AllComplete(stmts, 1), SomethingBad(stmts, 1))
  BY WholeIsBuilt
<1>2. /\ g.nodes = DOMAIN b.stmt
      /\ g.end = CHOOSE m \in DOMAIN b.stmt : b.stmt[m] = Sentinel
      /\ g.use = [m \in DOMAIN b.stmt |-> UseOf(b.stmt[m])]
      /\ g.def = [m \in DOMAIN b.stmt |-> DefOf(b.stmt[m])]
  BY DEF BuildCFG
<1> HIDE DEF built, b, g
<1>3. /\ DOMAIN b.stmt = 1..Newest(b) /\ 1 \in 1..Newest(b) /\ b.stmt[1] = Sentinel
      /\ \A m \in DOMAIN b.stmt : b.stmt[m] \in Statements
  BY <1>1 DEF Whole, Sound, PartialGraphs, Newest
<1>4. \A s \in Statements : UseOf(s) \subseteq Locals
  BY DEF UseOf, LocalsIn
<1>5. \A s \in Statements : DefOf(s) \subseteq Locals
  BY StatementsAssumption DEF DefOf
<1>6. UseOf(Sentinel) = {} /\ DefOf(Sentinel) = {}
  BY DEF UseOf, DefOf, Sentinel
<1>7. g.end \in DOMAIN b.stmt /\ b.stmt[g.end] = Sentinel
  BY <1>2, <1>3
<1>8. /\ g.use \in [g.nodes -> SUBSET Locals]
      /\ g.def \in [g.nodes -> SUBSET Locals]
      /\ g.use[g.end] = {} /\ g.def[g.end] = {}
  BY <1>2, <1>3, <1>4, <1>5, <1>6, <1>7
<1>9. QED
  BY <1>8 DEF g

\* What control reaches in such a graph is what the rules say, the conditions
\* taken as the folder takes them.
LEMMA GraphsFollowTheFolder ==
  \A stmts \in Seq(Statements \ {Sentinel}), nonVoid \in BOOLEAN :
    LET g    == BuildCFG(stmts, nonVoid)
        body == Block(stmts)
    IN  /\ g.end \in Reachable(g) <=> FoldedCompletes(FoldedCompletesNormally, body)
        /\ (\E m \in g.nodes \ {g.end} : m \notin Reachable(g))
             <=> \/ FoldedHoldsUnreachable(FoldedSomethingUnreachable, body)
                 \/ FoldedCutsOffUpdate(FoldedUpdateCutOff, body)
<1> SUFFICES ASSUME NEW stmts \in Seq(Statements \ {Sentinel}), NEW nonVoid \in BOOLEAN
             PROVE  LET g    == BuildCFG(stmts, nonVoid)
                        body == Block(stmts)
                    IN  /\ g.end \in Reachable(g) <=> FoldedCompletes(FoldedCompletesNormally, body)
                        /\ (\E m \in g.nodes \ {g.end} : m \notin Reachable(g))
                             <=> \/ FoldedHoldsUnreachable(FoldedSomethingUnreachable, body)
                                 \/ FoldedCutsOffUpdate(FoldedUpdateCutOff, body)
  OBVIOUS
<1> DEFINE g == BuildCFG(stmts, nonVoid)
           body == Block(stmts)
           C == AllComplete(stmts, 1)
           B == SomethingBad(stmts, 1)
<1>1. \E b, entry : GraphOf(g, b, entry, C, B)
  BY BuildCFGIsGraphOf
<1>2. body.kind = "block" /\ body.stmts = stmts /\ DOMAIN stmts = 1..Len(stmts)
  BY DEF Block
<1>3. FoldedCompletes(FoldedCompletesNormally, body) <=> C
  BY <1>2 DEF FoldedCompletes, AllComplete
<1>4. FoldedHoldsUnreachable(FoldedSomethingUnreachable, body) <=>
        \E k \in DOMAIN stmts :
          \/ FoldedSomethingUnreachable[stmts[k]]
          \/ k < Len(stmts) /\ ~FoldedCompletesNormally[stmts[k]]
  BY <1>2 DEF FoldedHoldsUnreachable
<1>5. FoldedCutsOffUpdate(FoldedUpdateCutOff, body) <=> \E k \in DOMAIN stmts : FoldedUpdateCutOff[stmts[k]]
  BY <1>2 DEF FoldedCutsOffUpdate
<1>6. FoldedHoldsUnreachable(FoldedSomethingUnreachable, body) \/ FoldedCutsOffUpdate(FoldedUpdateCutOff, body) <=> B
  BY <1>2, <1>4, <1>5 DEF SomethingBad, Bad
<1> HIDE DEF g, C, B, body
<1>7. /\ C <=> g.end \in Reachable(g)
      /\ B <=> \E m \in g.nodes \ {g.end} : m \notin Reachable(g)
  BY <1>1, ReachableInGraph
<1>8. QED
  BY <1>3, <1>6, <1>7 DEF g, body
-----------------------------------------------------------------------------
(***************************************************************************)
(* Numbers modulo the size of a word. The folder computes with unsigned    *)
(* words, Java with signed ones; they differ by a multiple of the size.    *)
(***************************************************************************)
\* The two numbers leave the same word.
Congruent(x, y) == \E c \in Int : x - y = c * WordSize

\* A number leaves a word.
LEMMA RemainderIsWord ==
  ASSUME NEW x \in Int
  PROVE  x % WordSize \in 0..(WordSize - 1) /\ Congruent(x, x % WordSize)
<1>1. WordSize \in Nat /\ WordSize > 0
  BY WordSizeAssumption
<1>2. /\ x = WordSize * (x \div WordSize) + (x % WordSize)
      /\ x \div WordSize \in Int /\ x % WordSize \in 0..(WordSize - 1)
  BY <1>1
<1>3. x - (x % WordSize) = (x \div WordSize) * WordSize
  BY <1>1, <1>2
<1>4. QED
  BY <1>2, <1>3 DEF Congruent

\* Congruent numbers less than a word apart are equal.
LEMMA CongruentWords ==
  ASSUME NEW x \in Int, NEW y \in Int, Congruent(x, y), x - y < WordSize, y - x < WordSize
  PROVE  x = y
<1>1. WordSize \in Nat /\ WordSize > 0
  BY WordSizeAssumption
<1>2. PICK c \in Int : x - y = c * WordSize
  BY DEF Congruent
<1>3. CASE c > 0
  <2>1. c * WordSize >= WordSize
    BY <1>1, <1>3
  <2>2. QED
    BY <1>1, <1>2, <2>1
<1>4. CASE c < 0
  <2>1. (-c) * WordSize >= WordSize
    BY <1>1, <1>4
  <2>2. y - x = (-c) * WordSize
    BY <1>1, <1>2
  <2>3. QED
    BY <1>1, <2>1, <2>2
<1>5. CASE c = 0
  BY <1>1, <1>2, <1>5
<1>6. QED
  BY <1>3, <1>4, <1>5

\* Congruence is symmetric.
LEMMA CongruentSym ==
  ASSUME NEW x \in Int, NEW y \in Int, Congruent(x, y)
  PROVE  Congruent(y, x)
<1>1. WordSize \in Nat
  BY WordSizeAssumption
<1>2. PICK c \in Int : x - y = c * WordSize
  BY DEF Congruent
<1>3. y - x = (-c) * WordSize /\ -c \in Int
  BY <1>1, <1>2
<1>4. QED
  BY <1>3 DEF Congruent

\* Congruence is transitive.
LEMMA CongruentTrans ==
  ASSUME NEW x \in Int, NEW y \in Int, NEW z \in Int, Congruent(x, y), Congruent(y, z)
  PROVE  Congruent(x, z)
<1>1. WordSize \in Nat
  BY WordSizeAssumption
<1>2. PICK c \in Int : x - y = c * WordSize
  BY DEF Congruent
<1>3. PICK d \in Int : y - z = d * WordSize
  BY DEF Congruent
<1>4. x - z = (c + d) * WordSize /\ c + d \in Int
  BY <1>1, <1>2, <1>3
<1>5. QED
  BY <1>4 DEF Congruent

\* Sums, differences, products and negatives of congruent numbers are congruent.
LEMMA CongruentResults ==
  ASSUME NEW a \in Int, NEW b \in Int, NEW x \in Int, NEW y \in Int,
         Congruent(a, x), Congruent(b, y)
  PROVE  Congruent(a + b, x + y) /\ Congruent(a - b, x - y) /\ Congruent(a * b, x * y) /\ Congruent(-a, -x)
<1>1. WordSize \in Nat
  BY WordSizeAssumption
<1>2. PICK c \in Int : a - x = c * WordSize
  BY DEF Congruent
<1>3. PICK d \in Int : b - y = d * WordSize
  BY DEF Congruent
<1>4. (a + b) - (x + y) = (c + d) * WordSize /\ c + d \in Int
  BY <1>1, <1>2, <1>3
<1>5. (a - b) - (x - y) = (c - d) * WordSize /\ c - d \in Int
  BY <1>1, <1>2, <1>3
<1>6. a * b - x * y = (c * b + x * d) * WordSize /\ c * b + x * d \in Int
  <2>1. a = x + c * WordSize /\ b = y + d * WordSize
    BY <1>1, <1>2, <1>3
  <2>2. a * b = x * b + (c * WordSize) * b
    BY <1>1, <2>1
  <2>3. x * b = x * y + x * (d * WordSize)
    BY <1>1, <2>1
  <2>4. (c * WordSize) * b = (c * b) * WordSize /\ x * (d * WordSize) = (x * d) * WordSize
    BY <1>1
  <2>5. (c * b) * WordSize + (x * d) * WordSize = (c * b + x * d) * WordSize
    BY <1>1
  <2>6. /\ c * b \in Int /\ x * d \in Int /\ a * b \in Int /\ x * y \in Int
        /\ (c * b) * WordSize \in Int /\ (x * d) * WordSize \in Int
    BY <1>1
  <2>7. QED
    BY <2>2, <2>3, <2>4, <2>5, <2>6
<1>7. (-a) - (-x) = (-c) * WordSize /\ -c \in Int
  BY <1>1, <1>2
<1>8. QED
  BY <1>4, <1>5, <1>6, <1>7 DEF Congruent

\* The least number that is no signed word.
Half == WordSize \div 2
\* The numbers of Java.
SignedWords == (-Half)..(Half - 1)

\* Reading a word as a signed one leaves the word alone.
LEMMA SignedIsCongruent ==
  ASSUME NEW x \in Int
  PROVE  LET s == Java!Signed(Java!Word(x)) IN s \in SignedWords /\ Congruent(x, s)
<1> DEFINE w == x % WordSize
           s == Java!Signed(Java!Word(x))
<1>1. WordSize \in Nat /\ WordSize > 0 /\ WordSize = 2 * Half /\ Half \in Nat /\ Half > 0
  BY WordSizeAssumption DEF Half
<1>2. w \in 0..(WordSize - 1) /\ Congruent(x, w)
  BY RemainderIsWord
<1>3. s = IF 2 * w >= WordSize THEN w - WordSize ELSE w
  BY DEF Java!Signed, Java!Word
<1> HIDE DEF w, s
<1>4. s \in SignedWords /\ s \in Int
  BY <1>1, <1>2, <1>3 DEF SignedWords
<1>5. Congruent(w, s)
  <2>1. w - s = 0 * WordSize \/ w - s = 1 * WordSize
    BY <1>1, <1>2, <1>3
  <2>2. QED
    BY <2>1 DEF Congruent
<1>6. Congruent(x, s)
  BY <1>2, <1>4, <1>5, CongruentTrans
<1>7. QED
  BY <1>4, <1>6 DEF s
-----------------------------------------------------------------------------
(***************************************************************************)
(* The recursive functions along an expression.                            *)
(***************************************************************************)
\* The recursion of Stacks determines it.
LEMMA StacksDef ==
  ASSUME NEW e, Len(e) \in Nat
  PROVE  Stacks(e) = [k \in 0..Len(e) |-> IF k = 0 THEN << >> ELSE FoldNode(Stacks(e)[k - 1], e[k])]
<1> DEFINE At(f, k) == IF k = 0 THEN << >> ELSE FoldNode(f[k - 1], e[k])
           A == {m \in Nat : \E f : f = [k \in 0..m |-> At(f, k)]}
<1>1. 0 \in A
  <2> DEFINE f == [k \in 0..0 |-> << >>]
  <2>1. f = [k \in 0..0 |-> At(f, k)]
    OBVIOUS
  <2>2. QED
    BY <2>1
<1>2. ASSUME NEW m \in Nat, m \in A
      PROVE  m + 1 \in A
  <2>1. PICK f : f = [k \in 0..m |-> At(f, k)]
    BY <1>2
  <2> DEFINE h == [k \in 0..(m + 1) |-> IF k = m + 1 THEN FoldNode(f[m], e[m + 1]) ELSE f[k]]
  <2>2. ASSUME NEW k \in 0..(m + 1)
        PROVE  h[k] = At(h, k)
    <3>1. CASE k = 0
      <4>1. h[0] = f[0]
        BY <3>1
      <4>2. f[0] = << >>
        BY <2>1
      <4>3. QED
        BY <3>1, <4>1, <4>2
    <3>2. CASE k # 0 /\ k # m + 1
      <4>1. k \in 0..m /\ k - 1 \in 0..m /\ k - 1 # m + 1
        BY <3>2
      <4>2. h[k] = f[k] /\ h[k - 1] = f[k - 1]
        BY <4>1, <3>2
      <4>3. f[k] = At(f, k)
        BY <2>1, <4>1
      <4>4. QED
        BY <3>2, <4>2, <4>3
    <3>3. CASE k = m + 1
      <4>1. h[k] = FoldNode(f[m], e[m + 1])
        BY <3>3
      <4>2. h[m] = f[m] /\ k - 1 = m /\ k # 0
        BY <3>3
      <4>3. QED
        BY <3>3, <4>1, <4>2
    <3>4. QED
      BY <3>1, <3>2, <3>3
  <2>3. h = [k \in 0..(m + 1) |-> h[k]]
    OBVIOUS
  <2> HIDE DEF h
  <2>4. h = [k \in 0..(m + 1) |-> At(h, k)]
    BY <2>2, <2>3
  <2>5. QED
    BY <2>4
<1> HIDE DEF A
<1>3. Len(e) \in A
  BY <1>1, <1>2, EveryNumber
<1>4. \E f : f = [k \in 0..Len(e) |-> At(f, k)]
  BY <1>3 DEF A
<1>5. QED
  BY <1>4, Zenon DEF Stacks

\* The recursion of OperandSizes determines it; an operand that ends with node k
\* has at most k nodes.
LEMMA OperandSizesDef ==
  ASSUME NEW e, Len(e) \in Nat
  PROVE  /\ OperandSizes(e) = [k \in 0..Len(e) |-> SizeAt(OperandSizes(e), e, k)]
         /\ \A k \in 0..Len(e) : OperandSizes(e)[k] \in 0..k
<1> DEFINE Small(f, m) == \A k \in 0..m : f[k] \in 0..k
           A == {m \in Nat : \E f : f = [k \in 0..m |-> SizeAt(f, e, k)] /\ Small(f, m)}
<1>0. ASSUME NEW m \in Nat, NEW f, Small(f, m)
      PROVE  SizeAt(f, e, m + 1) \in 0..(m + 1)
  <2>1. f[m] \in 0..m /\ m + 1 - 1 = m
    BY <1>0
  <2>2. m - f[m] \in 0..m
    BY <2>1
  <2>3. f[m - f[m]] \in 0..(m - f[m])
    BY <1>0, <2>2
  <2>4. QED
    BY <2>1, <2>2, <2>3 DEF SizeAt
<1>1. 0 \in A
  <2> DEFINE f == [k \in 0..0 |-> 0]
  <2>1. f = [k \in 0..0 |-> SizeAt(f, e, k)] /\ Small(f, 0)
    BY DEF SizeAt
  <2>2. QED
    BY <2>1
<1>2. ASSUME NEW m \in Nat, m \in A
      PROVE  m + 1 \in A
  <2>1. PICK f : f = [k \in 0..m |-> SizeAt(f, e, k)] /\ Small(f, m)
    BY <1>2
  <2> DEFINE h == [k \in 0..(m + 1) |-> IF k = m + 1 THEN SizeAt(f, e, m + 1) ELSE f[k]]
  <2>2. ASSUME NEW k \in 0..(m + 1)
        PROVE  h[k] = SizeAt(h, e, k) /\ h[k] \in 0..k
    <3>1. CASE k = 0
      <4>1. h[0] = f[0]
        BY <3>1
      <4>2. f[0] = SizeAt(f, e, 0)
        BY <2>1
      <4>3. QED
        BY <3>1, <4>1, <4>2 DEF SizeAt
    <3>2. CASE k # 0
      <4>1. k - 1 \in 0..m /\ f[k - 1] \in 0..(k - 1)
        BY <2>1, <3>2
      <4>2. k - 1 - f[k - 1] \in 0..m
        BY <4>1
      <4>3. h[k - 1] = f[k - 1] /\ h[k - 1 - f[k - 1]] = f[k - 1 - f[k - 1]]
        BY <4>1, <4>2
      <4>4. SizeAt(h, e, k) = SizeAt(f, e, k)
        BY <4>3 DEF SizeAt
      <4>5. h[k] = SizeAt(f, e, k)
        BY <2>1
      <4>6. h[k] \in 0..k
        BY <1>0, <2>1
      <4>7. QED
        BY <4>4, <4>5, <4>6
    <3>4. QED
      BY <3>1, <3>2
  <2>3. h = [k \in 0..(m + 1) |-> h[k]]
    OBVIOUS
  <2> HIDE DEF h
  <2>4. h = [k \in 0..(m + 1) |-> SizeAt(h, e, k)] /\ Small(h, m + 1)
    BY <2>2, <2>3
  <2>5. QED
    BY <2>4
<1> HIDE DEF A
<1>3. Len(e) \in A
  BY <1>1, <1>2, EveryNumber
<1>4. \E f : f = [k \in 0..Len(e) |-> SizeAt(f, e, k)]
  BY <1>3 DEF A
<1> DEFINE z == OperandSizes(e)
<1>5. z = [k \in 0..Len(e) |-> SizeAt(z, e, k)]
  BY <1>4, Zenon DEF OperandSizes
<1> HIDE DEF z
<1> DEFINE B == {m \in Nat : m <= Len(e) => Small(z, m)}
<1>6. 0 \in B
  BY <1>5 DEF SizeAt
<1>7. ASSUME NEW m \in Nat, m \in B
      PROVE  m + 1 \in B
  <2>1. CASE m + 1 <= Len(e)
    <3>1. Small(z, m)
      BY <1>7, <2>1
    <3>2. z[m + 1] = SizeAt(z, e, m + 1)
      BY <1>5, <2>1
    <3>3. z[m + 1] \in 0..(m + 1)
      BY <1>0, <3>1, <3>2
    <3>4. QED
      BY <3>1, <3>3
  <2>2. CASE ~(m + 1 <= Len(e))
    BY <2>2
  <2>3. QED
    BY <2>1, <2>2
<1> HIDE DEF B
<1>8. Len(e) \in B
  BY <1>6, <1>7, EveryNumber
<1>9. QED
  BY <1>5, <1>8 DEF B, z

\* The recursion of JavaValues determines it.
LEMMA JavaValuesDef ==
  ASSUME NEW e, IsTypedExpr(e), OnlyLiterals(e)
  PROVE  JavaValues(e) = [k \in 1..Len(e) |-> ValueAt(JavaValues(e), e, k)]
<1>1. e \in Seq(Range(e)) /\ Len(e) \in Nat /\ DOMAIN e = 1..Len(e)
  BY DEF IsTypedExpr
<1>2. \A k \in 1..Len(e) : e[k].tok \in {"unop", "binop"} => k - 1 \in 1..Len(e) /\ k - 1 < k
  <2>1. ASSUME NEW k \in 1..Len(e), e[k].tok = "binop"
        PROVE  k > 1
    <3>1. OperandSizes(e)[0] = 0
      BY <1>1, OperandSizesDef
    <3>2. LeftOperand(e, k) > 0
      BY <1>1, <2>1 DEF IsTypedExpr
    <3>3. CASE k = 1
      BY <3>1, <3>2, <3>3 DEF LeftOperand
    <3>4. QED
      BY <3>3
  <2>2. QED
    BY <1>1, <2>1 DEF IsTypedExpr
<1>3. \A k \in 1..Len(e) : e[k].tok = "binop" => LeftOperand(e, k) \in 1..(k - 1)
  <2>1. ASSUME NEW k \in 1..Len(e), e[k].tok = "binop"
        PROVE  LeftOperand(e, k) \in 1..(k - 1)
    <3>1. OperandSizes(e)[k - 1] \in 0..(k - 1)
      BY <1>1, OperandSizesDef
    <3>2. LeftOperand(e, k) > 0
      BY <1>1, <2>1 DEF IsTypedExpr
    <3>3. QED
      BY <3>1, <3>2 DEF LeftOperand
  <2>2. QED
    BY <2>1
<1> DEFINE A == {m \in Nat : m <= Len(e) => \E f : f = [k \in 1..m |-> ValueAt(f, e, k)]}
<1>4. 0 \in A
  <2> DEFINE f == [k \in 1..0 |-> 0]
  <2>1. f = [k \in 1..0 |-> ValueAt(f, e, k)]
    OBVIOUS
  <2>2. QED
    BY <2>1
<1>5. ASSUME NEW m \in Nat, m \in A, m + 1 <= Len(e)
      PROVE  m + 1 \in A
  <2>1. PICK f : f = [k \in 1..m |-> ValueAt(f, e, k)]
    BY <1>1, <1>5
  <2> DEFINE h == [k \in 1..(m + 1) |-> IF k = m + 1 THEN ValueAt(f, e, m + 1) ELSE f[k]]
  <2>2. ASSUME NEW k \in 1..(m + 1)
        PROVE  h[k] = ValueAt(h, e, k)
    <3>0. k \in 1..Len(e)
      BY <1>1, <1>5
    <3>1. e[k].tok \in {"unop", "binop"} => h[k - 1] = f[k - 1]
      BY <1>2, <3>0
    <3>2. e[k].tok = "binop" => h[LeftOperand(e, k)] = f[LeftOperand(e, k)]
      BY <1>3, <3>0
    <3>3. ValueAt(h, e, k) = ValueAt(f, e, k)
      BY <3>1, <3>2 DEF ValueAt
    <3>4. h[k] = ValueAt(f, e, k)
      BY <2>1
    <3>5. QED
      BY <3>3, <3>4
  <2>3. h = [k \in 1..(m + 1) |-> h[k]]
    OBVIOUS
  <2> HIDE DEF h
  <2>4. h = [k \in 1..(m + 1) |-> ValueAt(h, e, k)]
    BY <2>2, <2>3
  <2>5. QED
    BY <2>4
<1>6. \A m \in Nat : m \in A => m + 1 \in A
  BY <1>1, <1>5
<1> HIDE DEF A
<1>7. Len(e) \in A
  BY <1>1, <1>4, <1>6, EveryNumber
<1>8. \E f : f = [k \in 1..Len(e) |-> ValueAt(f, e, k)]
  BY <1>1, <1>7 DEF A
<1>9. \E f : f = [k \in DOMAIN e |-> ValueAt(f, e, k)]
  BY <1>1, <1>8
<1>10. QED
  <2>1. JavaValues(e) = [k \in DOMAIN e |-> ValueAt(JavaValues(e), e, k)]
    BY <1>9, Zenon DEF JavaValues
  <2>2. QED
    BY <1>1, <2>1
-----------------------------------------------------------------------------
(***************************************************************************)
(* The operators of the folder and of Java.                                *)
(***************************************************************************)
\* The folder has given up, or the compiler is down.
Ended(v) == v.type \in {"none", "crash"}

\* What the folder has on its stack.
Folded == {Truth(b) : b \in BOOLEAN} \cup {Word(x) : x \in Int} \cup {NotConstant, Crash}

\* The folder has the value of Java, up to the sign; for null it has false.
Matches(w, v) ==
  \/ \E b \in BOOLEAN : w = Truth(b) /\ v = Truth(b)
  \/ \E x \in Int : w = Word(x) /\ v = Number(x)
  \/ w = Truth(FALSE) /\ v = NullValue

\* The fields of the values.
LEMMA TypesOfValues ==
  /\ \A b : Truth(b).type = "bool" /\ Truth(b).val = b /\ ~Ended(Truth(b))
  /\ \A x : Word(x).type = "num" /\ Word(x).val = x % WordSize /\ ~Ended(Word(x))
  /\ \A x : Number(x).type = "num" /\ Number(x).val = Java!Signed(Java!Word(x))
  /\ NullValue.type = "null" /\ NotConstant.type = "none"
  /\ Ended(NotConstant) /\ Ended(Crash)
BY DEF Truth, Word, Number, NullValue, NotConstant, Crash, Ended

\* A matching value is one the folder goes on with.
LEMMA MatchesFacts ==
  ASSUME NEW w, NEW v, Matches(w, v)
  PROVE  w \in Folded /\ ~Ended(w) /\ v.type \in {"bool", "num", "null"}
BY TypesOfValues DEF Matches, Folded

\* Congruent numbers are the same word, here and in Java.
LEMMA CongruentSame ==
  ASSUME NEW x \in Int, NEW y \in Int, Congruent(x, y)
  PROVE  Word(x) = Word(y) /\ Number(x) = Number(y)
<1>1. WordSize \in Nat /\ WordSize > 0
  BY WordSizeAssumption
<1> DEFINE a == x % WordSize
           b == y % WordSize
<1>2. a \in 0..(WordSize - 1) /\ b \in 0..(WordSize - 1) /\ Congruent(x, a) /\ Congruent(y, b)
  BY RemainderIsWord
<1>3. Congruent(a, b)
  <2>1. a \in Int /\ b \in Int
    BY <1>1, <1>2
  <2> HIDE DEF a, b
  <2>2. Congruent(a, x)
    BY <1>2, <2>1, CongruentSym
  <2>3. Congruent(a, y)
    BY <2>1, <2>2, CongruentTrans
  <2>4. QED
    BY <1>2, <2>1, <2>3, CongruentTrans
<1>4. a = b
  <2> HIDE DEF a, b
  <2>1. QED
    BY <1>1, <1>2, <1>3, CongruentWords
<1>5. QED
  BY <1>4 DEF Word, Number, Java!Word

\* What pushing does to a stack.
LEMMA PushFacts ==
  ASSUME NEW S, NEW X \in Seq(S), NEW a \in S
  PROVE  /\ Append(X, a) \in Seq(S)
         /\ Len(Append(X, a)) = Len(X) + 1 /\ Len(X) \in Nat
         /\ Append(X, a)[Len(X) + 1] = a
         /\ \A k \in 1..Len(X) : Append(X, a)[k] = X[k]
         /\ Append(X, a) # << >>
         /\ Last(Append(X, a)) = a
         /\ SubSeq(Append(X, a), 1, Len(X)) = X
<1>1. SubSeq(Append(X, a), 1, Len(X)) = X
  OBVIOUS
<1>2. Append(X, a) \in Seq(S) /\ Len(Append(X, a)) = Len(X) + 1 /\ Len(X) \in Nat
  OBVIOUS
<1>3. Append(X, a)[Len(X) + 1] = a /\ \A k \in 1..Len(X) : Append(X, a)[k] = X[k]
  OBVIOUS
<1>5. Last(Append(X, a)) = a
  BY <1>2, <1>3 DEF Last
<1>6. QED
  BY <1>1, <1>2, <1>3, <1>5

\* Once ended, folding stays so.
LEMMA EndedStays ==
  ASSUME NEW st, st # << >>, Ended(Last(st)), NEW t
  PROVE  FoldNode(st, t) = st
BY DEF FoldNode, Ended

\* A literal is pushed.
LEMMA FoldLiteral ==
  ASSUME NEW X \in Seq(Folded), X = << >> \/ ~Ended(Last(X)), NEW t
  PROVE  /\ t.tok = "num" => FoldNode(X, t) = Append(X, Word(t.val))
         /\ t.tok = "bool" => FoldNode(X, t) = Append(X, Truth(t.truth))
         /\ t.tok = "null" => FoldNode(X, t) = Append(X, Truth(FALSE))
<1>1. SubSeq(X, 1, Len(X) - 0) = X
  OBVIOUS
<1>2. QED
  BY <1>1, TypesOfValues DEF FoldNode, Ended

\* A node the folder does not know ends it.
LEMMA FoldOther ==
  ASSUME NEW X, X = << >> \/ ~Ended(Last(X)), NEW t,
         t.tok \notin {"num", "bool", "null", "binop", "unop"}
  PROVE  FoldNode(X, t) \in {<<Crash>>, <<NotConstant>>}
BY DEF FoldNode, Ended

\* A unary operator replaces the top of the stack, or ends the folding.
LEMMA FoldUnary ==
  ASSUME NEW X \in Seq(Folded), NEW a \in Folded, ~Ended(a), NEW t, t.tok = "unop"
  PROVE  FoldNode(Append(X, a), t) =
           IF Ended(FoldUnOp(t.op, a)) THEN <<FoldUnOp(t.op, a)>>
           ELSE Append(X, FoldUnOp(t.op, a))
<1> DEFINE st == Append(X, a)
           n == Len(st)
           v == FoldUnOp(t.op, a)
<1>1. n = Len(X) + 1 /\ Len(X) \in Nat /\ st # << >> /\ Last(st) = a /\ st[n] = a /\ n - 1 = Len(X)
      /\ SubSeq(st, 1, Len(X)) = X
  BY PushFacts
<1>2. SubSeq(st, 1, n - 1) = X
  BY <1>1
<1> HIDE DEF st
<1>3. FoldNode(st, t) = IF v.type \in {"none", "crash"} THEN <<v>> ELSE Append(SubSeq(st, 1, n - 1), v)
  BY <1>1 DEF FoldNode, Ended
<1>4. QED
  BY <1>2, <1>3 DEF Ended, st

\* A binary operator replaces the two values on top, or ends the folding.
LEMMA FoldBinary ==
  ASSUME NEW X \in Seq(Folded), NEW a \in Folded, NEW b \in Folded, ~Ended(b), NEW t, t.tok = "binop"
  PROVE  FoldNode(Append(Append(X, a), b), t) =
           IF Ended(FoldBinOp(t.op, a, b)) THEN <<FoldBinOp(t.op, a, b)>>
           ELSE Append(X, FoldBinOp(t.op, a, b))
<1> DEFINE Y == Append(X, a)
           st == Append(Y, b)
           n == Len(st)
           v == FoldBinOp(t.op, a, b)
<1>1. /\ Y \in Seq(Folded) /\ Len(X) \in Nat /\ Len(Y) = Len(X) + 1
      /\ Y[Len(X) + 1] = a /\ SubSeq(Y, 1, Len(X)) = X
  BY PushFacts
<1>2. n = Len(X) + 2 /\ st # << >> /\ Last(st) = b /\ st[n] = b
  <2> HIDE DEF Y
  <2>1. QED
    BY <1>1, PushFacts
<1>3. st[n - 1] = a
  <2> HIDE DEF Y
  <2>1. \A k \in 1..Len(Y) : st[k] = Y[k]
    BY <1>1, PushFacts
  <2>2. n - 1 = Len(X) + 1 /\ n - 1 \in 1..Len(Y)
    BY <1>1, <1>2
  <2>3. QED
    BY <1>1, <2>1, <2>2
<1>4. SubSeq(st, 1, n - 2) = X
  <2>1. n - 2 = Len(X)
    BY <1>1, <1>2
  <2>2. SubSeq(st, 1, Len(X)) = X
    OBVIOUS
  <2>3. QED
    BY <2>1, <2>2
<1> HIDE DEF st
<1>5. FoldNode(st, t) = IF v.type \in {"none", "crash"} THEN <<v>> ELSE Append(SubSeq(st, 1, n - 2), v)
  BY <1>2, <1>3 DEF FoldNode, Ended
<1>6. QED
  BY <1>4, <1>5 DEF Ended, st, Y

\* Matching values that are truth values.
LEMMA MatchedTruths ==
  ASSUME NEW w, NEW v, Matches(w, v), v.type \in {"bool", "none"}
  PROVE  \E b \in BOOLEAN : w = Truth(b) /\ v = Truth(b)
BY TypesOfValues DEF Matches

\* Matching values that are numbers.
LEMMA MatchedNumbers ==
  ASSUME NEW w, NEW v, Matches(w, v), v.type \in {"num", "none"}
  PROVE  \E x \in Int : w = Word(x) /\ v = Number(x)
BY TypesOfValues DEF Matches

\* A number as the folder has it and as Java has it.
LEMMA NumbersOfWord ==
  ASSUME NEW x \in Int
  PROVE  /\ Word(x).val \in 0..(WordSize - 1) /\ Congruent(Word(x).val, Number(x).val)
         /\ Number(x).val \in SignedWords
         /\ Word(x).val \in Int /\ Number(x).val \in Int
<1>1. WordSize \in Nat /\ WordSize > 0 /\ Half \in Nat /\ WordSize = 2 * Half
  BY WordSizeAssumption DEF Half
<1>2. Word(x).val \in 0..(WordSize - 1) /\ Congruent(x, Word(x).val)
  BY RemainderIsWord, TypesOfValues
<1>3. Number(x).val \in SignedWords /\ Congruent(x, Number(x).val)
  BY SignedIsCongruent, TypesOfValues
<1>4. Word(x).val \in Int /\ Number(x).val \in Int
  BY <1>1, <1>2, <1>3 DEF SignedWords
<1>5. Congruent(Word(x).val, x)
  BY <1>2, <1>4, CongruentSym
<1>6. QED
  BY <1>2, <1>3, <1>4, <1>5, CongruentTrans

\* Congruent results match.
LEMMA MatchingResult ==
  ASSUME NEW x \in Int, NEW y \in Int, Congruent(x, y)
  PROVE  Matches(Word(x), Number(y))
BY CongruentSame DEF Matches

\* The operators on truth values do what Java's do.
LEMMA TruthsFold ==
  ASSUME NEW op, NEW a \in BOOLEAN, NEW b \in BOOLEAN
  PROVE  /\ op \in {"And", "Or", "BitWiseAnd", "BitWiseOr", "Equal", "NotEqual"} =>
              Matches(FoldBinOp(op, Truth(a), Truth(b)), JavaBinOp(op, Truth(a), Truth(b)))
         /\ op = "Not" => Matches(FoldUnOp(op, Truth(a)), JavaUnOp(op, Truth(a)))
<1>1. JavaBinOp(op, Truth(a), Truth(b)) = OnTruths(op, a, b)
  BY DEF JavaBinOp, Truth
<1>2. CASE op \in {"And", "BitWiseAnd"}
  <2>1. FoldBinOp(op, Truth(a), Truth(b)) = Truth(a /\ b)
    BY <1>2 DEF FoldBinOp, Truth
  <2>2. OnTruths(op, a, b) = Truth(a /\ b)
    BY <1>2 DEF OnTruths
  <2>3. QED
    BY <1>1, <1>2, <2>1, <2>2 DEF Matches
<1>3. CASE op \in {"Or", "BitWiseOr"}
  <2>1. FoldBinOp(op, Truth(a), Truth(b)) = Truth(a \/ b)
    BY <1>3 DEF FoldBinOp, Truth
  <2>2. OnTruths(op, a, b) = Truth(a \/ b)
    BY <1>3 DEF OnTruths
  <2>3. QED
    BY <1>1, <1>3, <2>1, <2>2 DEF Matches
<1>4. CASE op = "Equal"
  <2>1. FoldBinOp(op, Truth(a), Truth(b)) = Truth(a = b)
    BY <1>4 DEF FoldBinOp, Truth
  <2>2. OnTruths(op, a, b) = Truth(a = b)
    BY <1>4 DEF OnTruths
  <2>3. QED
    BY <1>1, <1>4, <2>1, <2>2 DEF Matches
<1>5. CASE op = "NotEqual"
  <2>1. FoldBinOp(op, Truth(a), Truth(b)) = Truth(a # b)
    BY <1>5 DEF FoldBinOp, Truth
  <2>2. OnTruths(op, a, b) = Truth(a # b)
    BY <1>5 DEF OnTruths
  <2>3. QED
    BY <1>1, <1>5, <2>1, <2>2 DEF Matches
<1>6. op = "Not" => Matches(FoldUnOp(op, Truth(a)), JavaUnOp(op, Truth(a)))
  <2>1. op = "Not" => FoldUnOp(op, Truth(a)) = Truth(~a)
    BY DEF FoldUnOp, Truth
  <2>2. op = "Not" => JavaUnOp(op, Truth(a)) = Truth(~a)
    BY DEF JavaUnOp, Truth
  <2>3. QED
    BY <2>1, <2>2 DEF Matches
<1>7. QED
  BY <1>2, <1>3, <1>4, <1>5, <1>6

\* The operators on numbers that the folder knows do what Java's do, but for the
\* remainders of negative numbers.
LEMMA NumbersFold ==
  ASSUME NEW op, NEW x \in Int, NEW y \in Int,
         op = "Modulo" => Number(x).val >= 0 /\ Number(y).val >= 0
  PROVE  LET r == FoldBinOp(op, Word(x), Word(y))
         IN  /\ op \notin {"And", "Or", "BitWiseAnd", "BitWiseOr"} =>
                  Ended(r) \/ Matches(r, JavaBinOp(op, Number(x), Number(y)))
             /\ op = "Minus" => Matches(FoldUnOp(op, Word(x)), JavaUnOp(op, Number(x)))
<1> DEFINE a == Word(x).val
           b == Word(y).val
           v == Number(x).val
           w == Number(y).val
           r == FoldBinOp(op, Word(x), Word(y))
           j == JavaBinOp(op, Number(x), Number(y))
<1>1. /\ a \in 0..(WordSize - 1) /\ a \in Int /\ v \in SignedWords /\ v \in Int /\ Congruent(a, v)
      /\ b \in 0..(WordSize - 1) /\ b \in Int /\ w \in SignedWords /\ w \in Int /\ Congruent(b, w)
  BY NumbersOfWord
<1>2. /\ j = OnNumbers(op, v, w)
      /\ JavaUnOp("Minus", Number(x)) = Number(-v)
      /\ FoldUnOp("Minus", Word(x)) = Word(-a)
  BY TypesOfValues DEF JavaBinOp, JavaUnOp, FoldUnOp
<1>3. WordSize \in Nat /\ WordSize > 0 /\ Half \in Nat /\ WordSize = 2 * Half
  BY WordSizeAssumption DEF Half
<1>4. v = w <=> a = b
  <2> HIDE DEF a, b, v, w
  <2>1. ASSUME a = b
        PROVE  v = w
    <3>1. Congruent(v, a)
      BY <1>1, CongruentSym
    <3>2. Congruent(v, w)
      BY <1>1, <2>1, <3>1, CongruentTrans
    <3>3. v - w < WordSize /\ w - v < WordSize
      BY <1>1, <1>3 DEF SignedWords
    <3>4. QED
      BY <1>1, <3>2, <3>3, CongruentWords
  <2>2. ASSUME v = w
        PROVE  a = b
    <3>1. Congruent(w, b)
      BY <1>1, CongruentSym
    <3>2. Congruent(a, b)
      BY <1>1, <2>2, <3>1, CongruentTrans
    <3>3. a - b < WordSize /\ b - a < WordSize
      BY <1>1, <1>3
    <3>4. QED
      BY <1>1, <3>2, <3>3, CongruentWords
  <2>3. QED
    BY <2>1, <2>2
<1>5. /\ Matches(Word(a + b), Number(v + w)) /\ Matches(Word(a - b), Number(v - w))
      /\ Matches(Word(a * b), Number(v * w)) /\ Matches(Word(-a), Number(-v))
  <2> HIDE DEF a, b, v, w
  <2>1. /\ Congruent(a + b, v + w) /\ Congruent(a - b, v - w)
        /\ Congruent(a * b, v * w) /\ Congruent(-a, -v)
    BY <1>1, CongruentResults
  <2>2. /\ a + b \in Int /\ a - b \in Int /\ a * b \in Int /\ -a \in Int
        /\ v + w \in Int /\ v - w \in Int /\ v * w \in Int /\ -v \in Int
    BY <1>1
  <2>3. QED
    BY <2>1, <2>2, MatchingResult
<1>6. CASE op \in {"Equal", "NotEqual"}
  <2>1. r = IF op = "Equal" THEN Truth(a = b) ELSE Truth(a # b)
    BY <1>6 DEF FoldBinOp
  <2>2. j = IF op = "Equal" THEN Truth(v = w) ELSE Truth(v # w)
    BY <1>2, <1>6 DEF OnNumbers
  <2> HIDE DEF a, b, v, w, r, j
  <2>3. (v = w) = (a = b) /\ (v # w) = (a # b)
    BY <1>4
  <2>4. r = j
    BY <2>1, <2>2, <2>3
  <2>5. \E c \in BOOLEAN : r = Truth(c)
    BY <1>6, <2>1
  <2>6. Matches(r, j)
    BY <2>4, <2>5 DEF Matches
  <2>7. QED
    BY <1>6, <2>6 DEF r, j
<1>7. CASE op \in {"Plus", "Minus", "Multiply"}
  <2>1. r = CASE op = "Plus" -> Word(a + b) [] op = "Minus" -> Word(a - b) [] OTHER -> Word(a * b)
    BY <1>7 DEF FoldBinOp
  <2>2. j = CASE op = "Plus" -> Number(v + w) [] op = "Minus" -> Number(v - w) [] OTHER -> Number(v * w)
    BY <1>2, <1>7 DEF OnNumbers
  <2>3. Matches(r, j)
    <3> HIDE DEF a, b, v, w, r, j
    <3>1. QED
      BY <1>5, <1>7, <2>1, <2>2
  <2>4. op = "Minus" => Matches(FoldUnOp(op, Word(x)), JavaUnOp(op, Number(x)))
    BY <1>2, <1>5
  <2>5. QED
    BY <1>7, <2>3, <2>4
<1>8. CASE op = "Modulo"
  <2>1. r = IF b = 0 THEN Crash ELSE Word(a % b)
    BY <1>8 DEF FoldBinOp
  <2>2. j = IF w # 0 THEN Number(Java!Remainder(v, w)) ELSE NotConstant
    BY <1>2, <1>8 DEF OnNumbers
  <2>3. v >= 0 /\ w >= 0
    BY <1>8
  <2> HIDE DEF a, b, v, w, r, j
  <2>4. a = v /\ b = w
    <3>1. a - v < WordSize /\ v - a < WordSize /\ b - w < WordSize /\ w - b < WordSize
      BY <1>1, <1>3, <2>3 DEF SignedWords
    <3>2. QED
      BY <1>1, <3>1, CongruentWords
  <2>5. CASE b # 0
    <3>0. v \div w \in Int /\ Java!Sign(v) = 1 /\ Java!Sign(w) = 1 /\ Java!Abs(v) = v /\ Java!Abs(w) = w
      BY <1>1, <2>3, <2>4, <2>5 DEF Java!Sign, Java!Abs
    <3>1. Java!Quotient(v, w) = v \div w
      BY <3>0 DEF Java!Quotient
    <3>2. v = w * (v \div w) + (v % w)
      BY <1>1, <2>3, <2>4, <2>5
    <3>3. v \div w \in Int /\ v % w \in Int
      BY <1>1, <2>3, <2>4, <2>5
    <3>4. Java!Remainder(v, w) = v % w
      BY <1>1, <3>1, <3>2, <3>3 DEF Java!Remainder
    <3>5. r = Word(v % w) /\ j = Number(v % w)
      BY <2>1, <2>2, <2>4, <2>5, <3>4
    <3>6. Matches(r, j)
      BY <3>3, <3>5 DEF Matches
    <3>7. QED
      BY <1>8, <3>6 DEF r, j
  <2>6. CASE b = 0
    <3>1. Ended(r)
      BY <2>1, <2>6, TypesOfValues
    <3>2. QED
      BY <1>8, <3>1 DEF r, j
  <2>7. QED
    BY <2>5, <2>6
<1>9. CASE op \notin {"And", "Or", "BitWiseAnd", "BitWiseOr", "Equal", "NotEqual",
                        "Plus", "Minus", "Multiply", "Modulo"}
  <2>1. r = NotConstant
    BY <1>9 DEF FoldBinOp
  <2>2. QED
    BY <1>9, <2>1, TypesOfValues
<1>10. CASE op \in {"And", "Or", "BitWiseAnd", "BitWiseOr"}
  BY <1>10
<1>11. QED
  BY <1>6, <1>7, <1>8, <1>9, <1>10

\* A binary operator takes matching operands to matching results.
LEMMA OperandsFold ==
  ASSUME NEW op, NEW a, NEW b, NEW v, NEW w, Matches(a, v), Matches(b, w), FitsBinOp(op, v, w),
         op = "Modulo" => (v.type = "num" => v.val >= 0) /\ (w.type = "num" => w.val >= 0),
         op \in {"Equal", "NotEqual"} => v # NullValue \/ w # NullValue
  PROVE  Ended(FoldBinOp(op, a, b)) \/ Matches(FoldBinOp(op, a, b), JavaBinOp(op, v, w))
<1>1. v.type \in {"bool", "num", "null"} /\ w.type \in {"bool", "num", "null"}
  BY MatchesFacts
<1>2. CASE v.type = "bool" /\ w.type = "bool"
  <2>1. PICK p \in BOOLEAN : a = Truth(p) /\ v = Truth(p)
    BY <1>2, MatchedTruths
  <2>2. PICK q2 \in BOOLEAN : b = Truth(q2) /\ w = Truth(q2)
    BY <1>2, MatchedTruths
  <2>3. op \in {"And", "Or", "BitWiseAnd", "BitWiseOr", "Equal", "NotEqual"}
    BY <1>2 DEF FitsBinOp
  <2>4. QED
    BY <2>1, <2>2, <2>3, TruthsFold
<1>3. CASE v.type = "num" /\ w.type = "num"
  <2>1. PICK x \in Int : a = Word(x) /\ v = Number(x)
    BY <1>3, MatchedNumbers
  <2>2. PICK y \in Int : b = Word(y) /\ w = Number(y)
    BY <1>3, MatchedNumbers
  <2>3. op \notin {"And", "Or", "BitWiseAnd", "BitWiseOr"}
    BY <1>3 DEF FitsBinOp
  <2>4. op = "Modulo" => Number(x).val >= 0 /\ Number(y).val >= 0
    BY <1>3, <2>1, <2>2
  <2>5. QED
    BY <2>1, <2>2, <2>3, <2>4, NumbersFold
<1>4. CASE v.type # w.type \/ v.type = "null"
  <2>1. \A type : {v.type, w.type} \subseteq {"none", type} => v.type = type /\ w.type = type
    BY <1>1
  <2>2. v.type = "null" /\ w.type = "null" /\ op \in {"Equal", "NotEqual"}
    BY <1>4, <2>1 DEF FitsBinOp
  <2>3. v = NullValue /\ w = NullValue
    BY <2>2, TypesOfValues DEF Matches
  <2>4. QED
    BY <2>2, <2>3
<1>5. QED
  BY <1>1, <1>2, <1>3, <1>4

\* A unary operator takes a matching operand to a matching result.
LEMMA OperandFolds ==
  ASSUME NEW op, NEW a, NEW v, Matches(a, v), FitsUnOp(op, v)
  PROVE  Ended(FoldUnOp(op, a)) \/ Matches(FoldUnOp(op, a), JavaUnOp(op, v))
<1>1. CASE op = "Not"
  <2>1. PICK p \in BOOLEAN : a = Truth(p) /\ v = Truth(p)
    BY <1>1, MatchedTruths DEF FitsUnOp
  <2>2. QED
    BY <1>1, <2>1, TruthsFold
<1>2. CASE op = "Minus"
  <2>1. PICK x \in Int : a = Word(x) /\ v = Number(x)
    BY <1>2, MatchedNumbers DEF FitsUnOp
  <2>2. QED
    BY <1>2, <2>1, NumbersFold
<1>3. CASE op \notin {"Not", "Minus"}
  BY <1>3, TypesOfValues DEF FoldUnOp
<1>4. QED
  BY <1>1, <1>2, <1>3
-----------------------------------------------------------------------------
(***************************************************************************)
(* The folder walks along the expression and Java goes down its tree.      *)
(***************************************************************************)
\* Behind node k of e the folder has ended, or the value of the operand that
\* ends with this node is on top of what was there before the operand.
InStep(e, k) ==
  LET st == Stacks(e)[k]
      rest == k - OperandSizes(e)[k]
  IN  /\ st # << >> /\ st \in Seq(Folded)
      /\ Ended(Last(st)) \/ /\ rest \in 0..(k - 1)
                            /\ Stacks(e)[rest] \in Seq(Folded)
                            /\ rest = 0 \/ ~Ended(Last(Stacks(e)[rest]))
                            /\ \E w \in Folded : /\ st = Append(Stacks(e)[rest], w)
                                                 /\ Matches(w, JavaValues(e)[k])
      /\ \A j \in 1..k : Ended(Last(Stacks(e)[j])) => st = Stacks(e)[j]

\* What the exceptions say of the operands of one operator.
LEMMA OperandsAt ==
  ASSUME NEW e, NEW k \in DOMAIN e, e[k].tok = "binop"
  PROVE  LET v == JavaValues(e)[LeftOperand(e, k)]
             w == JavaValues(e)[k - 1]
         IN  /\ NoNegativeRemainders(e) /\ e[k].op = "Modulo" =>
                  (v.type = "num" => v.val >= 0) /\ (w.type = "num" => w.val >= 0)
             /\ NoNullsCompared(e) /\ e[k].op \in {"Equal", "NotEqual"} =>
                  v # NullValue \/ w # NullValue
             /\ NonZeroDivisors(e) /\ e[k].op = "Modulo" => w # Number(0)
<1> DEFINE v == JavaValues(e)[LeftOperand(e, k)]
           w == JavaValues(e)[k - 1]
           pair == <<v, w>>
<1>1. \A ops : e[k].op \in ops => pair \in Operands(e, ops)
  BY DEF Operands
<1>2. pair[1] = v /\ pair[2] = w /\ Range(pair) = {v, w}
  BY DEF Range
<1> HIDE DEF v, w, pair
<1>3. NoNegativeRemainders(e) /\ e[k].op = "Modulo" =>
        (v.type = "num" => v.val >= 0) /\ (w.type = "num" => w.val >= 0)
  BY <1>1, <1>2 DEF NoNegativeRemainders
<1>4. NoNullsCompared(e) /\ e[k].op \in {"Equal", "NotEqual"} => v # NullValue \/ w # NullValue
  BY <1>1, <1>2 DEF NoNullsCompared
<1>5. NonZeroDivisors(e) /\ e[k].op = "Modulo" => w # Number(0)
  BY <1>1, <1>2 DEF NonZeroDivisors
<1>6. QED
  BY <1>3, <1>4, <1>5 DEF v, w

\* The folder stays in step with Java from one node to the next.
LEMMA FolderStep ==
  ASSUME NEW e, IsTypedExpr(e), OnlyLiterals(e), NoNegativeRemainders(e), NoNullsCompared(e),
         NEW k \in 1..Len(e), \A j \in 1..(k - 1) : InStep(e, j)
  PROVE  InStep(e, k)
<1> DEFINE st(j) == Stacks(e)[j]
           size(j) == OperandSizes(e)[j]
           value(j) == JavaValues(e)[j]
           t == e[k]
<1>1. e \in Seq(Range(e)) /\ Len(e) \in Nat /\ DOMAIN e = 1..Len(e) /\ k \in Nat /\ k - 1 \in 0..Len(e)
  BY DEF IsTypedExpr
<1>2. st(0) = << >> /\ st(k) = FoldNode(st(k - 1), t)
  <2>1. Stacks(e) = [j \in 0..Len(e) |-> IF j = 0 THEN << >> ELSE FoldNode(Stacks(e)[j - 1], e[j])]
    BY <1>1, StacksDef
  <2>2. 0 \in 0..Len(e) /\ k \in 0..Len(e) /\ k # 0
    BY <1>1
  <2>3. QED
    BY <2>1, <2>2
<1>3. size(0) = 0 /\ size(k) = SizeAt(OperandSizes(e), e, k) /\ \A j \in 0..Len(e) : size(j) \in 0..j
  BY <1>1, OperandSizesDef
<1>4. value(k) = ValueAt(JavaValues(e), e, k)
  BY <1>1, JavaValuesDef
<1>6. k = 1 => st(k - 1) = << >>
  BY <1>2
<1>7. k # 1 => k - 1 \in 1..(k - 1) /\ InStep(e, k - 1) /\ st(k - 1) # << >>
  <2>1. k # 1 => k - 1 \in 1..(k - 1)
    BY <1>1
  <2>2. k # 1 => InStep(e, k - 1)
    BY <2>1
  <2>3. QED
    BY <2>1, <2>2 DEF InStep
<1>5. st(k - 1) \in Seq(Folded)
  <2>1. CASE k = 1
    <3>1. << >> \in Seq(Folded)
      BY EmptySeq
    <3>2. QED
      BY <1>6, <2>1, <3>1
  <2>2. CASE k # 1
    BY <1>7, <2>2 DEF InStep
  <2>3. QED
    BY <2>1, <2>2
<1>8. CASE k # 1 /\ Ended(Last(st(k - 1)))
  <2>1. st(k) = st(k - 1)
    BY <1>2, <1>7, <1>8, EndedStays
  <2>2. \A j \in 1..(k - 1) : Ended(Last(st(j))) => st(k - 1) = st(j)
    BY <1>7, <1>8 DEF InStep
  <2>3. \A j \in 1..k : j \in 1..(k - 1) \/ j = k
    BY <1>1
  <2>4. QED
    BY <1>5, <1>7, <1>8, <2>1, <2>2, <2>3 DEF InStep
<1>9. CASE k = 1 \/ ~Ended(Last(st(k - 1)))
  <2>1. \A j \in 1..(k - 1) : ~Ended(Last(st(j)))
    BY <1>1, <1>7, <1>9 DEF InStep
  <2>2. \A j \in 1..k : Ended(Last(st(j))) => st(k) = st(j)
    <3>1. \A j \in 1..k : j \in 1..(k - 1) \/ j = k
      BY <1>1
    <3>2. QED
      BY <2>1, <3>1
  <2>3. st(k - 1) = << >> \/ ~Ended(Last(st(k - 1)))
    BY <1>6, <1>9
  <2>4. ASSUME NEW v \in Folded, Ended(v), st(k) = <<v>>
        PROVE  InStep(e, k)
    <3>1. st(k) # << >> /\ st(k) \in Seq(Folded) /\ Last(st(k)) = v
      BY <2>4 DEF Last
    <3>2. QED
      BY <2>2, <2>4, <3>1 DEF InStep
  <2>5. ASSUME NEW v \in Folded, Matches(v, value(k)),
               NEW r \in 0..(k - 1), r = k - size(k), st(r) \in Seq(Folded), st(k) = Append(st(r), v)
        PROVE  InStep(e, k)
    <3>1. st(k) # << >> /\ st(k) \in Seq(Folded)
      BY <2>5, PushFacts
    <3>2. r = 0 \/ ~Ended(Last(st(r)))
      <4>1. r = 0 \/ r \in 1..(k - 1)
        BY <1>1, <2>5
      <4>2. QED
        BY <2>1, <4>1
    <3> HIDE DEF st, size, value
    <3>3. /\ st(k) # << >> /\ st(k) \in Seq(Folded)
          /\ (k - size(k)) \in 0..(k - 1)
          /\ st(k - size(k)) \in Seq(Folded)
          /\ (k - size(k)) = 0 \/ ~Ended(Last(st(k - size(k))))
          /\ \E w \in Folded : st(k) = Append(st(k - size(k)), w) /\ Matches(w, value(k))
      BY <2>5, <3>1, <3>2
    <3> USE DEF st, size, value
    <3>4. QED
      BY <2>2, <3>3 DEF InStep
  <2>6. CASE t.tok \in {"num", "bool", "null"}
    <3> DEFINE v == CASE t.tok = "num"  -> Word(t.val)
                      [] t.tok = "bool" -> Truth(t.truth)
                      [] OTHER          -> Truth(FALSE)
    <3>1. st(k) = Append(st(k - 1), v)
      BY <1>2, <1>5, <2>3, <2>6, FoldLiteral
    <3>2. t.tok = "num" => t.val \in Int
      BY <1>1 DEF IsTypedExpr
    <3>3. t.tok = "bool" => t.truth \in BOOLEAN
      BY <1>1 DEF IsTypedExpr
    <3>4. value(k) = CASE t.tok = "num"  -> Number(t.val)
                       [] t.tok = "bool" -> Truth(t.truth)
                       [] OTHER          -> NullValue
      BY <1>4, <2>6 DEF ValueAt
    <3>5. Matches(v, value(k))
      BY <2>6, <3>2, <3>3, <3>4 DEF Matches
    <3>6. v \in Folded
      BY <3>5, MatchesFacts
    <3>7. size(k) = 1 /\ k - size(k) = k - 1
      BY <1>1, <1>3, <2>6 DEF SizeAt
    <3>8. k - 1 \in 0..(k - 1)
      BY <1>1
    <3> HIDE DEF v, st, value, size
    <3>9. QED
      BY <1>5, <2>5, <3>1, <3>5, <3>6, <3>7, <3>8
  <2>7. CASE t.tok = "unop"
    <3> DEFINE r == k - 1 - size(k - 1)
    <3>1. k > 1 /\ FitsUnOp(t.op, value(k - 1))
      BY <1>1, <2>7 DEF IsTypedExpr
    <3>2. k - 1 \in 1..(k - 1) /\ ~Ended(Last(st(k - 1)))
      BY <1>9, <3>1
    <3>3. PICK w \in Folded : /\ r \in 0..(k - 2) /\ st(r) \in Seq(Folded)
                              /\ st(k - 1) = Append(st(r), w) /\ Matches(w, value(k - 1))
      BY <1>1, <1>7, <3>1, <3>2 DEF InStep
    <3> DEFINE v == FoldUnOp(t.op, w)
    <3>4. st(k) = IF Ended(v) THEN <<v>> ELSE Append(st(r), v)
      BY <1>2, <2>7, <3>3, FoldUnary, MatchesFacts
    <3>5. value(k) = JavaUnOp(t.op, value(k - 1))
      BY <1>4, <2>7 DEF ValueAt
    <3>6. Ended(v) \/ Matches(v, value(k))
      BY <3>1, <3>3, <3>5, OperandFolds
    <3>7. k - size(k) = r /\ r \in 0..(k - 1)
      <4>1. size(k) = 1 + size(k - 1) /\ size(k - 1) \in 0..(k - 1)
        BY <1>1, <1>3, <2>7 DEF SizeAt
      <4>2. QED
        BY <1>1, <4>1
    <3>8. CASE Matches(v, value(k))
      <4>1. v \in Folded /\ ~Ended(v)
        BY <3>8, MatchesFacts
      <4> HIDE DEF v, r, st, value, size
      <4>2. QED
        BY <2>5, <3>3, <3>4, <3>7, <3>8, <4>1
    <3>9. CASE Ended(v)
      <4>1. v \in Folded
        BY <3>9, TypesOfValues DEF FoldUnOp, Folded
      <4> HIDE DEF v, r, st, value, size
      <4>2. QED
        BY <2>4, <3>4, <3>9, <4>1
    <3>10. QED
      BY <3>6, <3>8, <3>9
  <2>8. CASE t.tok = "binop"
    <3> DEFINE l == LeftOperand(e, k)
               r == l - size(l)
    <3>1. /\ l > 0 /\ FitsBinOp(t.op, value(l), value(k - 1)) /\ size(k - 1) \in 0..(k - 1)
          /\ l = k - 1 - size(k - 1)
      BY <1>1, <1>3, <2>8 DEF IsTypedExpr, LeftOperand
    <3>2. k > 1 /\ k - 1 \in 1..(k - 1) /\ l \in 1..(k - 1)
      BY <1>1, <3>1
    <3>3. ~Ended(Last(st(k - 1))) /\ ~Ended(Last(st(l)))
      BY <2>1, <3>2
    <3>4. PICK b \in Folded : st(k - 1) = Append(st(l), b) /\ Matches(b, value(k - 1))
      BY <3>1, <3>2, <3>3 DEF InStep
    <3>5. PICK a \in Folded : /\ r \in 0..(l - 1) /\ st(r) \in Seq(Folded)
                              /\ st(l) = Append(st(r), a) /\ Matches(a, value(l))
      BY <3>1, <3>2, <3>3 DEF InStep
    <3> DEFINE v == FoldBinOp(t.op, a, b)
    <3>6. st(k) = IF Ended(v) THEN <<v>> ELSE Append(st(r), v)
      <4>1. st(k - 1) = Append(Append(st(r), a), b)
        BY <3>4, <3>5
      <4>2. ~Ended(b)
        BY <3>4, MatchesFacts
      <4> HIDE DEF st, r
      <4>3. FoldNode(Append(Append(st(r), a), b), t) = IF Ended(v) THEN <<v>> ELSE Append(st(r), v)
        BY <2>8, <3>5, <4>2, FoldBinary
      <4>4. QED
        BY <1>2, <4>1, <4>3
    <3>7. value(k) = JavaBinOp(t.op, value(l), value(k - 1))
      BY <1>4, <2>8 DEF ValueAt
    <3>8. /\ t.op = "Modulo" => /\ value(l).type = "num" => value(l).val >= 0
                                /\ value(k - 1).type = "num" => value(k - 1).val >= 0
          /\ t.op \in {"Equal", "NotEqual"} => value(l) # NullValue \/ value(k - 1) # NullValue
      BY <1>1, <2>8, OperandsAt
    <3>9. Ended(v) \/ Matches(v, value(k))
      BY <3>1, <3>4, <3>5, <3>7, <3>8, OperandsFold
    <3>10. k - size(k) = r /\ r \in 0..(k - 1)
      <4>1. size(k) = 1 + size(k - 1) + size(l)
        BY <1>1, <1>3, <2>8, <3>1 DEF SizeAt
      <4>2. size(l) \in 0..l
        BY <1>1, <1>3, <3>2
      <4>3. r = l - size(l)
        OBVIOUS
      <4> HIDE DEF l, r, size
      <4>4. QED
        BY <1>1, <3>1, <3>2, <4>1, <4>2, <4>3
    <3>11. CASE Matches(v, value(k))
      <4>1. v \in Folded /\ ~Ended(v)
        BY <3>11, MatchesFacts
      <4> HIDE DEF v, r, st, value, size
      <4>2. QED
        BY <2>5, <3>5, <3>6, <3>10, <3>11, <4>1
    <3>12. CASE Ended(v)
      <4>1. v \in Folded
        BY <3>12, TypesOfValues DEF FoldBinOp, Folded
      <4> HIDE DEF v, r, st, value, size
      <4>2. QED
        BY <2>4, <3>6, <3>12, <4>1
    <3>13. QED
      BY <3>9, <3>11, <3>12
  <2>9. t.tok \in {"num", "bool", "null", "binop", "unop"}
    BY <1>1 DEF OnlyLiterals
  <2>10. QED
    BY <2>6, <2>7, <2>8, <2>9
<1>10. QED
  BY <1>8, <1>9

\* The folder is in step with Java behind every node.
LEMMA FolderInStep ==
  ASSUME NEW e, IsTypedExpr(e), OnlyLiterals(e), NoNegativeRemainders(e), NoNullsCompared(e)
  PROVE  \A k \in 1..Len(e) : InStep(e, k)
<1> DEFINE D == {k \in 1..Len(e) : ~InStep(e, k)}
<1> SUFFICES ASSUME D # {}
             PROVE  FALSE
  OBVIOUS
<1>1. Len(e) \in Nat
  BY DEF IsTypedExpr
<1>2. D \in SUBSET Nat
  BY <1>1
<1>3. PICK k \in D : \A j \in D : k <= j
  BY <1>2, Least
<1>4. k \in 1..Len(e) /\ k \in Nat /\ ~InStep(e, k)
  BY <1>2
<1>5. ASSUME NEW j \in 1..(k - 1)
      PROVE  InStep(e, j)
  <2>1. j \in 1..Len(e) /\ ~(k <= j)
    BY <1>1, <1>4
  <2>2. QED
    BY <1>3, <2>1
<1>6. InStep(e, k)
  <2> HIDE DEF D
  <2>1. QED
    BY <1>4, <1>5, FolderStep
<1>7. QED
  BY <1>4, <1>6

\* With a node it does not know, the folder takes nothing for constant.
LEMMA OthersAreUnknown ==
  ASSUME NEW e, IsTypedExpr(e), ~OnlyLiterals(e), NEW b \in BOOLEAN
  PROVE  ~FoldsTo(e, b)
<1> DEFINE st(j) == Stacks(e)[j]
           Gone(j) == st(j) # << >> /\ Ended(Last(st(j)))
<1>1. Len(e) \in Nat /\ DOMAIN e = 1..Len(e) /\ e # NoExpr
  BY DEF IsTypedExpr
<1>2. \A j \in 1..Len(e) : st(j) = FoldNode(st(j - 1), e[j])
  <2>1. Stacks(e) = [j \in 0..Len(e) |-> IF j = 0 THEN << >> ELSE FoldNode(Stacks(e)[j - 1], e[j])]
    BY <1>1, StacksDef
  <2>2. QED
    BY <1>1, <2>1
<1>3. PICK k \in 1..Len(e) : e[k].tok \notin {"num", "bool", "null", "binop", "unop"}
  BY <1>1 DEF OnlyLiterals
<1> HIDE DEF st
<1>4. Gone(k)
  <2>1. CASE st(k - 1) # << >> /\ Ended(Last(st(k - 1)))
    BY <1>2, <2>1, EndedStays
  <2>2. CASE st(k - 1) = << >> \/ ~Ended(Last(st(k - 1)))
    <3>1. st(k) \in {<<Crash>>, <<NotConstant>>}
      BY <1>2, <1>3, <2>2, FoldOther
    <3>2. PICK v : Ended(v) /\ st(k) = <<v>>
      BY <3>1, TypesOfValues
    <3>3. <<v>> # << >> /\ Last(<<v>>) = v
      BY DEF Last
    <3>4. QED
      BY <3>2, <3>3
  <2>3. QED
    BY <2>1, <2>2
<1> DEFINE A == {m \in Nat : k + m <= Len(e) => Gone(k + m)}
<1>5. 0 \in A
  BY <1>4
<1>6. ASSUME NEW m \in Nat, m \in A
      PROVE  m + 1 \in A
  <2>1. CASE k + (m + 1) <= Len(e)
    <3>1. k + (m + 1) \in 1..Len(e) /\ (k + (m + 1)) - 1 = k + m /\ k + m <= Len(e)
      BY <1>1, <2>1
    <3>2. st(k + (m + 1)) = st(k + m)
      BY <1>2, <1>6, <3>1, EndedStays
    <3>3. QED
      BY <1>6, <3>1, <3>2
  <2>2. CASE ~(k + (m + 1) <= Len(e))
    BY <2>2
  <2>3. QED
    BY <2>1, <2>2
<1> HIDE DEF A
<1>7. Len(e) - k \in A
  <2>1. Len(e) - k \in Nat
    BY <1>1
  <2>2. QED
    BY <1>5, <1>6, <2>1, EveryNumber
<1>8. Gone(Len(e))
  <2>1. k + (Len(e) - k) = Len(e)
    BY <1>1
  <2>2. QED
    BY <1>1, <1>7, <2>1 DEF A
<1>9. QED
  BY <1>1, <1>8, TypesOfValues DEF FoldsTo, EvaluateBoolConstantExpr, st

\* Unless it has ended, the folder has found the value of Java.
LEMMA FolderHasValue ==
  ASSUME NEW e, IsTypedExpr(e), OnlyLiterals(e), NoNegativeRemainders(e), NoNullsCompared(e),
         ~Ended(EvaluateBoolConstantExpr(e))
  PROVE  \A b \in BOOLEAN : FoldsTo(e, b) <=> JavaValue(e) = Truth(b)
<1> DEFINE n == Len(e)
           w == EvaluateBoolConstantExpr(e)
           v == JavaValues(e)[n]
<1>1. e # NoExpr /\ n \in 1..n
  BY DEF IsTypedExpr, NoExpr
<1>2. InStep(e, n)
  BY <1>1, FolderInStep
<1>3. w = Last(Stacks(e)[n])
  BY <1>1 DEF EvaluateBoolConstantExpr
<1>4. Matches(w, v)
  <2>1. PICK x \in Folded : /\ Stacks(e)[n] = Append(Stacks(e)[n - OperandSizes(e)[n]], x)
                            /\ Matches(x, v)
                            /\ Stacks(e)[n - OperandSizes(e)[n]] \in Seq(Folded)
    BY <1>2, <1>3 DEF InStep
  <2> DEFINE X == Stacks(e)[n - OperandSizes(e)[n]]
  <2>2. X \in Seq(Folded) /\ Stacks(e)[n] = Append(X, x)
    BY <2>1
  <2> HIDE DEF X
  <2>3. Last(Append(X, x)) = x
    BY <2>2, PushFacts
  <2>4. QED
    BY <1>3, <2>1, <2>2, <2>3
<1>5. JavaValue(e) = v
  BY <1>1 DEF JavaValue
<1>6. v.type \in {"bool", "none"}
  BY <1>5 DEF IsTypedExpr
<1> HIDE DEF w, v
<1>7. PICK c \in BOOLEAN : w = Truth(c) /\ v = Truth(c)
  BY <1>4, <1>6, MatchedTruths
<1>8. QED
  BY <1>5, <1>7 DEF FoldsTo, w

\* What the folder takes for constant has the value Java gives it.
LEMMA ConstantIsJavas ==
  ASSUME NEW e, IsTypedExpr(e),
         OnlyLiterals(e) => NoNegativeRemainders(e) /\ NoNullsCompared(e),
         NEW b \in BOOLEAN, FoldsTo(e, b)
  PROVE  JavaValue(e) = Truth(b)
<1>1. OnlyLiterals(e)
  BY OthersAreUnknown
<1>2. ~Ended(EvaluateBoolConstantExpr(e))
  BY TypesOfValues DEF FoldsTo
<1>3. QED
  BY <1>1, <1>2, FolderHasValue

-----------------------------------------------------------------------------
(***************************************************************************)
(* Where the folder knows the conditions, the rules as the graph follows   *)
(* them are the Java rules.                                                *)
(***************************************************************************)
\* No operator the folder knows ends the folding.
LEMMA KnownBinOp ==
  ASSUME NEW op \in FoldedBinOps, NEW a, NEW b, NEW v, NEW w,
         Matches(a, v), Matches(b, w), FitsBinOp(op, v, w), op = "Modulo" => w # Number(0)
  PROVE  ~Ended(FoldBinOp(op, a, b))
<1>1. CASE op # "Modulo"
  BY <1>1, TypesOfValues DEF FoldBinOp, FoldedBinOps
<1>2. CASE op = "Modulo"
  <2>1. w.type \in {"num", "none"}
    BY <1>2 DEF FitsBinOp
  <2>2. PICK y \in Int : b = Word(y) /\ w = Number(y)
    BY <2>1, MatchedNumbers
  <2>3. b.val # 0
    <3>1. SUFFICES ASSUME Word(y).val = 0
                   PROVE  Number(y) = Number(0)
      BY <1>2, <2>2
    <3>2. y % WordSize = 0 /\ Congruent(y, y % WordSize)
      BY <3>1, TypesOfValues, RemainderIsWord
    <3>3. QED
      BY <3>2, CongruentSame
  <2>4. FoldBinOp(op, a, b) = Word(a.val % b.val)
    BY <1>2, <2>3 DEF FoldBinOp
  <2>5. QED
    BY <2>4, TypesOfValues
<1>3. QED
  BY <1>1, <1>2

\* With such operators only, the folder does not end.
LEMMA PlainGoesOn ==
  ASSUME NEW e, IsTypedExpr(e), OnlyLiterals(e), NoNegativeRemainders(e), NoNullsCompared(e),
         MadeOfFolded(e), NonZeroDivisors(e)
  PROVE  \A k \in 1..Len(e) : ~Ended(Last(Stacks(e)[k]))
<1> DEFINE st(j) == Stacks(e)[j]
           size(j) == OperandSizes(e)[j]
           value(j) == JavaValues(e)[j]
           D == {k \in 1..Len(e) : Ended(Last(st(k)))}
<1> SUFFICES ASSUME D # {}
             PROVE  FALSE
  OBVIOUS
<1>1. e \in Seq(Range(e)) /\ Len(e) \in Nat /\ DOMAIN e = 1..Len(e)
  BY DEF IsTypedExpr
<1>2. PICK k \in D : \A j \in D : k <= j
  <2>1. D \in SUBSET Nat
    BY <1>1
  <2>2. QED
    BY <2>1, Least
<1> DEFINE t == e[k]
<1>3. k \in 1..Len(e) /\ k - 1 \in 0..Len(e) /\ Ended(Last(st(k)))
  BY <1>1
<1>4. \A j \in 1..(k - 1) : ~Ended(Last(st(j))) /\ InStep(e, j)
  <2>1. \A j \in 1..(k - 1) : j \in 1..Len(e) /\ ~(k <= j)
    BY <1>1, <1>3
  <2>2. QED
    BY <1>2, <2>1, FolderInStep
<1>5. st(0) = << >> /\ st(k) = FoldNode(st(k - 1), t)
  <2>1. Stacks(e) = [j \in 0..Len(e) |-> IF j = 0 THEN << >> ELSE FoldNode(Stacks(e)[j - 1], e[j])]
    BY <1>1, StacksDef
  <2>2. 0 \in 0..Len(e) /\ k \in 0..Len(e) /\ k # 0
    BY <1>1, <1>3
  <2>3. QED
    BY <2>1, <2>2
<1>6. k - 1 = 0 \/ k - 1 \in 1..(k - 1)
  BY <1>3
<1>7. st(k - 1) \in Seq(Folded) /\ (st(k - 1) = << >> \/ ~Ended(Last(st(k - 1))))
  <2>1. << >> \in Seq(Folded)
    BY EmptySeq
  <2>2. QED
    BY <1>4, <1>5, <1>6, <2>1 DEF InStep
<1>8. \A j \in 1..(k - 1) :
        \E w \in Folded : /\ j - size(j) \in 0..(j - 1) /\ st(j - size(j)) \in Seq(Folded)
                          /\ st(j) = Append(st(j - size(j)), w) /\ Matches(w, value(j))
  BY <1>4 DEF InStep
<1>9. CASE t.tok \in {"num", "bool"}
  <2> DEFINE v == IF t.tok = "num" THEN Word(t.val) ELSE Truth(t.truth)
  <2>1. st(k) = Append(st(k - 1), v)
    BY <1>5, <1>7, <1>9, FoldLiteral
  <2>2. v \in Folded /\ ~Ended(v)
    BY <1>1, <1>3, <1>9, TypesOfValues DEF IsTypedExpr, Folded
  <2> HIDE DEF st, v
  <2>3. Last(Append(st(k - 1), v)) = v
    BY <1>7, <2>2, PushFacts
  <2>4. QED
    BY <1>3, <2>1, <2>2, <2>3
<1>10. CASE t.tok = "unop"
  <2> DEFINE r == k - 1 - size(k - 1)
  <2>1. k - 1 \in 1..(k - 1) /\ FitsUnOp(t.op, value(k - 1)) /\ t.op \in FoldedUnOps
    BY <1>1, <1>3, <1>6, <1>10 DEF IsTypedExpr, MadeOfFolded
  <2>2. PICK w \in Folded : /\ st(r) \in Seq(Folded)
                            /\ st(k - 1) = Append(st(r), w) /\ Matches(w, value(k - 1))
    BY <1>8, <2>1
  <2> DEFINE v == FoldUnOp(t.op, w)
  <2>3. st(k) = IF Ended(v) THEN <<v>> ELSE Append(st(r), v)
    BY <1>5, <1>10, <2>2, FoldUnary, MatchesFacts
  <2>4. v \in Folded /\ ~Ended(v)
    <3>1. Ended(v) \/ Matches(v, JavaUnOp(t.op, value(k - 1)))
      BY <2>1, <2>2, OperandFolds
    <3>2. t.op \in {"Not", "Minus"}
      BY <2>1 DEF FoldedUnOps
    <3>3. QED
      BY <3>1, <3>2, MatchesFacts, TypesOfValues DEF FoldUnOp
  <2> HIDE DEF st, v, r
  <2>5. Last(Append(st(r), v)) = v
    BY <2>2, <2>4, PushFacts
  <2>6. QED
    BY <1>3, <2>3, <2>4, <2>5
<1>11. CASE t.tok = "binop"
  <2> DEFINE l == LeftOperand(e, k)
             r == l - size(l)
  <2>1. /\ FitsBinOp(t.op, value(l), value(k - 1)) /\ t.op \in FoldedBinOps
        /\ k - 1 \in 1..(k - 1) /\ l \in 1..(k - 1) /\ l = k - 1 - size(k - 1)
    <3>1. l > 0 /\ FitsBinOp(t.op, value(l), value(k - 1)) /\ t.op \in FoldedBinOps
      BY <1>1, <1>3, <1>11 DEF IsTypedExpr, MadeOfFolded
    <3>2. size(k - 1) \in 0..(k - 1) /\ l = k - 1 - size(k - 1)
      BY <1>1, <1>3, OperandSizesDef DEF LeftOperand
    <3> HIDE DEF l, size
    <3>3. QED
      BY <1>3, <3>1, <3>2
  <2>2. PICK b \in Folded : st(k - 1) = Append(st(l), b) /\ Matches(b, value(k - 1))
    BY <1>8, <2>1
  <2>3. PICK a \in Folded : /\ st(r) \in Seq(Folded)
                            /\ st(l) = Append(st(r), a) /\ Matches(a, value(l))
    BY <1>8, <2>1
  <2> DEFINE v == FoldBinOp(t.op, a, b)
  <2>4. st(k) = IF Ended(v) THEN <<v>> ELSE Append(st(r), v)
    <3>1. st(k - 1) = Append(Append(st(r), a), b)
      BY <2>2, <2>3
    <3>2. ~Ended(b)
      BY <2>2, MatchesFacts
    <3> HIDE DEF st, r
    <3>3. FoldNode(Append(Append(st(r), a), b), t) = IF Ended(v) THEN <<v>> ELSE Append(st(r), v)
      BY <1>11, <2>3, <3>2, FoldBinary
    <3>4. QED
      BY <1>5, <3>1, <3>3
  <2>5. /\ t.op = "Modulo" => /\ value(l).type = "num" => value(l).val >= 0
                              /\ value(k - 1).type = "num" => value(k - 1).val >= 0
        /\ t.op \in {"Equal", "NotEqual"} => value(l) # NullValue \/ value(k - 1) # NullValue
        /\ t.op = "Modulo" => value(k - 1) # Number(0)
    BY <1>1, <1>3, <1>11, OperandsAt
  <2>6. ~Ended(v)
    BY <2>1, <2>2, <2>3, <2>5, KnownBinOp
  <2>7. v \in Folded
    <3>1. Ended(v) \/ Matches(v, JavaBinOp(t.op, value(l), value(k - 1)))
      BY <2>1, <2>2, <2>3, <2>5, OperandsFold
    <3>2. QED
      BY <2>6, <3>1, MatchesFacts
  <2> HIDE DEF st, v, r
  <2>8. Last(Append(st(r), v)) = v
    BY <2>3, <2>7, PushFacts
  <2>9. QED
    BY <1>3, <2>4, <2>6, <2>8
<1>12. QED
  BY <1>1, <1>3, <1>9, <1>10, <1>11 DEF MadeOfFolded, FoldedUnOps

\* No operator yields null.
LEMMA NullsComeFromNull ==
  ASSUME NEW e, IsTypedExpr(e), OnlyLiterals(e), \A k \in DOMAIN e : e[k].tok # "null"
  PROVE  NoNullsCompared(e)
<1>1. e \in Seq(Range(e)) /\ Len(e) \in Nat /\ DOMAIN e = 1..Len(e)
  BY DEF IsTypedExpr
<1>2. ASSUME NEW k \in 1..Len(e)
      PROVE  JavaValues(e)[k] # NullValue
  <2>1. JavaValues(e)[k] = ValueAt(JavaValues(e), e, k) /\ e[k].tok # "null"
    BY <1>1, JavaValuesDef
  <2>2. \A b : Truth(b) # NullValue
    BY TypesOfValues
  <2>3. \A x : Number(x) # NullValue
    BY TypesOfValues
  <2>4. NotConstant # NullValue
    BY TypesOfValues
  <2>5. \A op, v, w : JavaBinOp(op, v, w) # NullValue
    BY <2>2, <2>3, <2>4 DEF JavaBinOp, OnTruths, OnNumbers
  <2>6. \A op, v : JavaUnOp(op, v) # NullValue
    BY <2>2, <2>3, <2>4 DEF JavaUnOp
  <2>7. QED
    BY <2>1, <2>2, <2>3, <2>4, <2>5, <2>6 DEF ValueAt
<1>3. ASSUME NEW k \in DOMAIN e, e[k].tok = "binop"
      PROVE  k - 1 \in 1..Len(e)
  <2>1. OperandSizes(e)[0] = 0 /\ LeftOperand(e, k) > 0 /\ k \in 1..Len(e)
    BY <1>1, <1>3, OperandSizesDef DEF IsTypedExpr, SizeAt
  <2>2. CASE k = 1
    BY <2>1, <2>2 DEF LeftOperand
  <2>3. QED
    BY <1>1, <2>1, <2>2
<1>4. QED
  <2>1. ASSUME NEW operands \in Operands(e, {"Equal", "NotEqual"})
        PROVE  Range(operands) # {NullValue}
    <3>1. PICK k \in DOMAIN e : /\ e[k].tok = "binop"
                                /\ operands = <<JavaValues(e)[LeftOperand(e, k)], JavaValues(e)[k - 1]>>
      BY <2>1 DEF Operands
    <3>2. operands[2] \in Range(operands) /\ operands[2] = JavaValues(e)[k - 1]
      BY <3>1 DEF Range
    <3>3. QED
      BY <1>2, <1>3, <3>1, <3>2
  <2>2. QED
    BY <2>1 DEF NoNullsCompared

\* Such a condition is decided as Java decides it.
LEMMA KnownFolds ==
  ASSUME NEW e, IsTypedExpr(e), KnownToFolder(e), NEW b \in BOOLEAN
  PROVE  FoldsTo(e, b) <=> Constantly(e, b)
<1>1. e # NoExpr
  BY DEF IsTypedExpr
<1>2. CASE \E k \in DOMAIN e : e[k].tok \in {"name", "assign"}
  <2>1. ~OnlyLiterals(e)
    BY <1>2 DEF OnlyLiterals
  <2>2. ~FoldsTo(e, b)
    BY <2>1, OthersAreUnknown
  <2>3. JavaValue(e) # Truth(b)
    BY <2>1, TypesOfValues DEF JavaValue
  <2>4. QED
    BY <1>1, <2>2, <2>3 DEF Constantly
<1>3. CASE MadeOfFolded(e) /\ NoNegativeRemainders(e) /\ NonZeroDivisors(e)
  <2>1. OnlyLiterals(e)
    BY <1>3 DEF MadeOfFolded, OnlyLiterals
  <2>2. \A k \in DOMAIN e : e[k].tok # "null"
    BY <1>3 DEF MadeOfFolded
  <2>3. NoNullsCompared(e)
    BY <1>3, <2>1, <2>2, NullsComeFromNull
  <2>4. Len(e) \in 1..Len(e)
    BY <1>1 DEF IsTypedExpr, NoExpr
  <2>5. ~Ended(Last(Stacks(e)[Len(e)]))
    BY <1>3, <2>1, <2>3, <2>4, PlainGoesOn
  <2>6. FoldsTo(e, b) <=> JavaValue(e) = Truth(b)
    BY <1>1, <1>3, <2>1, <2>3, <2>5, FolderHasValue DEF EvaluateBoolConstantExpr
  <2>7. QED
    BY <1>1, <2>6 DEF Constantly
<1>4. QED
  BY <1>2, <1>3 DEF KnownToFolder
-----------------------------------------------------------------------------
(***************************************************************************)
(* The Java rules are a recursion along the statements too.                *)
(***************************************************************************)
\* The recursion of CompletesNormally determines it.
LEMMA CompletesNormallyDef ==
  /\ CompletesNormally \in [Statements -> BOOLEAN]
  /\ \A s \in Statements : CompletesNormally[s] = Completes(CompletesNormally, s)
<1> DEFINE G == [s \in Statements |-> [f \in [Statements -> BOOLEAN] |-> Completes(f, s)]]
<1>1. \A s \in Statements, f \in [Statements -> BOOLEAN] : G[s][f] = Completes(f, s)
  OBVIOUS
<1>2. ASSUME NEW s \in Statements, NEW f
      PROVE  Completes(f, s) \in BOOLEAN
  BY StatementsAssumption DEF Completes, Parts, Constantly
<1>3. ASSUME NEW s \in Statements, NEW f \in [Statements -> BOOLEAN], NEW h \in [Statements -> BOOLEAN],
             \A t \in Statements : Depth[t] < Depth[s] => f[t] = h[t]
      PROVE  Completes(f, s) = Completes(h, s)
  <2>1. \A t \in Parts(s) : f[t] = h[t]
    BY <1>3, StatementsAssumption
  <2>2. CASE s.kind = "block"
    <3>1. \A k \in DOMAIN s.stmts : s.stmts[k] \in Parts(s)
      BY <2>2 DEF Parts, Range
    <3>2. QED
      BY <2>1, <2>2, <3>1 DEF Completes
  <2>3. CASE s.kind = "ifElse"
    BY <2>1, <2>3 DEF Completes, Parts
  <2>4. CASE s.kind \notin {"block", "ifElse"}
    BY <2>4 DEF Completes
  <2>5. QED
    BY <2>2, <2>3, <2>4
<1> HIDE DEF G
<1>4. PICK f \in [Statements -> BOOLEAN] : \A s \in Statements : f[s] = G[s][f]
  <2>1. Depth \in [Statements -> Nat]
    BY StatementsAssumption
  <2>2. \A s \in Statements, f \in [Statements -> BOOLEAN] : G[s][f] \in BOOLEAN
    BY <1>1, <1>2
  <2>3. \A s \in Statements : \A f, h \in [Statements -> BOOLEAN] :
          (\A t \in Statements : Depth[t] < Depth[s] => f[t] = h[t]) => G[s][f] = G[s][h]
    BY <1>1, <1>3
  <2>4. QED
    <3>1. BOOLEAN # {}
      OBVIOUS
    <3>2. Descends(Statements, BOOLEAN, Depth, G)
      BY ONLY <2>1, <2>2, <2>3, <3>1 DEF Descends
    <3>3. QED
      BY ONLY <3>2, RecursionByDepth
<1>5. f = [s \in Statements |-> Completes(f, s)]
  BY <1>1, <1>4
<1>6. CompletesNormally = [s \in Statements |-> Completes(CompletesNormally, s)]
  BY <1>5, Zenon DEF CompletesNormally
<1>7. QED
  BY <1>2, <1>6

\* The recursion of SomethingUnreachable determines it.
LEMMA SomethingUnreachableDef ==
  /\ SomethingUnreachable \in [Statements -> BOOLEAN]
  /\ \A s \in Statements :
       SomethingUnreachable[s] = HoldsUnreachable(SomethingUnreachable, s)
<1> DEFINE G == [s \in Statements |-> [f \in [Statements -> BOOLEAN] |-> HoldsUnreachable(f, s)]]
<1>1. \A s \in Statements, f \in [Statements -> BOOLEAN] : G[s][f] = HoldsUnreachable(f, s)
  OBVIOUS
<1>2. ASSUME NEW s \in Statements, NEW f \in [Statements -> BOOLEAN]
      PROVE  HoldsUnreachable(f, s) \in BOOLEAN
  <2>1. \A t \in Parts(s) : f[t] \in BOOLEAN
    BY PartFacts
  <2>2. CASE s.kind = "if"
    BY <2>1, <2>2, PartFacts DEF HoldsUnreachable
  <2>3. CASE s.kind # "if"
    BY <2>3 DEF HoldsUnreachable, Constantly
  <2>4. QED
    BY <2>2, <2>3
<1>3. ASSUME NEW s \in Statements, NEW f \in [Statements -> BOOLEAN], NEW h,
             \A t \in Parts(s) : f[t] = h[t]
      PROVE  HoldsUnreachable(f, s) = HoldsUnreachable(h, s)
  <2>1. CASE s.kind = "block"
    <3>1. \A k \in DOMAIN s.stmts : f[s.stmts[k]] = h[s.stmts[k]]
      BY <1>3, <2>1, PartFacts
    <3>2. QED
      BY <2>1, <3>1 DEF HoldsUnreachable
  <2>2. CASE s.kind = "if"
    BY <1>3, <2>2, PartFacts DEF HoldsUnreachable
  <2>3. CASE s.kind = "ifElse"
    BY <1>3, <2>3, PartFacts DEF HoldsUnreachable
  <2>4. CASE s.kind \in {"while", "for"}
    BY <1>3, <2>4, PartFacts DEF HoldsUnreachable
  <2>5. CASE s.kind \notin {"block", "if", "ifElse", "while", "for"}
    BY <2>5 DEF HoldsUnreachable
  <2>6. QED
    BY <2>1, <2>2, <2>3, <2>4, <2>5
<1> HIDE DEF G
<1>4. AsksParts(G)
  BY <1>1, <1>2, <1>3 DEF AsksParts
<1>5. PICK f \in [Statements -> BOOLEAN] : \A s \in Statements : f[s] = G[s][f]
  BY <1>4, RuleHasSolution
<1>6. f = [s \in Statements |-> HoldsUnreachable(f, s)]
  BY <1>1, <1>5
<1>7. SomethingUnreachable = [s \in Statements |-> HoldsUnreachable(SomethingUnreachable, s)]
  BY <1>6, Zenon DEF SomethingUnreachable
<1>8. \A s \in Statements :
        SomethingUnreachable[s] = HoldsUnreachable(SomethingUnreachable, s)
  BY <1>7
<1>9. \A s \in Statements : f[s] = SomethingUnreachable[s]
  BY <1>1, <1>3, <1>5, <1>8, AgreeByParts
<1>10. SomethingUnreachable = f
  BY <1>6, <1>7, <1>9
<1>11. QED
  BY <1>8, <1>10

\* The recursion of UpdateCutOff determines it.
LEMMA UpdateCutOffDef ==
  /\ UpdateCutOff \in [Statements -> BOOLEAN]
  /\ \A s \in Statements : UpdateCutOff[s] = CutsOffUpdate(UpdateCutOff, s)
<1> DEFINE G == [s \in Statements |-> [f \in [Statements -> BOOLEAN] |-> CutsOffUpdate(f, s)]]
<1>1. \A s \in Statements, f \in [Statements -> BOOLEAN] : G[s][f] = CutsOffUpdate(f, s)
  OBVIOUS
<1>2. ASSUME NEW s \in Statements, NEW f \in [Statements -> BOOLEAN]
      PROVE  CutsOffUpdate(f, s) \in BOOLEAN
  <2>1. \A t \in Parts(s) : f[t] \in BOOLEAN
    BY PartFacts
  <2>2. CASE s.kind \in {"if", "while"}
    BY <2>1, <2>2, PartFacts DEF CutsOffUpdate
  <2>3. CASE s.kind \notin {"if", "while"}
    BY <2>3 DEF CutsOffUpdate
  <2>4. QED
    BY <2>2, <2>3
<1>3. ASSUME NEW s \in Statements, NEW f \in [Statements -> BOOLEAN], NEW h,
             \A t \in Parts(s) : f[t] = h[t]
      PROVE  CutsOffUpdate(f, s) = CutsOffUpdate(h, s)
  <2>1. CASE s.kind = "block"
    <3>1. \A k \in DOMAIN s.stmts : f[s.stmts[k]] = h[s.stmts[k]]
      BY <1>3, <2>1, PartFacts
    <3>2. QED
      BY <2>1, <3>1 DEF CutsOffUpdate
  <2>2. CASE s.kind \in {"if", "while"}
    BY <1>3, <2>2, PartFacts DEF CutsOffUpdate
  <2>3. CASE s.kind = "ifElse"
    BY <1>3, <2>3, PartFacts DEF CutsOffUpdate
  <2>4. CASE s.kind = "for"
    BY <1>3, <2>4, PartFacts DEF CutsOffUpdate
  <2>5. CASE s.kind \notin {"block", "if", "ifElse", "while", "for"}
    BY <2>5 DEF CutsOffUpdate
  <2>6. QED
    BY <2>1, <2>2, <2>3, <2>4, <2>5
<1> HIDE DEF G
<1>4. AsksParts(G)
  BY <1>1, <1>2, <1>3 DEF AsksParts
<1>5. PICK f \in [Statements -> BOOLEAN] : \A s \in Statements : f[s] = G[s][f]
  BY <1>4, RuleHasSolution
<1>6. f = [s \in Statements |-> CutsOffUpdate(f, s)]
  BY <1>1, <1>5
<1>7. UpdateCutOff = [s \in Statements |-> CutsOffUpdate(UpdateCutOff, s)]
  BY <1>6, Zenon DEF UpdateCutOff
<1>8. \A s \in Statements : UpdateCutOff[s] = CutsOffUpdate(UpdateCutOff, s)
  BY <1>7
<1>9. \A s \in Statements : f[s] = UpdateCutOff[s]
  BY <1>1, <1>3, <1>5, <1>8, AgreeByParts
<1>10. UpdateCutOff = f
  BY <1>6, <1>7, <1>9
<1>11. QED
  BY <1>8, <1>10

\* The recursion of KnownConditions determines it.
LEMMA KnownConditionsDef ==
  /\ KnownConditions \in [Statements -> BOOLEAN]
  /\ \A s \in Statements : KnownConditions[s] = Knows(KnownConditions, s)
<1> DEFINE G == [s \in Statements |-> [f \in [Statements -> BOOLEAN] |-> Knows(f, s)]]
<1>1. \A s \in Statements, f \in [Statements -> BOOLEAN] : G[s][f] = Knows(f, s)
  OBVIOUS
<1>2. ASSUME NEW s \in Statements, NEW f
      PROVE  Knows(f, s) \in BOOLEAN
  BY DEF Knows
<1>3. ASSUME NEW s \in Statements, NEW f, NEW h, \A t \in Parts(s) : f[t] = h[t]
      PROVE  Knows(f, s) = Knows(h, s)
  BY <1>3 DEF Knows
<1> HIDE DEF G
<1>4. AsksParts(G)
  BY <1>1, <1>2, <1>3 DEF AsksParts
<1>5. PICK f \in [Statements -> BOOLEAN] : \A s \in Statements : f[s] = G[s][f]
  BY <1>4, RuleHasSolution
<1>6. f = [s \in Statements |-> Knows(f, s)]
  BY <1>1, <1>5
<1>7. KnownConditions = [s \in Statements |-> Knows(KnownConditions, s)]
  BY <1>6, Zenon DEF KnownConditions
<1>8. QED
  BY <1>2, <1>7

\* The answers of the rules, with the conditions as the folder takes them and as
\* Java does, are the same for s.
SameAnswers(s) ==
  /\ FoldedCompletesNormally[s] = CompletesNormally[s]
  /\ FoldedSomethingUnreachable[s] = SomethingUnreachable[s]
  /\ FoldedUpdateCutOff[s] = UpdateCutOff[s]

\* They are if they are for the parts of s and the folder knows its conditions.
LEMMA SameByParts ==
  ASSUME NEW s \in Statements, KnownConditions[s], \A t \in Parts(s) : SameAnswers(t)
  PROVE  SameAnswers(s)
<1>1. s.kind \in {"while", "for"} =>
        \A b \in BOOLEAN : FoldsTo(s.cond, b) <=> Constantly(s.cond, b)
  BY KnownConditionsDef, ConditionsAssumption, KnownFolds DEF Knows
<1>2. /\ FoldedCompletesNormally[s] = FoldedCompletes(FoldedCompletesNormally, s)
      /\ FoldedSomethingUnreachable[s] = FoldedHoldsUnreachable(FoldedSomethingUnreachable, s)
      /\ FoldedUpdateCutOff[s] = FoldedCutsOffUpdate(FoldedUpdateCutOff, s)
  BY FoldedCompletesNormallyDef, FoldedSomethingUnreachableDef, FoldedUpdateCutOffDef
<1>3. /\ CompletesNormally[s] = Completes(CompletesNormally, s)
      /\ SomethingUnreachable[s] = HoldsUnreachable(SomethingUnreachable, s)
      /\ UpdateCutOff[s] = CutsOffUpdate(UpdateCutOff, s)
  BY CompletesNormallyDef, SomethingUnreachableDef, UpdateCutOffDef
<1>4. CASE s.kind = "block"
  <2>1. \A k \in DOMAIN s.stmts : SameAnswers(s.stmts[k])
    BY <1>4, PartFacts
  <2>2. FoldedCompletes(FoldedCompletesNormally, s) = Completes(CompletesNormally, s)
    BY <1>4, <2>1 DEF FoldedCompletes, Completes, SameAnswers
  <2>3. FoldedHoldsUnreachable(FoldedSomethingUnreachable, s) = HoldsUnreachable(SomethingUnreachable, s)
    BY <1>4, <2>1 DEF FoldedHoldsUnreachable, HoldsUnreachable, SameAnswers
  <2>4. FoldedCutsOffUpdate(FoldedUpdateCutOff, s) = CutsOffUpdate(UpdateCutOff, s)
    BY <1>4, <2>1 DEF FoldedCutsOffUpdate, CutsOffUpdate, SameAnswers
  <2>5. QED
    BY <1>2, <1>3, <2>2, <2>3, <2>4 DEF SameAnswers
<1>5. CASE s.kind \in {"if", "ifElse"}
  <2>1. SameAnswers(s.body) /\ (s.kind = "ifElse" => SameAnswers(s.else))
    BY <1>5, PartFacts
  <2>2. FoldedCompletes(FoldedCompletesNormally, s) = Completes(CompletesNormally, s)
    BY <1>5, <2>1 DEF FoldedCompletes, Completes, SameAnswers
  <2>3. FoldedHoldsUnreachable(FoldedSomethingUnreachable, s) = HoldsUnreachable(SomethingUnreachable, s)
    BY <1>5, <2>1 DEF FoldedHoldsUnreachable, HoldsUnreachable, SameAnswers
  <2>4. FoldedCutsOffUpdate(FoldedUpdateCutOff, s) = CutsOffUpdate(UpdateCutOff, s)
    BY <1>5, <2>1 DEF FoldedCutsOffUpdate, CutsOffUpdate, SameAnswers
  <2>5. QED
    BY <1>2, <1>3, <2>2, <2>3, <2>4 DEF SameAnswers
<1>6. CASE s.kind \in {"while", "for"}
  <2>1. SameAnswers(s.body)
    BY <1>6, PartFacts
  <2>2. FoldedCompletes(FoldedCompletesNormally, s) = Completes(CompletesNormally, s)
    BY <1>1, <1>6 DEF FoldedCompletes, Completes
  <2>3. FoldedHoldsUnreachable(FoldedSomethingUnreachable, s) = HoldsUnreachable(SomethingUnreachable, s)
    BY <1>1, <1>6, <2>1 DEF FoldedHoldsUnreachable, HoldsUnreachable, SameAnswers
  <2>4. FoldedCutsOffUpdate(FoldedUpdateCutOff, s) = CutsOffUpdate(UpdateCutOff, s)
    BY <1>6, <2>1 DEF FoldedCutsOffUpdate, CutsOffUpdate, SameAnswers
  <2>5. QED
    BY <1>2, <1>3, <2>2, <2>3, <2>4 DEF SameAnswers
<1>7. CASE s.kind \notin {"block", "if", "ifElse", "while", "for"}
  <2>1. FoldedCompletes(FoldedCompletesNormally, s) = Completes(CompletesNormally, s)
    BY <1>7 DEF FoldedCompletes, Completes
  <2>2. FoldedHoldsUnreachable(FoldedSomethingUnreachable, s) = HoldsUnreachable(SomethingUnreachable, s)
    BY <1>7 DEF FoldedHoldsUnreachable, HoldsUnreachable
  <2>3. FoldedCutsOffUpdate(FoldedUpdateCutOff, s) = CutsOffUpdate(UpdateCutOff, s)
    BY <1>7 DEF FoldedCutsOffUpdate, CutsOffUpdate
  <2>4. QED
    BY <1>2, <1>3, <2>1, <2>2, <2>3 DEF SameAnswers
<1>8. QED
  BY <1>4, <1>5, <1>6, <1>7

\* So they are wherever the folder knows the conditions.
LEMMA RulesAgree == \A s \in Statements : KnownConditions[s] => SameAnswers(s)
<1> DEFINE f == [s \in Statements |-> KnownConditions[s] => SameAnswers(s)]
           h == [s \in Statements |-> TRUE]
<1>1. ASSUME NEW s \in Statements, \A t \in Parts(s) : f[t] = h[t]
      PROVE  f[s] = h[s]
  <2>1. SUFFICES ASSUME KnownConditions[s]
                 PROVE  SameAnswers(s)
    OBVIOUS
  <2>2. \A t \in Parts(s) : t \in Statements /\ KnownConditions[t]
    BY <2>1, PartFacts, KnownConditionsDef DEF Knows
  <2>3. \A t \in Parts(s) : SameAnswers(t)
    BY <1>1, <2>2
  <2>4. QED
    BY <2>1, <2>3, SameByParts
<1> HIDE DEF f, h
<1>2. \A s \in Statements : f[s] = h[s]
  BY <1>1, AgreeByParts
<1>3. QED
  BY <1>2 DEF f, h

\* What control reaches in the graph of a method is what the Java rules say of its
\* statements, if the folder knows its conditions: the graph as it is built, with
\* the edges the folder has left out.
THEOREM GraphsFollowTheRules ==
  \A stmts \in Seq(Statements \ {Sentinel}), nonVoid \in BOOLEAN :
    (\A k \in DOMAIN stmts : KnownConditions[stmts[k]]) =>
      LET g    == BuildCFG(stmts, nonVoid)
          body == Block(stmts)
      IN  /\ g.end \in Reachable(g) <=> Completes(CompletesNormally, body)
          /\ (\E m \in g.nodes \ {g.end} : m \notin Reachable(g))
               <=> \/ HoldsUnreachable(SomethingUnreachable, body)
                   \/ CutsOffUpdate(UpdateCutOff, body)
<1> SUFFICES ASSUME NEW stmts \in Seq(Statements \ {Sentinel}), NEW nonVoid \in BOOLEAN,
                    \A k \in DOMAIN stmts : KnownConditions[stmts[k]]
             PROVE  LET g    == BuildCFG(stmts, nonVoid)
                        body == Block(stmts)
                    IN  /\ g.end \in Reachable(g) <=> Completes(CompletesNormally, body)
                        /\ (\E m \in g.nodes \ {g.end} : m \notin Reachable(g))
                             <=> \/ HoldsUnreachable(SomethingUnreachable, body)
                                 \/ CutsOffUpdate(UpdateCutOff, body)
  OBVIOUS
<1> DEFINE body == Block(stmts)
<1>1. \A k \in DOMAIN stmts : SameAnswers(stmts[k])
  <2>1. \A k \in DOMAIN stmts : stmts[k] \in Statements
    OBVIOUS
  <2>2. QED
    BY <2>1, RulesAgree
<1>2. body.kind = "block" /\ body.stmts = stmts
  BY DEF Block
<1> HIDE DEF body
<1>3. FoldedCompletes(FoldedCompletesNormally, body) <=> Completes(CompletesNormally, body)
  BY <1>1, <1>2 DEF FoldedCompletes, Completes, SameAnswers
<1>4. FoldedHoldsUnreachable(FoldedSomethingUnreachable, body) <=> HoldsUnreachable(SomethingUnreachable, body)
  BY <1>1, <1>2 DEF FoldedHoldsUnreachable, HoldsUnreachable, SameAnswers
<1>5. FoldedCutsOffUpdate(FoldedUpdateCutOff, body) <=> CutsOffUpdate(UpdateCutOff, body)
  BY <1>1, <1>2 DEF FoldedCutsOffUpdate, CutsOffUpdate, SameAnswers
<1> USE DEF body
<1>6. QED
  BY <1>3, <1>4, <1>5, GraphsFollowTheFolder

\* The verdict is read off the marks.
VerdictFollowsMarks ==
  pc = "done" =>
    /\ q = << >>
    /\ result = IF UnreachableStatement THEN "unreachable"
                ELSE IF in[cfg.end] /\ cfg.nonVoid THEN "noReturn" ELSE "ok"

\* The two checks look at nothing else.
LEMMA VerdictInvariant == Spec => []VerdictFollowsMarks
<1>1. Init => VerdictFollowsMarks
  BY DEF Init, VerdictFollowsMarks
<1>2. IInv /\ VerdictFollowsMarks /\ [Next]_vars => VerdictFollowsMarks'
  <2> SUFFICES ASSUME IInv, VerdictFollowsMarks, [Next]_vars
               PROVE  VerdictFollowsMarks'
    OBVIOUS
  <2>1. CASE Visit \/ Expand \/ EndExpand
    BY <2>1 DEF Visit, Expand, EndExpand, VerdictFollowsMarks
  <2>2. CASE CheckUnreachableStatements
    BY <2>2 DEF CheckUnreachableStatements, VerdictFollowsMarks, UnreachableStatement
  <2>3. CASE CheckFiniteLengthReturn
    <3>1. q = << >> /\ ~UnreachableStatement
      BY <2>3 DEF CheckFiniteLengthReturn, IInv, ChecksComeLast
    <3>2. QED
      BY <2>3, <3>1 DEF CheckFiniteLengthReturn, VerdictFollowsMarks, UnreachableStatement
  <2>4. CASE UNCHANGED vars
    BY <2>4 DEF vars, VerdictFollowsMarks, UnreachableStatement
  <2>5. QED
    BY <2>1, <2>2, <2>3, <2>4 DEF Next
<1>3. QED
  BY <1>1, <1>2, IInvIsInvariant, PTL DEF Spec

\* From the statements to the verdict.
THEOREM VerdictAgreesWithStatements == Spec => []AgreesWithStatements
<1>1. IInv /\ VerdictFollowsMarks => AgreesWithStatements
  <2> SUFFICES ASSUME IInv, VerdictFollowsMarks, pc = "done",
                      \A k \in DOMAIN cfg.body : KnownConditions[cfg.body[k]]
               PROVE  AgreesWithStatements
    BY DEF AgreesWithStatements
  <2>1. /\ cfg.body \in Seq(Statements \ {Sentinel}) /\ cfg.nonVoid \in BOOLEAN
        /\ cfg = BuildCFG(cfg.body, cfg.nonVoid)
    BY GraphsAreBuilt DEF IInv, TypeOK
  <2> DEFINE body == Block(cfg.body)
             Bads == HoldsUnreachable(SomethingUnreachable, body) \/ CutsOffUpdate(UpdateCutOff, body)
             Ends == Completes(CompletesNormally, body)
  <2>2. /\ cfg.end \in Reachable(cfg) <=> Ends
        /\ (\E m \in cfg.nodes \ {cfg.end} : m \notin Reachable(cfg)) <=> Bads
    BY <2>1, GraphsFollowTheRules
  <2> HIDE DEF Bads, Ends
  <2>3. {m \in cfg.nodes : in[m]} = Reachable(cfg)
    BY SearchIsComplete DEF VerdictFollowsMarks
  <2>4. cfg.end \in cfg.nodes
    BY GraphIsWellFormed DEF IInv
  <2>5. (in[cfg.end] <=> Ends) /\ (UnreachableStatement <=> Bads)
    BY <2>2, <2>3, <2>4 DEF UnreachableStatement
  <2>6. result = IF Bads THEN "unreachable" ELSE IF cfg.nonVoid /\ Ends THEN "noReturn" ELSE "ok"
    BY <2>5 DEF VerdictFollowsMarks
  <2>7. QED
    BY <2>6 DEF AgreesWithStatements, Bads, Ends
<1>2. QED
  BY <1>1, IInvIsInvariant, VerdictInvariant, PTL

\* The nodes of a built graph carry statements of the methods.
LEMMA NodesAreStatements ==
  ASSUME NEW stmts \in Seq(Statements \ {Sentinel}), NEW nonVoid
  PROVE  LET g == BuildCFG(stmts, nonVoid) IN \A n \in g.nodes : g.stmt[n] \in Statements
<1> DEFINE built == BuildStmts(BuildStmt, Append(stmts, Sentinel), [entry |-> Null, graph |-> EmptyGraph])
           b == built.graph
           g == BuildCFG(stmts, nonVoid)
<1>1. Whole(b, built.entry, AllComplete(stmts, 1), SomethingBad(stmts, 1))
  BY WholeIsBuilt
<1>2. g.nodes = DOMAIN b.stmt /\ g.stmt = b.stmt
  BY DEF BuildCFG
<1> HIDE DEF built, b, g
<1>3. \A m \in DOMAIN b.stmt : b.stmt[m] \in Statements
  BY <1>1 DEF Whole, Sound, PartialGraphs
<1>4. QED
  BY <1>2, <1>3 DEF g

\* What the builder takes for constant is, and has Java's value: conditions of
\* any length, words of any width, remainders of negative numbers and null
\* compared with null excepted.
THEOREM FoldingIsJavas == Spec => []FoldingAgreesWithJava
<1>1. IInv => FoldingAgreesWithJava
  <2> SUFFICES ASSUME IInv, NEW n \in cfg.nodes, cfg.stmt[n].kind \in {"while", "for"},
                      OnlyLiterals(cfg.stmt[n].cond) =>
                        NoNegativeRemainders(cfg.stmt[n].cond) /\ NoNullsCompared(cfg.stmt[n].cond),
                      NEW b \in BOOLEAN, FoldsTo(cfg.stmt[n].cond, b)
               PROVE  JavaValue(cfg.stmt[n].cond) = Truth(b)
    BY DEF FoldingAgreesWithJava
  <2>1. cfg \in CFGs
    BY DEF IInv, TypeOK
  <2>2. cfg.body \in Seq(Statements \ {Sentinel}) /\ cfg = BuildCFG(cfg.body, cfg.nonVoid)
    BY <2>1, GraphsAreBuilt
  <2>3. cfg.stmt[n] \in Statements
    BY <2>2, NodesAreStatements
  <2>4. CASE cfg.stmt[n].cond = NoExpr
    BY <2>4, TypesOfValues DEF FoldsTo, EvaluateBoolConstantExpr
  <2>5. CASE IsTypedExpr(cfg.stmt[n].cond)
    BY <2>5, ConstantIsJavas
  <2>6. QED
    BY <2>3, <2>4, <2>5, ConditionsAssumption
<1>2. QED
  BY <1>1, IInvIsInvariant, PTL
=============================================================================
