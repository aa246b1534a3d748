-------------------------- MODULE MCLiveVariables --------------------------
(***************************************************************************)
(* Liveness on the graphs the builder makes of small methods over two      *)
(* local variables, from every order of the initial queue.                 *)
(***************************************************************************)
EXTENDS LiveVariableAnalysis, CFGBuilder

MCWordSize == 2^4
MCVariables == {"x", "y"}

Var(v) == <<Name(v)>>
Set(v, e) == ExprStmt(Var(v) \o e \o <<Assign>>)
Unknown == Var("p")

\* x is overwritten, copied, counted up, read; q[x] = 1 assigns no local.
Leaves == <<Set("x", <<Num(1)>>),
            Set("y", Var("x")),
            ExprStmt(<<Name("q"), Name("y"), BinOp("Index"), Num(1), Assign>>)>>

Triples == [k \in 1..27 |-> <<Leaves[((k - 1) \div 9) + 1],
                              Leaves[(((k - 1) \div 3) % 3) + 1],
                              Leaves[((k - 1) % 3) + 1]>>]

\* Those that end by overwriting x and start with an assignment to a local.
Six == SelectSeq(Triples, LAMBDA t : t[3] = Leaves[1] /\ t[1] # Leaves[3])

Each(Op(_), s) == [k \in DOMAIN s |-> Op(s[k])]

Loop(t)   == <<WhileStmt(Unknown, Block(<<t[1], t[2]>>)), t[3]>>
Count(t)  == <<ForStmt(DeclStmt("x", Var("p")), Var("x"), t[1], t[2]), ReturnStmt(Var("y"))>>
Choice(t) == <<IfElseStmt(Unknown, t[1], t[2]), t[3], ReturnStmt(Var("y"))>>
Nested(t) == <<t[1], WhileStmt(Unknown, IfStmt(Var("y"), t[2])), t[3]>>
Forever(t) == <<t[1], WhileStmt(<<Bool(TRUE)>>, Block(<<t[2], t[3]>>))>>

Bodies == Each(Loop, Triples) \o Each(Forever, Six)
            \o Each(Count, Six) \o Each(Choice, Six) \o Each(Nested, Six)
            \o <<<<DeclStmt("y", <<Num(1)>>)>>, << >>>>

RECURSIVE Within(_), MCDepth(_)
Within(s) == {s} \cup UNION {Within(t) : t \in Parts(s)}
MCDepth(s) == 1 + Max({0} \cup {MCDepth(t) : t \in Parts(s)})

MCStatements ==
  {s : s \in {Sentinel} \cup UNION {Within(Block(b)) : b \in Range(Bodies)}}
MCDepths == [s \in MCStatements |-> MCDepth(s)]

Graphs == Each(LAMBDA b : BuildCFG(b, FALSE), Bodies) \o << >>
MCCFGs == Range(Graphs)
=============================================================================
