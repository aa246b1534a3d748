------------------------- MODULE EnvironmentProofs -------------------------
(***************************************************************************)
(* What names mean.  The contexts of the type linker follow the rules of   *)
(* shadowing and its verdict is the language's, for every program, every   *)
(* order of its files and every order in which the entries of a package    *)
(* are met; and it comes to a verdict.  In a method, scope numbers find    *)
(* what the stack of declarations held, for any set of names and methods   *)
(* of any size.                                                            *)
(***************************************************************************)
EXTENDS TypeLinker, LocalScopes, SequenceTheorems, FiniteSetTheorems, TLAPS
-----------------------------------------------------------------------------
(***************************************************************************)
(* The type linker.                                                        *)
(***************************************************************************)
\* The name of a type: at least two identifiers, the last one the class.
LEMMA TypeNameFacts ==
  ASSUME NEW u, IsUnit(u)
  PROVE  /\ TypeName(u) \in Paths /\ Len(TypeName(u)) >= 2
         /\ Last(TypeName(u)) = u.class /\ u.class \in Ids
         /\ TypeName(u) \notin {Absent, Ambiguous, DefaultPackage}
         /\ TypeName(u) \notin Above(u)
         /\ Above(u) \subseteq Paths
<1> DEFINE S == Ids \cup {"?", ""}
<1>0. Ids \subseteq S /\ "?" \in S
  OBVIOUS
<1> HIDE DEF S
<1>1. u.package \in Seq(S) /\ u.class \in S /\ u.class \in Ids
  BY <1>0, SeqMonotonic DEF IsUnit
<1>2. Home(u) \in Seq(S) /\ Len(Home(u)) >= 1 /\ Len(Home(u)) >= Len(u.package)
  <2>1. "?" \in S /\ Len(<< >>) = 0
    BY <1>0
  <2>2. DefaultPackage \in Seq(S) /\ Len(DefaultPackage) = 1
    BY <2>1 DEF DefaultPackage
  <2>3. CASE u.package = << >>
    BY <2>1, <2>2, <2>3 DEF Home
  <2>4. CASE u.package # << >>
    BY <1>1, <2>4 DEF Home
  <2>5. QED
    BY <2>3, <2>4
<1>3. /\ TypeName(u) \in Seq(S) /\ Len(TypeName(u)) = Len(Home(u)) + 1
      /\ TypeName(u)[Len(Home(u)) + 1] = u.class
  BY <1>1, <1>2 DEF TypeName
<1>4. \A n \in 1..Len(u.package) :
        /\ SubSeq(u.package, 1, n) \in Seq(S)
        /\ Len(SubSeq(u.package, 1, n)) = n
  <2> TAKE n \in 1..Len(u.package)
  <2> DEFINE p == u.package
  <2>0. p \in Seq(S) /\ Len(p) \in Nat
    BY <1>1
  <2> HIDE DEF p
  <2>1. n \in Int /\ \A i \in 1..n : p[i] \in S
    BY <2>0 DEF p
  <2>2. /\ SubSeq(p, 1, n) \in Seq(S)
        /\ Len(SubSeq(p, 1, n)) = IF 1 <= n THEN n - 1 + 1 ELSE 0
    BY <2>1, SubSeqProperties
  <2>3. 1 <= n /\ n \in Int
    BY <2>0 DEF p
  <2>4. QED
    BY <2>2, <2>3 DEF p
<1>5. \A p \in Above(u) : p \in Seq(S) /\ Len(p) <= Len(u.package)
  BY <1>4 DEF Above
<1>6. TypeName(u) \notin Above(u)
  BY <1>1, <1>2, <1>3, <1>5
<1>7. Len(Absent) = 0 /\ Len(Ambiguous) = 1 /\ Len(DefaultPackage) = 1
  BY DEF Absent, Ambiguous, DefaultPackage
<1>8. TypeName(u) \notin {Absent, Ambiguous, DefaultPackage}
  BY <1>2, <1>3, <1>7
<1>9. Last(TypeName(u)) = u.class
  BY <1>3 DEF Last
<1>10. Paths = Seq(S)
  BY DEF Paths, S
<1>11. QED
  BY <1>1, <1>2, <1>3, <1>5, <1>6, <1>8, <1>9, <1>10

LEMMA ConstantPaths == DefaultPackage \in Paths /\ Absent \in Paths /\ Ambiguous \in Paths
<1> DEFINE S == Ids \cup {"?", ""}
<1>1. "?" \in S /\ "" \in S
  OBVIOUS
<1> HIDE DEF S
<1>2. \A x \in S : <<x>> \in Seq(S)
  OBVIOUS
<1>3. <<"?">> \in Seq(S) /\ <<"">> \in Seq(S)
  BY <1>1, <1>2
<1>4. << >> \in Seq(S)
  OBVIOUS
<1>5. Paths = Seq(S)
  BY DEF Paths, S
<1>6. QED
  BY <1>3, <1>4, <1>5 DEF DefaultPackage, Absent, Ambiguous

LEMMA AllTypesFacts ==
  ASSUME IsProgram(units)
  PROVE  /\ \A t \in AllTypes : /\ t \in Paths /\ Last(t) \in Ids
                               /\ t \notin {Absent, Ambiguous, DefaultPackage}
         /\ AllPackages \subseteq Paths
<1>1. \A k \in DOMAIN units : IsUnit(units[k])
  BY DEF IsProgram
<1>2. DefaultPackage \in Paths
  BY ConstantPaths
<1>3. QED
  BY <1>1, <1>2, TypeNameFacts DEF AllTypes, AllPackages

-----------------------------------------------------------------------------
(* The inductive invariant.  The table holds the units before the one at   *)
(* work, and then all of them.                                             *)

NoClash(n) ==
  \A j, k \in 1..n :
    /\ TypeName(units[j]) = TypeName(units[k]) => j = k
    /\ TypeName(units[j]) \notin Above(units[k])

Table ==
  /\ linkStage = "table" =>
       /\ types = {TypeName(units[k]) : k \in 1..(unit - 1)}
       /\ packages = {DefaultPackage} \cup UNION {Above(units[k]) : k \in 1..(unit - 1)}
       /\ NoClash(unit - 1)
  /\ linkStage \notin {"table", "refused"} =>
       types = AllTypes /\ packages = AllPackages /\ NoClash(Len(units))

\* The types of a name offered by the imports before m.
Covered(u, m, id) ==
  {t \in Offered(u, id) : \E n \in DOMAIN u.imports :
     n < m /\ u.imports[n].star /\ Front(t) = u.imports[n].name}

Pending ==
  /\ linkStage = "demand" => \A t \in pending : t \in Offered(units[unit], Last(t))
  /\ linkStage \notin {"demand", "refused"} => pending = {}

\* An entry found on demand: none while no type of the name was met, the type as
\* long as it is the only one, and the mark only if two are offered.
OnDemand ==
  linkStage = "demand" => \A id \in Ids :
    LET u == units[unit]
        entry == contexts[unit][id]
    IN /\ entry = Absent => Covered(u, import, id) \subseteq pending
       /\ entry \notin {Absent, Ambiguous} =>
            entry \in Offered(u, id) /\ Covered(u, import, id) \subseteq pending \cup {entry}
       /\ entry = Ambiguous => \E s, t \in Offered(u, id) : s # t

Later ==
  /\ linkStage = "package" => \A id \in Ids : contexts[unit][id] = Outside(units[unit], id)
  /\ linkStage = "single" => \A id \in Ids :
       LET u == units[unit] IN
       \/ \E n \in DOMAIN u.imports :
            /\ n < import /\ ~u.imports[n].star /\ Last(u.imports[n].name) = id
            /\ contexts[unit][id] = u.imports[n].name
       \/ /\ \A n \in DOMAIN u.imports :
               n < import => u.imports[n].star \/ Last(u.imports[n].name) # id
          /\ contexts[unit][id] = InPackage(u, id)

Untouched ==
  \A k \in DOMAIN units :
    /\ (linkStage = "table" \/ k > unit) => \A id \in Ids : contexts[k][id] = Absent
    /\ \/ linkStage = "table" \/ k > unit
       \/ k = unit /\ linkStage \in {"demand", "package", "single"}
       => links[k] = << >>

\* What the stages so far have found right.
UsesRight(k) ==
  \A n \in DOMAIN units[k].uses : n <= Len(links[k]) =>
    /\ NamesType(units[k], units[k].uses[n])
    /\ links[k][n] = Meaning(units[k], Head(units[k].uses[n])) \o Tail(units[k].uses[n])

Finished(k) ==
  /\ \A n \in DOMAIN units[k].imports : ImportRight(units[k], units[k].imports[n])
  /\ UsesRight(k) /\ Len(links[k]) = Len(units[k].uses)

Checked ==
  /\ linkStage = "demand" => \A n \in DOMAIN units[unit].imports :
       n < import /\ units[unit].imports[n].star => ImportRight(units[unit], units[unit].imports[n])
  /\ linkStage \in {"package", "single"} => \A n \in DOMAIN units[unit].imports :
       units[unit].imports[n].star => ImportRight(units[unit], units[unit].imports[n])
  /\ linkStage = "single" => \A n \in DOMAIN units[unit].imports :
       n < import => ImportRight(units[unit], units[unit].imports[n])
  /\ linkStage = "types" =>
       /\ \A n \in DOMAIN units[unit].imports : ImportRight(units[unit], units[unit].imports[n])
       /\ UsesRight(unit) /\ Len(links[unit]) <= Len(units[unit].uses)
  /\ linkStage \in {"demand", "package", "single", "types"} =>
       \A k \in 1..(unit - 1) : Finished(k)
  /\ linkStage \in {"resolved", "linked"} => \A k \in DOMAIN units : Finished(k)
  /\ linkStage = "linked" => Required \subseteq AllTypes

\* The imports are gone through from the first.
Imports1 ==
  /\ linkStage = "table" => import = 1
  /\ linkStage \in {"demand", "single"} => import >= 1

LinkInv ==
  /\ LinkTypeOK /\ Table /\ Pending /\ Imports1 /\ OnDemand /\ Later /\ Untouched
  /\ ContextsFollowShadowing /\ Checked
  /\ linkStage = "refused" => ~Links

LEMMA LinkInitInv == LinkInit => LinkInv
<1> SUFFICES ASSUME LinkInit PROVE LinkInv
  OBVIOUS
<1>1. IsProgram(units) /\ linkStage = "table" /\ unit = 1 /\ import = 1 /\ pending = {}
  BY ProgramsAssumption DEF LinkInit
<1>2. Len(units) \in Nat \ {0} /\ DOMAIN units = 1..Len(units)
  BY <1>1 DEF IsProgram
<1>3. Absent \in Paths /\ << >> \in Seq(Paths) /\ DefaultPackage \in Paths
  BY ConstantPaths DEF Absent
<1>4. LinkTypeOK
  BY <1>1, <1>2, <1>3 DEF LinkInit, LinkTypeOK, Stages
<1>5. Table
  BY <1>1 DEF LinkInit, Table, NoClash
<1>6. Untouched
  BY <1>1, <1>2 DEF LinkInit, Untouched
<1>7. QED
  BY <1>1, <1>4, <1>5, <1>6 DEF LinkInv, Pending, Imports1, OnDemand, Later,
     ContextsFollowShadowing, ContextDone, Checked

\* The reference is about the program alone.
LEMMA SameProgram ==
  ASSUME units' = units
  PROVE  /\ AllTypes' = AllTypes /\ AllPackages' = AllPackages
         /\ \A u, id : /\ Offered(u, id)' = Offered(u, id) /\ Outside(u, id)' = Outside(u, id)
                       /\ InPackage(u, id)' = InPackage(u, id)
                       /\ Meaning(u, id)' = Meaning(u, id)
         /\ \A u, m, id : Covered(u, m, id)' = Covered(u, m, id)
         /\ \A u, x : ImportRight(u, x)' <=> ImportRight(u, x)
         /\ \A u, x : NamesType(u, x)' <=> NamesType(u, x)
         /\ Links' <=> Links
<1>1. AllTypes' = AllTypes /\ AllPackages' = AllPackages
  BY DEF AllTypes, AllPackages
<1>2. \A u, id : Offered(u, id)' = Offered(u, id)
  BY <1>1 DEF Offered
<1>3. \A u, id : Outside(u, id)' = Outside(u, id)
  BY <1>1, <1>2 DEF Outside, OnDemandMeaning
<1>4. \A u, id : InPackage(u, id)' = InPackage(u, id)
  BY <1>1, <1>3 DEF InPackage
<1>5. \A u, id : Meaning(u, id)' = Meaning(u, id)
  BY <1>4 DEF Meaning, Imported
<1>6. \A u, m, id : Covered(u, m, id)' = Covered(u, m, id)
  BY <1>2 DEF Covered
<1>7. /\ \A u, x : ImportRight(u, x)' <=> ImportRight(u, x)
      /\ \A u, x : NamesType(u, x)' <=> NamesType(u, x)
  BY <1>1, <1>5 DEF ImportRight, NamesType
<1>8. \A u : WellFormed(u)' <=> WellFormed(u)
  BY <1>1, <1>7 DEF WellFormed
<1>9. Links' <=> Links
  BY <1>1, <1>8 DEF Links
<1>10. QED
  BY <1>1, <1>2, <1>3, <1>4, <1>5, <1>6, <1>7, <1>9

LEMMA UnitAtWork ==
  ASSUME LinkTypeOK
  PROVE  /\ IsProgram(units) /\ Len(units) \in Nat /\ Len(units) >= 1 /\ DOMAIN units = 1..Len(units)
         /\ unit \in Nat /\ unit >= 1 /\ unit <= Len(units)
         /\ \A k \in 1..Len(units) : IsUnit(units[k])
         /\ IsUnit(units[unit])
BY DEF LinkTypeOK, IsProgram

\* The table: a unit is refused exactly when it clashes with an earlier one, and a
\* clash is one whichever of the two comes first.
LEMMA AddToTableInv ==
  ASSUME LinkInv, AddToTable
  PROVE  LinkInv'
<1> DEFINE u == units[unit]
           clash == Above(u) \cap types # {} \/ Taken(TypeName(u))
<1>0. /\ LinkTypeOK /\ Table /\ Pending /\ Untouched /\ linkStage = "table"
      /\ UNCHANGED <<units, import, pending, contexts, links>>
  BY DEF LinkInv, AddToTable
<1>1. /\ IsProgram(units) /\ Len(units) \in Nat /\ Len(units) >= 1 /\ DOMAIN units = 1..Len(units)
      /\ unit \in Nat /\ unit >= 1 /\ unit <= Len(units)
      /\ \A k \in 1..Len(units) : IsUnit(units[k])
      /\ IsUnit(u)
  BY <1>0, UnitAtWork
<1>2. /\ types = {TypeName(units[k]) : k \in 1..(unit - 1)}
      /\ packages = {DefaultPackage} \cup UNION {Above(units[k]) : k \in 1..(unit - 1)}
      /\ NoClash(unit - 1)
      /\ pending = {}
  BY <1>0 DEF Table, Pending
<1>3. TypeName(u) \in Paths /\ TypeName(u) # DefaultPackage /\ TypeName(u) \notin Above(u)
      /\ Above(u) \subseteq Paths
  BY <1>1, TypeNameFacts
<1>4. /\ AllTypes' = AllTypes /\ AllPackages' = AllPackages /\ (Links' <=> Links)
  BY <1>0, SameProgram
<1>5. \A k \in 1..(unit - 1) : k \in DOMAIN units /\ k # unit
  BY <1>1
<1>6. unit \in DOMAIN units
  BY <1>1
<1>7. CASE clash /\ linkStage' = "refused" /\ UNCHANGED <<unit, packages, types>>
  <2>1. ~Links
    <3>1. CASE Above(u) \cap types # {}
      <4>1. PICK k \in 1..(unit - 1) : TypeName(units[k]) \in Above(u)
        BY <1>2, <3>1
      <4>2. TypeName(units[k]) \in AllPackages
        BY <1>6, <4>1 DEF AllPackages
      <4>3. QED
        BY <1>5, <4>1, <4>2 DEF Links, WellFormed
    <3>2. CASE TypeName(u) \in types
      BY <1>2, <1>5, <1>6, <3>2 DEF Links
    <3>3. CASE TypeName(u) \in packages
      <4>1. TypeName(u) \in AllPackages
        BY <1>2, <1>5, <3>3 DEF AllPackages
      <4>2. QED
        BY <1>6, <4>1 DEF Links, WellFormed
    <3>4. QED
      BY <1>7, <3>1, <3>2, <3>3 DEF Taken
  <2>2. LinkTypeOK'
    BY <1>0, <1>7 DEF LinkTypeOK, Stages
  <2>3. Untouched'
    BY <1>0, <1>7 DEF Untouched
  <2>4. QED
    BY <1>0, <1>2, <1>4, <1>7, <2>1, <2>2, <2>3 DEF LinkInv, Table, Pending, Imports1, OnDemand,
       Later, ContextsFollowShadowing, ContextDone, Checked
<1>8. CASE /\ ~clash
           /\ packages' = packages \cup Above(u)
           /\ types' = types \cup {TypeName(u)}
           /\ IF unit < Len(units)
              THEN unit' = unit + 1 /\ UNCHANGED linkStage
              ELSE unit' = 1 /\ linkStage' = "demand"
  <2>1. 1..unit = 1..(unit - 1) \cup {unit}
    BY <1>1
  <2>2. types' = {TypeName(units[k]) : k \in 1..unit}
    BY <1>2, <1>8, <2>1
  <2>3. packages' = {DefaultPackage} \cup UNION {Above(units[k]) : k \in 1..unit}
    BY <1>2, <1>8, <2>1
  <2>4. NoClash(unit)
    <3>1. \A k \in 1..(unit - 1) : /\ TypeName(units[k]) \notin Above(u)
                                   /\ TypeName(units[k]) # TypeName(u)
                                   /\ TypeName(u) \notin Above(units[k])
      BY <1>2, <1>8 DEF Taken
    <3>2. QED
      BY <1>2, <1>3, <2>1, <3>1 DEF NoClash
  <2>5. types' \subseteq Paths /\ packages' \subseteq Paths
    BY <1>0, <1>3, <1>8 DEF LinkTypeOK
  <2>6. CASE unit < Len(units)
    <3>1. unit' = unit + 1 /\ linkStage' = "table" /\ unit' - 1 = unit /\ unit' \in DOMAIN units
      BY <1>0, <1>1, <1>8, <2>6
    <3>2. LinkTypeOK'
      BY <1>0, <1>2, <2>5, <3>1 DEF LinkTypeOK, Stages
    <3>3. Table'
      BY <1>0, <2>2, <2>3, <2>4, <3>1 DEF Table, NoClash
    <3>4. Untouched'
      BY <1>0, <1>1, <3>1 DEF Untouched
    <3>5. QED
      BY <1>0, <1>2, <3>1, <3>2, <3>3, <3>4 DEF LinkInv, Pending, Imports1, OnDemand,
         Later, ContextsFollowShadowing, ContextDone, Checked
  <2>7. CASE unit = Len(units)
    <3>1. unit' = 1 /\ linkStage' = "demand"
      BY <1>1, <1>8, <2>7
    <3>2. LinkTypeOK'
      BY <1>0, <1>1, <1>2, <2>5, <3>1 DEF LinkTypeOK, Stages
    <3>3. types' = AllTypes /\ packages' = AllPackages
      BY <1>1, <2>2, <2>3, <2>7 DEF AllTypes, AllPackages
    <3>4. Table'
      BY <1>0, <1>4, <2>4, <2>7, <3>1, <3>3 DEF Table, NoClash
    <3>5. Untouched'
      BY <1>0, <1>1, <3>1 DEF Untouched
    <3>6. import = 1
      BY DEF LinkInv, AddToTable, Imports1
    <3>7. Pending'
      BY <1>0, <1>2, <3>1 DEF Pending
    <3>8. OnDemand'
      <4>1. \A id \in Ids : contexts'[unit'][id] = Absent
        BY <1>0, <1>1, <3>1 DEF Untouched
      <4>2. \A id : Covered(units[1], 1, id) = {}
        BY <1>1 DEF Covered, IsUnit
      <4>3. \A id : Covered(units[unit], import, id)' = {}
        BY <1>0, <3>1, <3>6, <4>2, SameProgram
      <4>4. Absent # Ambiguous
        BY DEF Absent, Ambiguous
      <4>5. QED
        BY <4>1, <4>3, <4>4 DEF OnDemand
    <3>9. Checked'
      BY <1>0, <1>1, <3>1, <3>6 DEF Checked, IsUnit
    <3>10. QED
      BY <1>0, <1>1, <3>1, <3>2, <3>4, <3>5, <3>6, <3>7, <3>8, <3>9 DEF LinkInv, Imports1,
         Later, ContextsFollowShadowing, ContextDone
  <2>8. unit < Len(units) \/ unit = Len(units)
    <3>1. unit \in Nat /\ Len(units) \in Nat /\ unit <= Len(units)
      BY <1>1, Zenon
    <3>2. \A m, n \in Nat : m <= n => m < n \/ m = n
      OBVIOUS
    <3>3. QED
      BY <3>1, <3>2, Zenon
  <2>9. QED
    BY <2>6, <2>7, <2>8, Zenon
<1>9. QED
  BY <1>7, <1>8 DEF AddToTable, Refuse

-----------------------------------------------------------------------------
(* The steps on one unit.                                                   *)

LEMMA AfterTable ==
  ASSUME LinkInv, linkStage \notin {"table", "refused"}
  PROVE  /\ types = AllTypes /\ packages = AllPackages /\ NoClash(Len(units))
         /\ AllTypes \subseteq Paths /\ AllPackages \subseteq Paths
         /\ \A t \in AllTypes : t \notin {Absent, Ambiguous} /\ Last(t) \in Ids
BY AllTypesFacts DEF LinkInv, LinkTypeOK, Table

\* A program refused for a reason the language has too.
LEMMA RefusedInv ==
  ASSUME LinkInv, ~Links, linkStage' = "refused", import' \in Nat, pending' = pending,
         UNCHANGED <<units, unit, packages, types, contexts, links>>
  PROVE  LinkInv'
<1>1. LinkTypeOK'
  BY DEF LinkInv, LinkTypeOK, Stages
<1>2. ~Links'
  BY SameProgram
<1>3. Untouched'
  BY DEF LinkInv, Untouched
<1>4. Table' /\ Pending' /\ Imports1' /\ OnDemand' /\ Later' /\ Checked'
  BY DEF Table, Pending, Imports1, OnDemand, Later, Checked
<1>5. ContextsFollowShadowing'
  BY DEF ContextsFollowShadowing, ContextDone
<1>6. QED
  BY <1>1, <1>2, <1>3, <1>4, <1>5 DEF LinkInv

\* What is left as it is while the contexts of one unit are made.
LEMMA FrameInv ==
  ASSUME LinkInv, linkStage \in {"demand", "package", "single"},
         linkStage' \in {"demand", "package", "single", "types"},
         UNCHANGED <<units, unit, packages, types, links>>,
         \A k \in DOMAIN units : k # unit => contexts'[k] = contexts[k]
  PROVE  /\ Table' /\ Untouched'
         /\ linkStage' # "types" => ContextsFollowShadowing'
         /\ (\A k \in DOMAIN units : k < unit => \A id \in Ids : contexts[k][id] = Meaning(units[k], id))'
         /\ (\A k \in 1..(unit - 1) : Finished(k))'
<1>1. Table'
  BY SameProgram DEF LinkInv, Table, NoClash
<1>2. unit \in DOMAIN units /\ DOMAIN units = 1..Len(units) /\ Len(units) \in Nat
  BY UnitAtWork DEF LinkInv
<1>3. Untouched'
  BY <1>2 DEF LinkInv, Untouched
<1>4. /\ linkStage' # "types" => ContextsFollowShadowing'
      /\ (\A k \in DOMAIN units : k < unit => \A id \in Ids : contexts[k][id] = Meaning(units[k], id))'
  <2>1. \A k \in DOMAIN units : k < unit => \A id \in Ids : contexts[k][id] = Meaning(units[k], id)
    BY DEF LinkInv, ContextsFollowShadowing, ContextDone
  <2>2. \A k \in DOMAIN units : k < unit => contexts'[k] = contexts[k]
    BY <1>2
  <2>3. \A u, id : Meaning(u, id)' = Meaning(u, id)
    BY SameProgram
  <2>4. linkStage' # "types" => \A k \in DOMAIN units : ContextDone(k)' => k < unit
    BY DEF ContextDone
  <2>5. QED
    BY <2>1, <2>2, <2>3, <2>4 DEF ContextsFollowShadowing
<1>5. (\A k \in 1..(unit - 1) : Finished(k))'
  <2>1. \A k \in 1..(unit - 1) : Finished(k)
    BY DEF LinkInv, Checked
  <2>2. \A k : UsesRight(k)' <=> UsesRight(k)
    <3>1. /\ \A u, x : NamesType(u, x)' <=> NamesType(u, x)
          /\ \A u, id : Meaning(u, id)' = Meaning(u, id)
      BY SameProgram
    <3>2. TAKE k
    <3>3. /\ \A n : NamesType(units[k], units[k].uses[n])' <=> NamesType(units[k], units[k].uses[n])
          /\ \A n : Meaning(units[k], Head(units[k].uses[n]))' = Meaning(units[k], Head(units[k].uses[n]))
      BY <3>1
    <3>4. QED
      BY <3>3 DEF UsesRight
  <2>4. \A k : Finished(k)' <=> Finished(k)
    BY <2>2, SameProgram DEF Finished
  <2>5. QED
    BY <2>1, <2>4
<1>6. QED
  BY <1>1, <1>3, <1>4, <1>5

LEMMA StartOnDemandImportInv ==
  ASSUME LinkInv, StartOnDemandImport
  PROVE  LinkInv'
<1> DEFINE u == units[unit]
           i == u.imports[import]
<1>0. /\ linkStage = "demand" /\ pending = {} /\ import' = import + 1 /\ import <= Len(u.imports)
      /\ UNCHANGED <<units, unit, packages, types, contexts, links>>
      /\ LinkTypeOK /\ OnDemand /\ Checked /\ import \in Nat /\ import >= 1
  BY DEF LinkInv, LinkTypeOK, Imports1, StartOnDemandImport
<1>1. /\ IsUnit(u) /\ unit \in DOMAIN units /\ unit \in Nat
      /\ types = AllTypes /\ packages = AllPackages
      /\ \A t \in AllTypes : t \notin {Absent, Ambiguous} /\ Last(t) \in Ids
  BY <1>0, UnitAtWork, AfterTable
<1>2. /\ import \in DOMAIN u.imports /\ DOMAIN u.imports \subseteq Nat
      /\ i.star \in BOOLEAN
  <2>1. /\ u.imports \in Seq([name : Names1, star : BOOLEAN])
        /\ Len(u.imports) \in Nat /\ DOMAIN u.imports = 1..Len(u.imports)
    BY <1>1 DEF IsUnit
  <2>2. import \in 1..Len(u.imports)
    BY <1>0, <2>1
  <2>3. i \in [name : Names1, star : BOOLEAN]
    BY <2>1, <2>2, ElementOfSeq, Zenon
  <2>4. QED
    BY <2>1, <2>2, <2>3
<1>3. \A n \in DOMAIN u.imports : n < import + 1 <=> n < import \/ n = import
  BY <1>0, <1>2
<1>4. CASE Refuse(i.star /\ i.name \notin packages) /\ UNCHANGED pending
  <2>1. ~ImportRight(u, i)
    BY <1>1, <1>4 DEF Refuse, ImportRight
  <2>2. ~Links
    BY <1>1, <1>2, <2>1 DEF Links, WellFormed
  <2>3. import' \in Nat
    BY <1>0
  <2>4. QED
    BY <1>0, <1>4, <2>2, <2>3, RefusedInv DEF Refuse
<1>5. ASSUME linkStage' = linkStage,
             pending' = IF i.star THEN {t \in types : Front(t) = i.name} ELSE {},
             i.star => i.name \in packages
      PROVE  LinkInv'
  <2>1. LinkTypeOK'
    BY <1>0, <1>5 DEF LinkTypeOK
  <2>2. /\ Table' /\ Untouched' /\ ContextsFollowShadowing'
        /\ (\A k \in 1..(unit - 1) : Finished(k))'
    BY <1>0, <1>5, FrameInv
  <2>3. \A t \in pending' : t \in Offered(u, Last(t))
    BY <1>1, <1>2, <1>5 DEF Offered, Imports
  <2>4. Pending'
    BY <1>0, <1>5, <2>3, SameProgram DEF Pending
  <2>5. \A id : Covered(u, import + 1, id) \subseteq Covered(u, import, id) \cup pending'
    BY <1>1, <1>2, <1>3, <1>5 DEF Covered, Offered
  <2>6. OnDemand'
    <3>2. \A id \in Ids :
            LET entry == contexts[unit][id] IN
            /\ entry = Absent => Covered(u, import + 1, id) \subseteq pending'
            /\ entry \notin {Absent, Ambiguous} =>
                 entry \in Offered(u, id) /\ Covered(u, import + 1, id) \subseteq pending' \cup {entry}
            /\ entry = Ambiguous => \E s, t \in Offered(u, id) : s # t
      BY <1>0, <2>5 DEF OnDemand
    <3>3. QED
      BY <1>0, <1>5, <3>2, SameProgram DEF OnDemand
  <2>7. Checked'
    <3>1. ImportRight(u, i) \/ ~i.star
      BY <1>1, <1>5 DEF ImportRight
    <3>2. \A n \in DOMAIN u.imports : n < import + 1 /\ u.imports[n].star => ImportRight(u, u.imports[n])
      BY <1>0, <1>3, <3>1 DEF Checked
    <3>3. QED
      BY <1>0, <1>5, <2>2, <3>2, SameProgram DEF Checked
  <2>8. QED
    BY <1>0, <1>5, <2>1, <2>2, <2>4, <2>6, <2>7 DEF LinkInv, Imports1, Later
<1>6. QED
  BY <1>0, <1>2, <1>4, <1>5 DEF StartOnDemandImport

\* One more type found on demand.
LEMMA AddOnDemandInv ==
  ASSUME LinkInv, AddOnDemand
  PROVE  LinkInv'
<1> DEFINE u == units[unit]
<1>0. /\ linkStage = "demand" /\ import \in Nat /\ import >= 1
      /\ UNCHANGED <<units, linkStage, unit, import, packages, types, links>>
      /\ LinkTypeOK /\ OnDemand /\ Checked /\ Pending
  BY DEF LinkInv, LinkTypeOK, Imports1, AddOnDemand
<1>1. /\ IsUnit(u) /\ unit \in DOMAIN units /\ unit \in Nat
      /\ types = AllTypes /\ AllTypes \subseteq Paths
      /\ \A t \in AllTypes : t \notin {Absent, Ambiguous} /\ Last(t) \in Ids
  BY <1>0, UnitAtWork, AfterTable
<1>2. PICK t \in pending :
        /\ contexts' = [contexts EXCEPT ![unit][Last(t)] = FoundOnDemand(@, t)]
        /\ pending' = pending \ {t}
  BY DEF AddOnDemand
<1>3. t \in types /\ t \in Paths /\ Last(t) \in Ids /\ t \notin {Absent, Ambiguous} /\ t \in Offered(u, Last(t))
  BY <1>0, <1>1 DEF LinkTypeOK, Pending
<1> DEFINE old == contexts[unit][Last(t)]
           new == FoundOnDemand(old, t)
<1>4. /\ contexts \in [DOMAIN units -> [Ids -> Paths]] /\ new \in Paths
  BY <1>0, <1>1, <1>3, ConstantPaths DEF LinkTypeOK, FoundOnDemand
<1>5. /\ contexts' \in [DOMAIN units -> [Ids -> Paths]]
      /\ \A k \in DOMAIN units : k # unit => contexts'[k] = contexts[k]
      /\ \A id \in Ids : contexts'[unit][id] = IF id = Last(t) THEN new ELSE contexts[unit][id]
  <2> HIDE DEF new, u
  <2>1. contexts' = [contexts EXCEPT ![unit] = [contexts[unit] EXCEPT ![Last(t)] = new]]
    BY <1>1, <1>2, <1>4 DEF new
  <2>2. contexts[unit] \in [Ids -> Paths]
    BY <1>1, <1>4
  <2>3. [contexts[unit] EXCEPT ![Last(t)] = new] \in [Ids -> Paths]
    BY <1>4, <2>2
  <2>4. QED
    BY <1>1, <1>3, <1>4, <2>1, <2>2, <2>3
<1>6. LinkTypeOK'
  BY <1>0, <1>2, <1>5 DEF LinkTypeOK
<1>7. /\ Table' /\ Untouched' /\ ContextsFollowShadowing'
      /\ (\A k \in 1..(unit - 1) : Finished(k))'
  BY <1>0, <1>5, FrameInv
<1>8. Pending'
  BY <1>0, <1>2, SameProgram DEF Pending
<1>9. Checked'
  BY <1>0, <1>7, SameProgram DEF Checked
<1>10. OnDemand'
  <2>1. ASSUME NEW id \in Ids
        PROVE  LET entry == contexts'[unit][id] IN
               /\ entry = Absent => Covered(u, import, id) \subseteq pending'
               /\ entry \notin {Absent, Ambiguous} =>
                    entry \in Offered(u, id) /\ Covered(u, import, id) \subseteq pending' \cup {entry}
               /\ entry = Ambiguous => \E x, y \in Offered(u, id) : x # y
    <3> DEFINE before == contexts[unit][id]
    <3>1. /\ before = Absent => Covered(u, import, id) \subseteq pending
          /\ before \notin {Absent, Ambiguous} =>
               before \in Offered(u, id) /\ Covered(u, import, id) \subseteq pending \cup {before}
          /\ before = Ambiguous => \E x, y \in Offered(u, id) : x # y
      BY <1>0 DEF OnDemand
    <3>2. \A x \in Covered(u, import, id) : Last(x) = id
      BY DEF Covered, Offered
    <3>3. Absent # Ambiguous
      BY DEF Absent, Ambiguous
    <3> HIDE DEF u
    <3>4. CASE id # Last(t)
      BY <1>2, <1>5, <3>1, <3>2, <3>4
    <3>5. CASE id = Last(t) /\ before \in {Absent, t}
      BY <1>2, <1>3, <1>5, <3>1, <3>5 DEF FoundOnDemand
    <3>6. CASE id = Last(t) /\ before \notin {Absent, t}
      <4>1. contexts'[unit][id] = Ambiguous
        BY <1>5, <3>6 DEF FoundOnDemand
      <4>2. \E x, y \in Offered(u, id) : x # y
        BY <1>3, <3>1, <3>6
      <4>3. QED
        BY <3>3, <4>1, <4>2
    <3>7. QED
      BY <3>4, <3>5, <3>6
  <2>2. QED
    BY <1>0, <2>1, SameProgram DEF OnDemand
<1>11. QED
  BY <1>0, <1>6, <1>7, <1>8, <1>9, <1>10 DEF LinkInv, Imports1, Later

\* With all imports on demand gone through, the entries are what is offered.
LEMMA OfferedFound ==
  ASSUME LinkInv, linkStage = "demand", pending = {}, import > Len(units[unit].imports),
         NEW id \in Ids
  PROVE  contexts[unit][id] = OnDemandMeaning(units[unit], id)
<1> DEFINE u == units[unit]
           entry == contexts[unit][id]
<1>1. IsUnit(u)
  BY UnitAtWork DEF LinkInv
<1>2. Covered(u, import, id) = Offered(u, id)
  <2>1. Len(u.imports) \in Nat /\ DOMAIN u.imports = 1..Len(u.imports)
    BY <1>1 DEF IsUnit
  <2>2. import \in Nat
    BY DEF LinkInv, LinkTypeOK
  <2>3. \A n \in DOMAIN u.imports : n < import
    BY <2>1, <2>2
  <2>4. QED
    BY <2>3 DEF Covered, Offered, Imports
<1>3. /\ entry = Absent => Offered(u, id) = {}
      /\ entry \notin {Absent, Ambiguous} => Offered(u, id) = {entry}
      /\ entry = Ambiguous => \E s, t \in Offered(u, id) : s # t
  BY <1>2 DEF LinkInv, OnDemand
<1> HIDE DEF u, entry
<1>4. entry = OnDemandMeaning(u, id)
  BY <1>3 DEF OnDemandMeaning
<1>5. QED
  BY <1>4 DEF u, entry

LEMMA AddPackagesInv ==
  ASSUME LinkInv, AddPackages
  PROVE  LinkInv'
<1> DEFINE u == units[unit]
           new == [id \in Ids |->
             IF contexts[unit][id] = Absent /\ <<id>> \in packages THEN <<id>> ELSE contexts[unit][id]]
<1>0. /\ linkStage = "demand" /\ pending = {} /\ import > Len(u.imports) /\ linkStage' = "package"
      /\ UNCHANGED <<units, unit, import, pending, packages, types, links>>
      /\ LinkTypeOK /\ Checked /\ import \in Nat
      /\ contexts' = [contexts EXCEPT ![unit] = new]
  BY DEF LinkInv, LinkTypeOK, AddPackages
<1>1. /\ IsUnit(u) /\ unit \in DOMAIN units /\ packages = AllPackages /\ packages \subseteq Paths
      /\ \A t \in AllTypes : t \notin {Absent, Ambiguous}
  BY <1>0, UnitAtWork, AfterTable
<1>2. new \in [Ids -> Paths]
  BY <1>0, <1>1 DEF LinkTypeOK
<1>3. contexts'[unit] = new /\ \A k \in DOMAIN units : k # unit => contexts'[k] = contexts[k]
  BY <1>0, <1>1 DEF LinkTypeOK
<1>4. contexts' \in [DOMAIN units -> [Ids -> Paths]]
  BY <1>0, <1>1, <1>2 DEF LinkTypeOK
<1>5. LinkTypeOK'
  BY <1>0, <1>4 DEF LinkTypeOK, Stages
<1>6. /\ Table' /\ Untouched' /\ ContextsFollowShadowing'
      /\ (\A k \in 1..(unit - 1) : Finished(k))'
  BY <1>0, <1>3, FrameInv
<1>7. \A id \in Ids : new[id] = Outside(u, id)
  <2> TAKE id \in Ids
  <2>1. contexts[unit][id] = OnDemandMeaning(u, id)
    BY <1>0, OfferedFound
  <2>2. \A t \in Offered(u, id) : t \notin {Absent, Ambiguous}
    BY <1>1 DEF Offered
  <2>3. Absent # Ambiguous
    BY DEF Absent, Ambiguous
  <2>4. OnDemandMeaning(u, id) = Absent <=> Offered(u, id) = {}
    BY <2>2, <2>3 DEF OnDemandMeaning
  <2>5. QED
    BY <1>1, <2>1, <2>4 DEF Outside
<1>8. Later'
  <2> HIDE DEF new
  <2>1. QED
    BY <1>0, <1>3, <1>7, SameProgram DEF Later
<1>9. Checked'
  <2>1. Len(u.imports) \in Nat /\ DOMAIN u.imports = 1..Len(u.imports)
    BY <1>1 DEF IsUnit
  <2>2. \A n \in DOMAIN u.imports : u.imports[n].star => ImportRight(u, u.imports[n])
    BY <1>0, <2>1 DEF Checked
  <2>3. QED
    BY <1>0, <1>6, <2>2, SameProgram DEF Checked
<1>10. QED
  BY <1>0, <1>5, <1>6, <1>8, <1>9 DEF LinkInv, Pending, Imports1, OnDemand

LEMMA AddOwnPackageInv ==
  ASSUME LinkInv, AddOwnPackage
  PROVE  LinkInv'
<1> DEFINE u == units[unit]
           new == [id \in Ids |->
             IF Append(Home(u), id) \in types THEN Append(Home(u), id) ELSE contexts[unit][id]]
<1>0. /\ linkStage = "package" /\ linkStage' = "single" /\ import' = 1
      /\ UNCHANGED <<units, unit, pending, packages, types, links>>
      /\ LinkTypeOK /\ Checked /\ Pending /\ Later
      /\ contexts' = [contexts EXCEPT ![unit] = new]
  BY DEF LinkInv, AddOwnPackage
<1>1. /\ IsUnit(u) /\ unit \in DOMAIN units /\ types = AllTypes /\ types \subseteq Paths
  BY <1>0, UnitAtWork, AfterTable
<1>2. new \in [Ids -> Paths]
  BY <1>0, <1>1 DEF LinkTypeOK
<1>3. contexts'[unit] = new /\ \A k \in DOMAIN units : k # unit => contexts'[k] = contexts[k]
  BY <1>0, <1>1 DEF LinkTypeOK
<1>4. contexts' \in [DOMAIN units -> [Ids -> Paths]]
  BY <1>0, <1>1, <1>2 DEF LinkTypeOK
<1>5. LinkTypeOK'
  BY <1>0, <1>4 DEF LinkTypeOK, Stages
<1>6. /\ Table' /\ Untouched' /\ ContextsFollowShadowing'
      /\ (\A k \in 1..(unit - 1) : Finished(k))'
  BY <1>0, <1>3, FrameInv
<1>7. \A id \in Ids : new[id] = InPackage(u, id)
  BY <1>0, <1>1 DEF Later, InPackage
<1>8. /\ Len(u.imports) \in Nat /\ \A n \in DOMAIN u.imports : n \in Nat /\ ~(n < 1)
  BY <1>1 DEF IsUnit
<1>9. Later'
  <2> HIDE DEF new
  <2>1. QED
    BY <1>0, <1>3, <1>7, <1>8, SameProgram DEF Later
<1>10. Checked'
  BY <1>0, <1>6, <1>8, SameProgram DEF Checked
<1>11. QED
  BY <1>0, <1>5, <1>6, <1>9, <1>10 DEF LinkInv, Pending, Imports1, OnDemand

LEMMA AddSingleTypeImportInv ==
  ASSUME LinkInv, AddSingleTypeImport
  PROVE  LinkInv'
<1> DEFINE u == units[unit]
           i == u.imports[import]
           wrong == i.name \notin types \/ (Last(i.name) = u.class /\ i.name # TypeName(u))
<1>0. /\ linkStage = "single" /\ import' = import + 1 /\ import <= Len(u.imports)
      /\ UNCHANGED <<units, unit, pending, packages, types, links>>
      /\ LinkTypeOK /\ Checked /\ Pending /\ Later /\ import \in Nat /\ import >= 1
  BY DEF LinkInv, LinkTypeOK, Imports1, AddSingleTypeImport
<1>1. /\ IsUnit(u) /\ unit \in DOMAIN units /\ types = AllTypes /\ types \subseteq Paths
      /\ \A t \in AllTypes : Last(t) \in Ids
  BY <1>0, UnitAtWork, AfterTable
<1>2. import \in DOMAIN u.imports /\ \A n \in DOMAIN u.imports : n < import + 1 <=> n < import \/ n = import
  <2>1. /\ u.imports \in Seq([name : Names1, star : BOOLEAN])
        /\ Len(u.imports) \in Nat /\ DOMAIN u.imports = 1..Len(u.imports)
    BY <1>1 DEF IsUnit
  <2>2. QED
    BY <1>0, <2>1
<1>3. CASE Refuse(~i.star /\ wrong) /\ UNCHANGED contexts
  <2>1. ~ImportRight(u, i)
    BY <1>1, <1>3 DEF Refuse, ImportRight
  <2>2. ~Links
    BY <1>1, <1>2, <2>1 DEF Links, WellFormed
  <2>3. import' \in Nat
    BY <1>0
  <2>4. QED
    BY <1>0, <1>3, <2>2, <2>3, RefusedInv DEF Refuse
<1>4. ASSUME linkStage' = linkStage, ImportRight(u, i),
             \/ i.star /\ contexts' = contexts
             \/ ~i.star /\ contexts' = [contexts EXCEPT ![unit][Last(i.name)] = i.name]
      PROVE  LinkInv'
  <2>1. ~i.star => i.name \in Paths /\ Last(i.name) \in Ids
    BY <1>1, <1>4 DEF ImportRight
  <2> DEFINE new == IF i.star THEN contexts[unit]
                    ELSE [contexts[unit] EXCEPT ![Last(i.name)] = i.name]
  <2>2. contexts \in [DOMAIN units -> [Ids -> Paths]] /\ contexts[unit] \in [Ids -> Paths]
    BY <1>0, <1>1 DEF LinkTypeOK
  <2>3. new \in [Ids -> Paths]
    BY <2>1, <2>2
  <2>4. contexts' = [contexts EXCEPT ![unit] = new]
    BY <1>1, <1>4, <2>2
  <2>5. \A id \in Ids : new[id] = IF ~i.star /\ id = Last(i.name) THEN i.name ELSE contexts[unit][id]
    BY <2>1, <2>2
  <2> HIDE DEF new
  <2>6. /\ contexts' \in [DOMAIN units -> [Ids -> Paths]] /\ contexts'[unit] = new
        /\ \A k \in DOMAIN units : k # unit => contexts'[k] = contexts[k]
    BY <1>1, <2>2, <2>3, <2>4
  <2>7. LinkTypeOK'
    BY <1>0, <1>4, <2>6 DEF LinkTypeOK
  <2>8. /\ Table' /\ Untouched' /\ ContextsFollowShadowing'
        /\ (\A k \in 1..(unit - 1) : Finished(k))'
    BY <1>0, <1>4, <2>6, FrameInv
  <2>9. ASSUME NEW id \in Ids
        PROVE  \/ \E n \in DOMAIN u.imports :
                    /\ n < import + 1 /\ ~u.imports[n].star /\ Last(u.imports[n].name) = id
                    /\ new[id] = u.imports[n].name
               \/ /\ \A n \in DOMAIN u.imports :
                       n < import + 1 => u.imports[n].star \/ Last(u.imports[n].name) # id
                  /\ new[id] = InPackage(u, id)
    <3>1. CASE ~i.star /\ id = Last(i.name)
      BY <1>2, <2>5, <3>1
    <3>2. CASE i.star \/ id # Last(i.name)
      BY <1>0, <1>2, <2>5, <3>2 DEF Later
    <3>3. QED
      BY <3>1, <3>2
  <2>10. Later'
    BY <1>0, <1>4, <2>6, <2>9, SameProgram DEF Later
  <2>11. Checked'
    <3>1. \A n \in DOMAIN u.imports : n < import + 1 => ImportRight(u, u.imports[n])
      BY <1>0, <1>2, <1>4 DEF Checked
    <3>2. QED
      BY <1>0, <1>4, <2>8, <3>1, SameProgram DEF Checked
  <2>12. QED
    BY <1>0, <1>4, <2>7, <2>8, <2>10, <2>11 DEF LinkInv, Pending, Imports1, OnDemand
<1>5. CASE i.star /\ UNCHANGED <<linkStage, contexts>>
  <2>1. ImportRight(u, i)
    BY <1>0, <1>1, <1>2, <1>5 DEF Checked
  <2>2. QED
    BY <1>4, <1>5, <2>1
<1>6. CASE /\ ~i.star /\ ~wrong
           /\ contexts' = [contexts EXCEPT ![unit][Last(i.name)] = i.name]
           /\ UNCHANGED linkStage
  <2>1. ImportRight(u, i)
    BY <1>1, <1>6 DEF ImportRight
  <2>2. QED
    BY <1>4, <1>6, <2>1
<1>7. QED
  BY <1>3, <1>5, <1>6 DEF AddSingleTypeImport

\* The unit's own type comes last, and the context is complete.
LEMMA AddOwnTypeInv ==
  ASSUME LinkInv, AddOwnType
  PROVE  LinkInv'
<1> DEFINE u == units[unit]
           new == [contexts[unit] EXCEPT ![u.class] = TypeName(u)]
<1>0. /\ linkStage = "single" /\ import > Len(u.imports) /\ linkStage' = "types"
      /\ UNCHANGED <<units, unit, import, pending, packages, types, links>>
      /\ LinkTypeOK /\ Checked /\ Pending /\ Later /\ Untouched /\ import \in Nat
      /\ contexts' = [contexts EXCEPT ![unit][u.class] = TypeName(u)]
  BY DEF LinkInv, LinkTypeOK, AddOwnType
<1>1. /\ IsUnit(u) /\ unit \in DOMAIN units /\ unit \in Nat /\ DOMAIN units \subseteq Nat
      /\ TypeName(u) \in Paths /\ u.class \in Ids
      /\ contexts \in [DOMAIN units -> [Ids -> Paths]] /\ contexts[unit] \in [Ids -> Paths]
  BY <1>0, UnitAtWork, TypeNameFacts DEF LinkTypeOK
<1>2. /\ \A n \in DOMAIN u.imports : n < import
      /\ \A m, n \in DOMAIN u.imports :
           /\ ~u.imports[m].star /\ ~u.imports[n].star
           /\ Last(u.imports[m].name) = Last(u.imports[n].name)
           => u.imports[m].name = u.imports[n].name
      /\ \A n \in DOMAIN u.imports : u.imports[n].star \in BOOLEAN
  <2>1. Len(u.imports) \in Nat /\ DOMAIN u.imports = 1..Len(u.imports)
    BY <1>1 DEF IsUnit
  <2>2. \A n \in DOMAIN u.imports : n < import
    BY <1>0, <2>1
  <2>3. \A n \in DOMAIN u.imports : u.imports[n] \in [name : Names1, star : BOOLEAN]
    <3>1. u.imports \in Seq([name : Names1, star : BOOLEAN])
      BY <1>1 DEF IsUnit
    <3>2. QED
      BY <2>1, <3>1, ElementOfSeq, Zenon
  <2>4. QED
    BY <1>1, <2>2, <2>3 DEF IsUnit
<1>3. \A id \in Ids : contexts[unit][id] = Imported(u, id)
  <2> TAKE id \in Ids
  <2>1. CASE \E n \in DOMAIN u.imports :
               /\ ~u.imports[n].star /\ Last(u.imports[n].name) = id
               /\ contexts[unit][id] = u.imports[n].name
    <3>1. PICK n \in DOMAIN u.imports :
            /\ ~u.imports[n].star /\ Last(u.imports[n].name) = id
            /\ contexts[unit][id] = u.imports[n].name
      BY <2>1
    <3>2. Singles(u, id) = {u.imports[n].name}
      BY <1>2, <3>1 DEF Singles, Imports
    <3>3. QED
      BY <3>1, <3>2 DEF Imported
  <2>2. CASE /\ \A n \in DOMAIN u.imports : u.imports[n].star \/ Last(u.imports[n].name) # id
             /\ contexts[unit][id] = InPackage(u, id)
    <3>1. Singles(u, id) = {}
      BY <1>2, <2>2 DEF Singles, Imports
    <3>2. QED
      BY <2>2, <3>1 DEF Imported
  <2>3. QED
    BY <1>0, <1>2, <2>1, <2>2 DEF Later
<1>4. \A id \in Ids : new[id] = Meaning(u, id)
  BY <1>1, <1>3 DEF Meaning
<1>5. new \in [Ids -> Paths] /\ contexts' = [contexts EXCEPT ![unit] = new]
  BY <1>0, <1>1
<1> HIDE DEF new
<1>6. /\ contexts' \in [DOMAIN units -> [Ids -> Paths]] /\ contexts'[unit] = new
      /\ \A k \in DOMAIN units : k # unit => contexts'[k] = contexts[k]
  BY <1>1, <1>5
<1>7. LinkTypeOK'
  BY <1>0, <1>6 DEF LinkTypeOK, Stages
<1>8. /\ Table' /\ Untouched'
      /\ (\A k \in DOMAIN units : k < unit => \A id \in Ids : contexts[k][id] = Meaning(units[k], id))'
      /\ (\A k \in 1..(unit - 1) : Finished(k))'
  BY <1>0, <1>6, FrameInv
<1>9. ContextsFollowShadowing'
  <2>1. \A k \in DOMAIN units : k <= unit => k < unit \/ k = unit
    BY <1>1
  <2>2. \A id \in Ids : contexts'[unit][id] = Meaning(units[unit], id)'
    BY <1>0, <1>4, <1>6, SameProgram
  <2>3. QED
    BY <1>0, <1>8, <2>1, <2>2 DEF ContextsFollowShadowing, ContextDone
<1>10. Checked'
  <2>1. \A n \in DOMAIN u.imports : ImportRight(u, u.imports[n])
    BY <1>0, <1>2 DEF Checked
  <2>2. links[unit] = << >> /\ Len(links[unit]) = 0
    BY <1>0, <1>1 DEF Untouched
  <2>3. Len(u.uses) \in Nat /\ \A n \in DOMAIN u.uses : ~(n <= 0)
    BY <1>1 DEF IsUnit
  <2>4. UsesRight(unit)'
    BY <1>0, <2>2, <2>3 DEF UsesRight
  <2>5. QED
    BY <1>0, <1>8, <2>1, <2>2, <2>3, <2>4, SameProgram DEF Checked
<1>11. QED
  BY <1>0, <1>7, <1>8, <1>9, <1>10 DEF LinkInv, Pending, Imports1, OnDemand, Later

\* A type name is resolved by the meaning of its first identifier.
LEMMA ResolveTypeInv ==
  ASSUME LinkInv, ResolveType
  PROVE  LinkInv'
<1> DEFINE u == units[unit]
           n == Len(links[unit]) + 1
           name == u.uses[n]
           entry == contexts[unit][Head(name)]
<1>0. /\ linkStage = "types" /\ Len(links[unit]) < Len(u.uses)
      /\ UNCHANGED <<units, unit, import, pending, packages, types, contexts>>
      /\ LinkTypeOK /\ Checked /\ Pending /\ ContextsFollowShadowing /\ Table /\ Untouched
      /\ import \in Nat
  BY DEF LinkInv, LinkTypeOK, ResolveType
<1>1. /\ IsUnit(u) /\ unit \in DOMAIN units /\ unit \in Nat /\ DOMAIN units = 1..Len(units)
      /\ types = AllTypes /\ types \subseteq Paths
      /\ links \in [DOMAIN units -> Seq(Paths)] /\ links[unit] \in Seq(Paths)
      /\ contexts \in [DOMAIN units -> [Ids -> Paths]]
  BY <1>0, UnitAtWork, AfterTable DEF LinkTypeOK
<1>2. /\ n \in Nat /\ n \in DOMAIN u.uses /\ Len(u.uses) \in Nat /\ DOMAIN u.uses = 1..Len(u.uses)
      /\ name \in Names1
  <2>1. u.uses \in Seq(Names1) /\ Len(u.uses) \in Nat /\ DOMAIN u.uses = 1..Len(u.uses)
    BY <1>1 DEF IsUnit
  <2>2. Len(links[unit]) \in Nat
    BY <1>1
  <2>3. n \in Nat /\ n \in 1..Len(u.uses)
    BY <1>0, <2>1, <2>2
  <2>4. QED
    BY <2>1, <2>3, ElementOfSeq, Zenon
<1>3. Head(name) \in Ids
  <2> HIDE DEF name
  <2>1. name \in Seq(Ids) /\ name # << >>
    BY <1>2 DEF Names1
  <2>2. QED
    BY <2>1
<1>4. entry = Meaning(u, Head(name))
  BY <1>0, <1>1, <1>3 DEF ContextsFollowShadowing, ContextDone
<1>5. Resolves(entry, name) <=> NamesType(u, name)
  BY <1>1, <1>4 DEF Resolves, NamesType, Target
<1>6. CASE Refuse(~Resolves(entry, name)) /\ UNCHANGED links
  <2>1. ~Links
    BY <1>1, <1>2, <1>5, <1>6 DEF Refuse, Links, WellFormed
  <2>2. QED
    BY <1>0, <1>6, <2>1, RefusedInv DEF Refuse
<1>7. CASE /\ Resolves(entry, name)
           /\ links' = [links EXCEPT ![unit] = Append(@, Target(entry, name))]
           /\ UNCHANGED linkStage
  <2> DEFINE target == Target(entry, name)
             new == Append(links[unit], target)
  <2>1. target \in Paths
    BY <1>1, <1>7 DEF Resolves
  <2>2. target = Meaning(u, Head(name)) \o Tail(name)
    BY <1>4 DEF Target
  <2> HIDE DEF target
  <2>3. /\ new \in Seq(Paths) /\ Len(new) = n
        /\ \A m \in DOMAIN u.uses : m <= n => m <= Len(links[unit]) \/ m = n
        /\ \A m \in 1..Len(links[unit]) : new[m] = links[unit][m]
        /\ new[n] = target
    BY <1>1, <1>2, <2>1
  <2> HIDE DEF new, n
  <2>4. /\ links' \in [DOMAIN units -> Seq(Paths)] /\ links'[unit] = new
        /\ \A k \in DOMAIN units : k # unit => links'[k] = links[k]
    BY <1>1, <1>7, <2>3 DEF new, target, n
  <2>5. LinkTypeOK'
    BY <1>0, <1>7, <2>4 DEF LinkTypeOK
  <2>6. UsesRight(unit)'
    <3>1. \A m \in DOMAIN u.uses : m <= n =>
            /\ NamesType(u, u.uses[m])
            /\ new[m] = Meaning(u, Head(u.uses[m])) \o Tail(u.uses[m])
      <4> TAKE m \in DOMAIN u.uses
      <4>1. CASE m = n
        BY <1>5, <1>7, <2>2, <2>3, <4>1
      <4>2. CASE m <= Len(links[unit])
        <5>1. m \in 1..Len(links[unit])
          BY <1>1, <1>2, <4>2
        <5>2. QED
          BY <1>0, <2>3, <4>2, <5>1 DEF Checked, UsesRight
      <4>3. QED
        BY <2>3, <4>1, <4>2
    <3>2. \A m : /\ NamesType(u, u.uses[m])' <=> NamesType(u, u.uses[m])
                 /\ Meaning(u, Head(u.uses[m]))' = Meaning(u, Head(u.uses[m]))
      BY <1>0, SameProgram
    <3>3. QED
      BY <1>0, <2>3, <2>4, <3>1, <3>2 DEF UsesRight
  <2>7. (\A k \in 1..(unit - 1) : Finished(k))'
    <3>1. \A k \in 1..(unit - 1) : Finished(k) /\ links'[k] = links[k]
      BY <1>0, <1>1, <2>4, UnitAtWork DEF Checked
    <3>2. \A k \in 1..(unit - 1) : UsesRight(k)'
      <4> TAKE k \in 1..(unit - 1)
      <4>1. \A m : /\ NamesType(units[k], units[k].uses[m])' <=> NamesType(units[k], units[k].uses[m])
                   /\ Meaning(units[k], Head(units[k].uses[m]))' = Meaning(units[k], Head(units[k].uses[m]))
        BY <1>0, SameProgram
      <4>2. UsesRight(k) /\ links'[k] = links[k] /\ units' = units
        BY <1>0, <3>1 DEF Finished
      <4>3. QED
        BY <4>1, <4>2 DEF UsesRight
    <3>3. QED
      BY <1>0, <3>1, <3>2, SameProgram DEF Finished
  <2>8. Checked'
    <3>1. Len(new) <= Len(u.uses)
      BY <1>2, <2>3
    <3>2. \A m \in DOMAIN u.imports : ImportRight(u, u.imports[m])
      BY <1>0 DEF Checked
    <3>3. QED
      BY <1>0, <1>7, <2>4, <2>6, <2>7, <3>1, <3>2, SameProgram DEF Checked
  <2>9. Table'
    BY <1>0, <1>7, SameProgram DEF Table, NoClash
  <2>10. Untouched'
    <3>1. \A k \in DOMAIN units : k > unit => links'[k] = links[k]
      BY <1>1, <2>4
    <3>2. QED
      BY <1>0, <1>7, <3>1 DEF Untouched
  <2>11. ContextsFollowShadowing'
    BY <1>0, <1>7, SameProgram DEF ContextsFollowShadowing, ContextDone
  <2>12. QED
    BY <1>0, <1>7, <2>5, <2>8, <2>9, <2>10, <2>11 DEF LinkInv, Pending, Imports1, OnDemand, Later
<1>8. QED
  BY <1>6, <1>7 DEF ResolveType

-----------------------------------------------------------------------------
(* From unit to unit, and the end.                                          *)

LEMMA FinishedStays ==
  ASSUME UNCHANGED <<units, links>>
  PROVE  \A k : (UsesRight(k)' <=> UsesRight(k)) /\ (Finished(k)' <=> Finished(k))
<1>1. \A k : UsesRight(k)' <=> UsesRight(k)
  <2>1. /\ \A u, x : NamesType(u, x)' <=> NamesType(u, x)
        /\ \A u, id : Meaning(u, id)' = Meaning(u, id)
    BY SameProgram
  <2>2. TAKE k
  <2>3. /\ \A n : NamesType(units[k], units[k].uses[n])' <=> NamesType(units[k], units[k].uses[n])
        /\ \A n : Meaning(units[k], Head(units[k].uses[n]))' = Meaning(units[k], Head(units[k].uses[n]))
    BY <2>1
  <2>4. QED
    BY <2>3 DEF UsesRight
<1>2. QED
  BY <1>1, SameProgram DEF Finished

LEMMA NextUnitInv ==
  ASSUME LinkInv, NextUnit
  PROVE  LinkInv'
<1>0. /\ linkStage = "types" /\ Len(links[unit]) = Len(units[unit].uses) /\ import' = 1
      /\ UNCHANGED <<units, pending, packages, types, contexts, links>>
      /\ LinkTypeOK /\ Table /\ Pending /\ Untouched /\ ContextsFollowShadowing /\ Checked
      /\ pending = {}
  BY DEF LinkInv, NextUnit, Pending
<1>1. /\ unit \in Nat /\ unit >= 1 /\ unit <= Len(units) /\ Len(units) \in Nat
      /\ DOMAIN units = 1..Len(units)
      /\ \A k \in 1..Len(units) : IsUnit(units[k])
  BY <1>0, UnitAtWork
<1>2. \A k \in 1..unit : Finished(k)
  <2>1. Finished(unit)
    BY <1>0 DEF Checked, Finished
  <2>2. \A k \in 1..unit : k = unit \/ k \in 1..(unit - 1)
    BY <1>1
  <2>3. QED
    BY <1>0, <2>1, <2>2 DEF Checked
<1>3. \A k \in DOMAIN units : k <= unit => \A id \in Ids : contexts'[k][id] = Meaning(units[k], id)'
  <2>1. \A k \in DOMAIN units : k <= unit => \A id \in Ids : contexts[k][id] = Meaning(units[k], id)
    BY <1>0 DEF ContextsFollowShadowing, ContextDone
  <2>2. \A u, id : Meaning(u, id)' = Meaning(u, id)
    BY <1>0, SameProgram
  <2>3. QED
    BY <1>0, <2>1, <2>2
<1>4. CASE unit < Len(units) /\ unit' = unit + 1 /\ linkStage' = "demand"
  <2>1. unit' \in DOMAIN units /\ unit' - 1 = unit /\ unit' > unit
    BY <1>1, <1>4
  <2>2. LinkTypeOK'
    BY <1>0, <1>4, <2>1 DEF LinkTypeOK, Stages
  <2>3. Table'
    BY <1>0, <1>4, SameProgram DEF Table, NoClash
  <2>4. Untouched'
    <3>1. \A k \in DOMAIN units : k >= unit' => k > unit
      BY <1>1, <2>1
    <3>2. \A k \in DOMAIN units : k > unit' \/ k = unit' => k > unit
      BY <1>1, <2>1
    <3>3. QED
      BY <1>0, <1>4, <3>2 DEF Untouched
  <2>5. OnDemand'
    <3>1. \A id \in Ids : contexts'[unit'][id] = Absent
      BY <1>0, <2>1 DEF Untouched
    <3>2. \A id : Covered(units[unit'], 1, id) = {}
      BY <1>1, <2>1 DEF Covered, IsUnit
    <3>3. \A id : Covered(units[unit], import, id)' = {}
      <4>1. \A u, m, id : Covered(u, m, id)' = Covered(u, m, id)
        BY <1>0, SameProgram
      <4>2. QED
        BY <1>0, <3>2, <4>1
    <3>4. Absent # Ambiguous
      BY DEF Absent, Ambiguous
    <3>5. QED
      BY <3>1, <3>3, <3>4 DEF OnDemand
  <2>6. ContextsFollowShadowing'
    <3>1. \A k \in DOMAIN units : ContextDone(k)' => k <= unit
      BY <1>1, <1>4 DEF ContextDone
    <3>2. QED
      BY <1>0, <1>3, <3>1 DEF ContextsFollowShadowing
  <2>7. Checked'
    <3>1. \A n \in DOMAIN units[unit'].imports : ~(n < 1)
      BY <1>1, <2>1 DEF IsUnit
    <3>2. (\A k \in 1..(unit - 1) : Finished(k))'
      BY <1>0, <1>2, <2>1, FinishedStays
    <3>3. QED
      BY <1>0, <1>4, <3>1, <3>2 DEF Checked
  <2>8. QED
    BY <1>0, <1>4, <2>2, <2>3, <2>4, <2>5, <2>6, <2>7 DEF LinkInv, Pending, Imports1, Later
<1>5. CASE unit = Len(units) /\ unit' = unit /\ linkStage' = "resolved"
  <2>1. LinkTypeOK'
    BY <1>0, <1>5 DEF LinkTypeOK, Stages
  <2>2. Table'
    BY <1>0, <1>5, SameProgram DEF Table, NoClash
  <2>3. Untouched'
    BY <1>0, <1>5 DEF Untouched
  <2>4. ContextsFollowShadowing'
    BY <1>0, <1>1, <1>3, <1>5 DEF ContextsFollowShadowing
  <2>5. Checked'
    BY <1>0, <1>1, <1>2, <1>5, FinishedStays DEF Checked
  <2>6. QED
    BY <1>0, <1>5, <2>1, <2>2, <2>3, <2>4, <2>5 DEF LinkInv, Pending, Imports1, OnDemand, Later
<1>6. unit < Len(units) \/ unit = Len(units)
  <2>1. unit \in Nat /\ Len(units) \in Nat /\ unit <= Len(units)
    BY <1>1, Zenon
  <2>2. \A m, n \in Nat : m <= n => m < n \/ m = n
    OBVIOUS
  <2>3. QED
    BY <2>1, <2>2, Zenon
<1>7. QED
  BY <1>4, <1>5, <1>6 DEF NextUnit

\* The required types are among the types of the program, or they are not.
LEMMA PopulateJavaLangInv ==
  ASSUME LinkInv, PopulateJavaLang
  PROVE  LinkInv'
<1>0. /\ linkStage = "resolved" /\ linkStage' = IF Required \subseteq types THEN "linked" ELSE "refused"
      /\ UNCHANGED <<units, unit, import, pending, packages, types, contexts, links>>
      /\ LinkTypeOK /\ Table /\ Pending /\ Untouched /\ ContextsFollowShadowing /\ Checked
      /\ import \in Nat
  BY DEF LinkInv, LinkTypeOK, PopulateJavaLang
<1>1. types = AllTypes
  BY <1>0 DEF Table
<1>2. CASE Required \subseteq AllTypes
  <2>1. linkStage' = "linked"
    BY <1>0, <1>1, <1>2
  <2>2. LinkTypeOK'
    BY <1>0, <2>1 DEF LinkTypeOK, Stages
  <2>3. Table'
    BY <1>0, <2>1, SameProgram DEF Table, NoClash
  <2>4. Untouched'
    BY <1>0, <2>1 DEF Untouched
  <2>5. ContextsFollowShadowing'
    BY <1>0, <2>1, SameProgram DEF ContextsFollowShadowing, ContextDone
  <2>6. Checked'
    <3>1. (Required \subseteq AllTypes)'
      BY <1>0, <1>2, SameProgram
    <3>2. \A k \in DOMAIN units : Finished(k)'
      BY <1>0, FinishedStays DEF Checked
    <3>3. QED
      BY <1>0, <2>1, <3>1, <3>2 DEF Checked
  <2>7. QED
    BY <1>0, <2>1, <2>2, <2>3, <2>4, <2>5, <2>6 DEF LinkInv, Pending, Imports1, OnDemand, Later
<1>3. CASE ~(Required \subseteq AllTypes)
  <2>1. linkStage' = "refused" /\ ~Links
    BY <1>0, <1>1, <1>3 DEF Links
  <2>2. QED
    BY <1>0, <2>1, RefusedInv
<1>4. QED
  BY <1>2, <1>3

LEMMA LinkStutterInv ==
  ASSUME LinkInv, UNCHANGED linkVars
  PROVE  LinkInv'
<1>0. UNCHANGED <<units, linkStage, unit, import, pending, packages, types, contexts, links>>
  BY DEF linkVars
<1>1. LinkTypeOK'
  BY <1>0 DEF LinkInv, LinkTypeOK
<1>2. Table' /\ Untouched' /\ Imports1'
  BY <1>0, SameProgram DEF LinkInv, Table, NoClash, Untouched, Imports1
<1>3. Pending' /\ OnDemand'
  BY <1>0, SameProgram DEF LinkInv, Pending, OnDemand
<1>4. Later'
  BY <1>0, SameProgram DEF LinkInv, Later
<1>5. ContextsFollowShadowing'
  BY <1>0, SameProgram DEF LinkInv, ContextsFollowShadowing, ContextDone
<1>6. \A k : (UsesRight(k)' <=> UsesRight(k)) /\ (Finished(k)' <=> Finished(k))
  BY <1>0, FinishedStays
<1>7. Checked'
  BY <1>0, <1>6, SameProgram DEF LinkInv, Checked
<1>8. QED
  BY <1>0, <1>1, <1>2, <1>3, <1>4, <1>5, <1>7, SameProgram DEF LinkInv

LEMMA LinkStepInv == LinkInv /\ [LinkNext]_linkVars => LinkInv'
<1> SUFFICES ASSUME LinkInv, [LinkNext]_linkVars PROVE LinkInv'
  OBVIOUS
<1>1. CASE AddToTable
  BY <1>1, AddToTableInv
<1>2. CASE StartOnDemandImport
  BY <1>2, StartOnDemandImportInv
<1>3. CASE AddOnDemand
  BY <1>3, AddOnDemandInv
<1>4. CASE AddPackages
  BY <1>4, AddPackagesInv
<1>5. CASE AddOwnPackage
  BY <1>5, AddOwnPackageInv
<1>6. CASE AddSingleTypeImport
  BY <1>6, AddSingleTypeImportInv
<1>7. CASE AddOwnType
  BY <1>7, AddOwnTypeInv
<1>8. CASE ResolveType
  BY <1>8, ResolveTypeInv
<1>9. CASE NextUnit
  BY <1>9, NextUnitInv
<1>10. CASE PopulateJavaLang
  BY <1>10, PopulateJavaLangInv
<1>11. CASE UNCHANGED linkVars
  BY <1>11, LinkStutterInv
<1>12. QED
  BY <1>1, <1>2, <1>3, <1>4, <1>5, <1>6, <1>7, <1>8, <1>9, <1>10, <1>11 DEF LinkNext

\* What is linked has passed every check, so that the language accepts it.
LEMMA LinkedIsRight ==
  ASSUME LinkInv
  PROVE  LinkVerdict
<1>1. /\ IsProgram(units) /\ DOMAIN units = 1..Len(units)
      /\ \A k \in DOMAIN units : IsUnit(units[k])
  BY UnitAtWork DEF LinkInv
<1>2. ASSUME linkStage = "linked"
      PROVE  /\ Links
             /\ \A k \in DOMAIN units : \A n \in DOMAIN units[k].uses :
                  links[k][n] = Meaning(units[k], Head(units[k].uses[n])) \o Tail(units[k].uses[n])
  <2>1. (\A k \in DOMAIN units : Finished(k)) /\ Required \subseteq AllTypes
    BY <1>2 DEF LinkInv, Checked
  <2>2. \A k \in DOMAIN units : \A n \in DOMAIN units[k].uses :
          /\ NamesType(units[k], units[k].uses[n])
          /\ links[k][n] = Meaning(units[k], Head(units[k].uses[n])) \o Tail(units[k].uses[n])
    <3> TAKE k \in DOMAIN units
    <3>1. Len(units[k].uses) \in Nat /\ DOMAIN units[k].uses = 1..Len(units[k].uses)
      BY <1>1 DEF IsUnit
    <3>2. \A n \in DOMAIN units[k].uses : n <= Len(links[k])
      BY <2>1, <3>1 DEF Finished
    <3>3. QED
      BY <2>1, <3>2 DEF Finished, UsesRight
  <2>3. NoClash(Len(units))
    BY <1>2 DEF LinkInv, Table
  <2>4. \A k \in DOMAIN units : TypeName(units[k]) \notin AllPackages
    BY <1>1, <2>3, TypeNameFacts DEF NoClash, AllPackages
  <2>5. \A k \in DOMAIN units : WellFormed(units[k])
    BY <2>1, <2>2, <2>4 DEF WellFormed, Finished
  <2>6. QED
    BY <1>1, <2>1, <2>2, <2>3, <2>5 DEF Links, NoClash
<1>3. QED
  BY <1>2 DEF LinkVerdict, LinkInv

\* The invariant of the linker.
THEOREM LinkerInvariant == LinkSpec => []LinkInv
<1>1. QED
  BY LinkInitInv, LinkStepInv, PTL DEF LinkSpec

\* The context of a file says what the rules of shadowing say, in whatever order
\* the entries of a package are met (TypeLinker::initContext).
THEOREM ContextsAreShadowing == LinkSpec => []ContextsFollowShadowing
<1>1. LinkInv => ContextsFollowShadowing
  BY DEF LinkInv
<1>2. QED
  BY <1>1, LinkerInvariant, PTL

\* The linker accepts the programs that the language does and links every type
\* name to the type it names, in whatever order the files come (TypeLinker).
THEOREM VerdictIsTheLanguages == LinkSpec => []LinkVerdict
<1>1. QED
  BY LinkedIsRight, LinkerInvariant, PTL

\* The variables of the linker keep their types.
THEOREM LinkerTyped == LinkSpec => []LinkTypeOK
<1>1. LinkInv => LinkTypeOK
  BY DEF LinkInv
<1>2. QED
  BY <1>1, LinkerInvariant, PTL
-----------------------------------------------------------------------------
(***************************************************************************)
(* Progress of the linker.                                                 *)
(***************************************************************************)

\* From the table to the units, from there to the compiler's classes, and to an
\* end; a unit's own stages come one after the other.
StageEnds ==
  \/ linkStage = "table" /\ linkStage' \in {"demand", "refused"}
  \/ linkStage \in {"demand", "package", "single", "types"} /\ linkStage' \in {"resolved", "refused"}
  \/ linkStage = "resolved" /\ linkStage' \in {"linked", "refused"}

UnitStageEnds ==
  \/ linkStage = "demand" /\ linkStage' = "package"
  \/ linkStage = "package" /\ linkStage' = "single"
  \/ linkStage = "single" /\ linkStage' = "types"

\* The variant, the weightiest first.
LinkerAdvances ==
  \/ StageEnds
  \/ /\ linkStage = "table" => linkStage' = "table"
     /\ linkStage' \in {"table", "demand"}
     /\ unit' = unit + 1 /\ unit' <= Len(units)
  \/ unit' = unit /\ UnitStageEnds
  \/ /\ UNCHANGED <<unit, linkStage>>
     /\ import' = import + 1 /\ import' <= Len(units[unit].imports) + 1
  \/ /\ UNCHANGED <<unit, linkStage, import>>
     /\ IsFiniteSet(pending) /\ pending' \subseteq pending /\ pending' # pending
  \/ /\ UNCHANGED <<unit, linkStage, import, pending>>
     /\ Len(links[unit]') = Len(links[unit]) + 1
     /\ Len(links[unit]') <= Len(units[unit].uses)

\* The table of a finite program is finite.
LEMMA TableIsFinite == LinkSpec => []IsFiniteSet(types)
<1>1. LinkInit => IsFiniteSet(types)
  BY FS_EmptySet DEF LinkInit
<1>2. IsFiniteSet(types) /\ [LinkNext]_linkVars => IsFiniteSet(types)'
  <2> SUFFICES ASSUME IsFiniteSet(types), [LinkNext]_linkVars
               PROVE  IsFiniteSet(types)'
    OBVIOUS
  <2>1. types' = types \/ types' = types \cup {TypeName(units[unit])}
    BY DEF LinkNext, linkVars, AddToTable, StartOnDemandImport, AddOnDemand, AddPackages,
           AddOwnPackage, AddSingleTypeImport, AddOwnType, ResolveType, NextUnit, PopulateJavaLang
  <2>2. IsFiniteSet(types \cup {TypeName(units[unit])})
    BY FS_AddElement
  <2>3. QED
    BY <2>1, <2>2
<1>3. QED
  BY <1>1, <1>2, PTL DEF LinkSpec

LEMMA LinkStepAdvances ==
  ASSUME LinkInv, IsFiniteSet(types), LinkNext
  PROVE  LinkerAdvances
<1>0. /\ LinkTypeOK /\ Len(units) \in Nat /\ unit \in Nat /\ unit <= Len(units)
      /\ unit \in DOMAIN units /\ IsUnit(units[unit]) /\ import \in Nat
  BY UnitAtWork DEF LinkInv, LinkTypeOK
<1>1. Len(units[unit].imports) \in Nat /\ Len(units[unit].uses) \in Nat
  BY <1>0 DEF IsUnit
<1>2. CASE AddToTable
  <2>1. \/ linkStage' = "refused"
        \/ linkStage' = "demand"
        \/ linkStage' = linkStage /\ unit < Len(units) /\ unit' = unit + 1
    BY <1>2 DEF AddToTable, Refuse
  <2>2. linkStage = "table"
    BY <1>2 DEF AddToTable
  <2>3. QED
    BY <1>0, <2>1, <2>2 DEF LinkerAdvances, StageEnds
<1>3. CASE StartOnDemandImport
  <2>1. /\ linkStage = "demand" /\ linkStage' \in {"demand", "refused"}
        /\ unit' = unit /\ import' = import + 1 /\ import <= Len(units[unit].imports)
    BY <1>3 DEF StartOnDemandImport, Refuse
  <2>2. import' <= Len(units[unit].imports) + 1
    BY <1>0, <1>1, <2>1
  <2>3. QED
    BY <2>1, <2>2 DEF LinkerAdvances, StageEnds
<1>4. CASE AddOnDemand
  <2>1. PICK t \in pending : pending' = pending \ {t}
    BY <1>4 DEF AddOnDemand
  <2>2. IsFiniteSet(pending)
    BY <1>0, FS_Subset DEF LinkTypeOK
  <2>3. UNCHANGED <<unit, linkStage, import>>
    BY <1>4 DEF AddOnDemand
  <2>4. QED
    BY <2>1, <2>2, <2>3 DEF LinkerAdvances
<1>5. CASE AddPackages \/ AddOwnPackage \/ AddOwnType
  BY <1>5 DEF AddPackages, AddOwnPackage, AddOwnType, LinkerAdvances, UnitStageEnds
<1>6. CASE AddSingleTypeImport
  <2>1. /\ linkStage = "single" /\ linkStage' \in {"single", "refused"}
        /\ unit' = unit /\ import' = import + 1 /\ import <= Len(units[unit].imports)
    BY <1>6 DEF AddSingleTypeImport, Refuse
  <2>2. import' <= Len(units[unit].imports) + 1
    BY <1>0, <1>1, <2>1
  <2>3. QED
    BY <2>1, <2>2 DEF LinkerAdvances, StageEnds
<1>7. CASE ResolveType
  <2> DEFINE name == units[unit].uses[Len(links[unit]) + 1]
             entry == contexts[unit][Head(name)]
  <2>1. linkStage = "types" /\ UNCHANGED <<unit, import, pending>>
        /\ Len(links[unit]) < Len(units[unit].uses)
    BY <1>7 DEF ResolveType
  <2>2. \/ linkStage' = "refused"
        \/ /\ links' = [links EXCEPT ![unit] = Append(@, Target(entry, name))]
           /\ linkStage' = linkStage
    BY <1>7 DEF ResolveType, Refuse
  <2> HIDE DEF name, entry
  <2>3. CASE linkStage' = "refused"
    BY <2>1, <2>3 DEF LinkerAdvances, StageEnds
  <2>4. CASE /\ links' = [links EXCEPT ![unit] = Append(@, Target(entry, name))]
             /\ linkStage' = linkStage
    <3>1. links \in [DOMAIN units -> Seq(Paths)]
      BY <1>0 DEF LinkTypeOK
    <3>2. links'[unit] = Append(links[unit], Target(entry, name)) /\ links[unit] \in Seq(Paths)
      BY <1>0, <2>4, <3>1
    <3>3. Len(links'[unit]) = Len(links[unit]) + 1 /\ Len(links[unit]) \in Nat
      BY <3>2
    <3>4. Len(links[unit]') = Len(links[unit]) + 1
      BY <2>1, <3>3
    <3>5. Len(links[unit]') <= Len(units[unit].uses)
      BY <1>1, <2>1, <3>3, <3>4
    <3>6. QED
      BY <2>1, <2>4, <3>4, <3>5 DEF LinkerAdvances
  <2>5. QED
    BY <2>2, <2>3, <2>4
<1>8. CASE NextUnit
  <2>1. /\ linkStage = "types"
        /\ \/ unit < Len(units) /\ unit' = unit + 1 /\ linkStage' = "demand"
           \/ linkStage' = "resolved"
    BY <1>8 DEF NextUnit
  <2>2. QED
    BY <1>0, <2>1 DEF LinkerAdvances, StageEnds
<1>9. CASE PopulateJavaLang
  BY <1>9 DEF PopulateJavaLang, LinkerAdvances, StageEnds
<1>10. QED
  BY <1>2, <1>3, <1>4, <1>5, <1>6, <1>7, <1>8, <1>9 DEF LinkNext

\* Every step of the linker ends one of its stages, goes on to the next file or
\* the next import, visits one of the finitely many entries of a package, or links
\* the next type name: it comes to a verdict for every program.
THEOREM LinkerReachesVerdict == LinkSpec => [][LinkerAdvances]_linkVars
<1>1. LinkInv /\ IsFiniteSet(types) /\ [LinkNext]_linkVars => [LinkerAdvances]_linkVars
  BY LinkStepAdvances
<1>2. QED
  BY <1>1, LinkerInvariant, TableIsFinite, PTL DEF LinkSpec

-----------------------------------------------------------------------------
(***************************************************************************)
(* The scopes of local variables.                                          *)
(***************************************************************************)
Within(scope) == \A j \in 1..Len(scope) : scope[j] <= Last(currentScope)

SamePrefix(scope, other) ==
  /\ Len(other) <= Len(scope)
  /\ \A j \in 1..(Len(other) - 1) : scope[j] = other[j]

\* The parts of the inductive invariant.  A block that is open is a position of
\* the current scope, and no position handed out so far is above the current.
Depth == stage # "outside" => Len(currentScope) = Len(sizes) + 1

Positions ==
  stage # "outside" =>
    /\ Within(currentScope)
    /\ \A i \in DOMAIN localDecls : Within(localDecls[i].scope)
    /\ \A k \in DOMAIN exprs : Within(exprs[k].scope)

Growing ==
  \A i \in DOMAIN localDecls : LET d == localDecls[i].scope IN
    \A j \in 1..(Len(d) - 1) : d[j] < Last(d)

\* What was declared in a block that is open was declared before its open block.
Earlier ==
  \A i \in DOMAIN localDecls :
    SamePrefix(currentScope, localDecls[i].scope)
      => CanView(currentScope, localDecls[i].scope)

\* The current scope views what is in force.
Viewed ==
  \A i \in DOMAIN localDecls :
    CanView(currentScope, localDecls[i].scope) <=> localDecls[i] \in InForce

Declared ==
  /\ \A i \in DOMAIN localDeclStack : \E k \in DOMAIN localDecls :
       localDeclStack[i] = localDecls[k]
  /\ \A k \in DOMAIN exprs : \A d \in exprs[k].inForce :
       \E i \in DOMAIN localDecls : d = localDecls[i]

\* The sizes remembered cut the stack where the blocks begin.
Cuts ==
  \A j \in DOMAIN sizes :
    /\ sizes[j] <= Len(localDeclStack)
    /\ \A i \in DOMAIN localDeclStack :
         i > sizes[j] <=> Len(localDeclStack[i].scope) > j

Distinct ==
  \A i, j \in DOMAIN localDeclStack :
    localDeclStack[i].name = localDeclStack[j].name => i = j

ScopesInv ==
  /\ ScopesTypeOK /\ Depth /\ Positions /\ Growing /\ Earlier /\ Viewed
  /\ Declared /\ Cuts /\ Distinct /\ LookupsAgree /\ NamesAreUnique

\* A scope made next.
LEMMA NextInFacts ==
  ASSUME NEW parent \in Seq(Nat), currentScope \in Seq(Nat), Len(currentScope) > 0
  PROVE  /\ NextIn(parent) \in Scopes
         /\ Len(NextIn(parent)) = Len(parent) + 1
         /\ \A j \in 1..Len(parent) : NextIn(parent)[j] = parent[j]
         /\ NextIn(parent)[Len(parent) + 1] = Last(currentScope) + 1
         /\ Last(NextIn(parent)) = Last(currentScope) + 1
BY DEF NextIn, Last, Scopes

LEMMA FrontFacts ==
  ASSUME NEW s \in Seq(Nat), Len(s) > 0
  PROVE  /\ Front(s) \in Seq(Nat)
         /\ Len(Front(s)) = Len(s) - 1
         /\ \A j \in 1..(Len(s) - 1) : Front(s)[j] = s[j]
<1>1. PICK n \in Nat : n = Len(s) - 1
  OBVIOUS
<1>2. \A i \in 1..n : s[i] \in Nat
  BY <1>1
<1>3. /\ SubSeq(s, 1, n) \in Seq(Nat)
      /\ Len(SubSeq(s, 1, n)) = IF 1 <= n THEN n - 1 + 1 ELSE 0
      /\ \A i \in 1..(n - 1 + 1) : SubSeq(s, 1, n)[i] = s[1 + i - 1]
  BY <1>2, SubSeqProperties
<1>4. Len(SubSeq(s, 1, n)) = n /\ \A i \in 1..n : SubSeq(s, 1, n)[i] = s[i]
  BY <1>3
<1>5. Front(s) = SubSeq(s, 1, n)
  BY <1>1 DEF Front
<1>6. QED
  BY <1>1, <1>3, <1>4, <1>5

\* The three ways in which the current scope moves, element by element.
LEMMA Moves ==
  ASSUME currentScope \in Seq(Nat), Len(currentScope) > 0
  PROVE  LET c == currentScope
             same == NextIn(Front(c))
             inner == NextIn(c)
             outer == ScopeAfterBlock
         IN /\ /\ same \in Scopes /\ Len(same) = Len(c)
               /\ \A j \in 1..(Len(c) - 1) : same[j] = c[j]
               /\ same[Len(c)] = Last(c) + 1
               /\ Last(same) = Last(c) + 1
            /\ /\ inner \in Scopes /\ Len(inner) = Len(c) + 1
               /\ \A j \in 1..Len(c) : inner[j] = c[j]
               /\ inner[Len(c) + 1] = Last(c) + 1
               /\ Last(inner) = Last(c) + 1
            /\ Len(c) > 1 =>
               /\ outer \in Scopes /\ Len(outer) = Len(c) - 1
               /\ \A j \in 1..(Len(c) - 2) : outer[j] = c[j]
               /\ outer[Len(c) - 1] = Last(c) + 1
               /\ Last(outer) = Last(c) + 1
<1> DEFINE c == currentScope
           p == Front(c)
           q == Front(p)
<1>1. p \in Seq(Nat) /\ Len(p) = Len(c) - 1 /\ \A j \in 1..(Len(c) - 1) : p[j] = c[j]
  BY FrontFacts
<1>2. ASSUME Len(c) > 1
      PROVE  q \in Seq(Nat) /\ Len(q) = Len(c) - 2 /\ \A j \in 1..(Len(c) - 2) : q[j] = c[j]
  <2> HIDE DEF p
  <2>1. Len(p) > 0
    BY <1>1, <1>2
  <2>2. q \in Seq(Nat) /\ Len(q) = Len(p) - 1 /\ \A j \in 1..(Len(p) - 1) : q[j] = p[j]
    BY <1>1, <2>1, FrontFacts
  <2>3. QED
    BY <1>1, <2>2
<1>3. /\ NextIn(p) \in Scopes /\ Len(NextIn(p)) = Len(c)
      /\ \A j \in 1..(Len(c) - 1) : NextIn(p)[j] = c[j]
      /\ NextIn(p)[Len(c)] = Last(c) + 1
      /\ Last(NextIn(p)) = Last(c) + 1
  <2> HIDE DEF p
  <2>1. QED
    BY <1>1, NextInFacts
<1>4. ASSUME Len(c) > 1
      PROVE  /\ NextIn(q) \in Scopes /\ Len(NextIn(q)) = Len(c) - 1
             /\ \A j \in 1..(Len(c) - 2) : NextIn(q)[j] = c[j]
             /\ NextIn(q)[Len(c) - 1] = Last(c) + 1
             /\ Last(NextIn(q)) = Last(c) + 1
  <2> HIDE DEF q
  <2>1. q \in Seq(Nat) /\ Len(q) = Len(c) - 2 /\ \A j \in 1..(Len(c) - 2) : q[j] = c[j]
    BY <1>2, <1>4
  <2>2. QED
    BY <2>1, NextInFacts
<1>5. QED
  BY <1>3, <1>4, NextInFacts DEF ScopeAfterBlock

LEMMA ScopesInitInv == ScopesInit => ScopesInv
BY DEF ScopesInit, ScopesInv, ScopesTypeOK, Depth, Positions, Growing, Earlier, Viewed,
       Declared, Cuts, Distinct, LookupsAgree, NamesAreUnique, Scopes, LocalDeclarations

LEMMA DeclFacts ==
  ASSUME ScopesTypeOK
  PROVE  /\ \A i \in DOMAIN localDecls :
              /\ localDecls[i].scope \in Seq(Nat) /\ Len(localDecls[i].scope) > 0
              /\ Last(localDecls[i].scope) \in Nat
         /\ \A i \in DOMAIN localDeclStack :
              /\ localDeclStack[i].scope \in Seq(Nat) /\ Len(localDeclStack[i].scope) > 0
         /\ \A k \in DOMAIN exprs :
              /\ exprs[k].scope \in Seq(Nat) /\ Len(exprs[k].scope) > 0
<1>1. \A d \in LocalDeclarations : /\ d.scope \in Seq(Nat) /\ Len(d.scope) > 0
                                  /\ Last(d.scope) \in Nat
  BY DEF LocalDeclarations, Scopes, Last
<1>2. /\ localDecls \in Seq(LocalDeclarations) /\ localDeclStack \in Seq(LocalDeclarations)
      /\ exprs \in Seq(Expressions)
  BY DEF ScopesTypeOK
<1>3. /\ \A i \in DOMAIN localDecls : localDecls[i] \in LocalDeclarations
      /\ \A i \in DOMAIN localDeclStack : localDeclStack[i] \in LocalDeclarations
      /\ \A k \in DOMAIN exprs : exprs[k] \in Expressions
  BY <1>2
<1>4. QED
  <2>1. /\ \A i \in DOMAIN localDecls :
             /\ localDecls[i].scope \in Seq(Nat) /\ Len(localDecls[i].scope) > 0
             /\ Last(localDecls[i].scope) \in Nat
        /\ \A i \in DOMAIN localDeclStack :
             /\ localDeclStack[i].scope \in Seq(Nat) /\ Len(localDeclStack[i].scope) > 0
    BY <1>1, <1>3, Zenon
  <2>2. \A k \in DOMAIN exprs :
          /\ exprs[k].scope \in Seq(Nat) /\ Len(exprs[k].scope) > 0
    BY <1>3 DEF Scopes, Expressions
  <2>3. QED
    BY <2>1, <2>2, Zenon

\* What the scope after a step sees of a declaration is what the scope before it
\* saw, when the declaration is no later than the step and not of a deeper block.
LEMMA SameView ==
  ASSUME NEW c \in Seq(Nat), NEW next \in Seq(Nat), NEW d \in Seq(Nat),
         NEW n \in Nat, n <= Len(c), n <= Len(next), Len(d) > 0, Len(d) <= n,
         \A j \in 1..(n - 1) : next[j] = c[j]
  PROVE  /\ SamePrefix(next, d) <=> SamePrefix(c, d)
         /\ Len(d) < n => (CanView(next, d) <=> CanView(c, d))
         /\ Last(d) <= next[n] /\ Len(d) = n => (CanView(next, d) <=> SamePrefix(c, d))
         /\ Last(d) <= c[n] /\ Len(d) = n => (CanView(c, d) <=> SamePrefix(c, d))
<1>1. Len(d) <= Len(c) /\ Len(d) <= Len(next) /\ Len(d) \in Nat /\ Len(c) \in Nat /\ Len(next) \in Nat
  OBVIOUS
<1>2. \A j \in 1..(Len(d) - 1) : next[j] = c[j]
  BY <1>1
<1>3. SamePrefix(next, d) <=> SamePrefix(c, d)
  BY <1>1, <1>2 DEF SamePrefix
<1>4. \A s \in {c, next} : CanView(s, d) <=> SamePrefix(s, d) /\ s[Len(d)] >= Last(d)
  BY DEF CanView, SamePrefix
<1>5. ASSUME Len(d) < n PROVE next[Len(d)] = c[Len(d)]
  <2>1. Len(d) \in 1..(n - 1)
    BY <1>5
  <2>2. QED
    BY <2>1
<1>6. Last(d) \in Nat /\ c[n] \in Nat /\ next[n] \in Nat
  BY <1>1 DEF Last
<1>7. QED
  BY <1>3, <1>4, <1>5, <1>6

LEMMA SameAncestors ==
  ASSUME NEW c \in Seq(Nat), NEW next \in Seq(Nat), NEW d \in Seq(Nat),
         Len(d) > 0, Len(d) <= Len(c), Len(d) <= Len(next),
         \A j \in 1..Len(d) : next[j] = c[j]
  PROVE  /\ SamePrefix(next, d) <=> SamePrefix(c, d)
         /\ CanView(next, d) <=> CanView(c, d)
<1>1. Len(d) \in 1..Len(d) /\ 1..(Len(d) - 1) \subseteq 1..Len(d)
  OBVIOUS
<1>2. QED
  BY <1>1 DEF SamePrefix, CanView

\* A declaration that is refused moves the scope and nothing else; one that is
\* kept gets a position no scope so far has.
LEMMA BuildVarDeclInv ==
  ASSUME NEW name \in Names, NEW mentioned \in SUBSET Names,
         ScopesInv, BuildVarDecl(name, mentioned)
  PROVE  ScopesInv'
<1> DEFINE c == currentScope
           decl == [name |-> name, scope |-> currentScope']
           kept == ~(name \in mentioned \/ name \in localScope)
<1> USE DEF ScopesInv
<1>1. stage = "method" /\ c \in Seq(Nat) /\ Len(c) > 0 /\ Last(c) \in Nat
  BY DEF BuildVarDecl, ScopesTypeOK, Last
<1>2. /\ currentScope' \in Scopes /\ currentScope' \in Seq(Nat) /\ Len(currentScope') = Len(c)
      /\ \A j \in 1..(Len(c) - 1) : currentScope'[j] = c[j]
      /\ currentScope'[Len(c)] = Last(c) + 1
      /\ Last(currentScope') = Last(c) + 1
  BY <1>1, Moves DEF BuildVarDecl, Scopes
<1>3. /\ \A i \in DOMAIN localDecls :
           /\ localDecls[i].scope \in Seq(Nat) /\ Len(localDecls[i].scope) > 0
           /\ Last(localDecls[i].scope) \in Nat
      /\ \A i \in DOMAIN localDeclStack :
           /\ localDeclStack[i].scope \in Seq(Nat) /\ Len(localDeclStack[i].scope) > 0
      /\ \A k \in DOMAIN exprs :
           /\ exprs[k].scope \in Seq(Nat) /\ Len(exprs[k].scope) > 0
  BY DeclFacts
<1>4. /\ Within(c)
      /\ \A i \in DOMAIN localDecls : Within(localDecls[i].scope)
      /\ \A k \in DOMAIN exprs : Within(exprs[k].scope)
  BY <1>1 DEF Positions
<1>5. \A i \in DOMAIN localDecls : Last(localDecls[i].scope) <= Last(c)
  BY <1>3, <1>4 DEF Within, Last
\* The old declarations are seen from the new scope as from the old.
<1>6. \A i \in DOMAIN localDecls :
        /\ CanView(currentScope', localDecls[i].scope) <=> CanView(c, localDecls[i].scope)
        /\ SamePrefix(currentScope', localDecls[i].scope) <=> SamePrefix(c, localDecls[i].scope)
  <2> TAKE i \in DOMAIN localDecls
  <2> DEFINE d == localDecls[i].scope
  <2>1. d \in Seq(Nat) /\ Len(d) > 0 /\ Last(d) \in Nat /\ Last(d) <= Last(c)
    BY <1>3, <1>5
  <2>2. CASE Len(d) > Len(c)
    BY <1>1, <1>2, <2>1, <2>2 DEF CanView, SamePrefix
  <2>3. CASE Len(d) <= Len(c)
    <3>1. Last(d) <= c[Len(c)] /\ Last(d) <= currentScope'[Len(c)]
      BY <1>1, <1>2, <2>1 DEF Last
    <3>2. QED
      <4>1. \A j \in 1..(Len(c) - 1) : currentScope'[j] = c[j]
        BY <1>2
      <4>2. Len(c) \in Nat /\ Len(currentScope') = Len(c)
        BY <1>1, <1>2
      <4>3. /\ SamePrefix(currentScope', d) <=> SamePrefix(c, d)
            /\ Len(d) < Len(c) => (CanView(currentScope', d) <=> CanView(c, d))
            /\ Len(d) = Len(c) => (CanView(currentScope', d) <=> SamePrefix(c, d))
            /\ Len(d) = Len(c) => (CanView(c, d) <=> SamePrefix(c, d))
        <5> HIDE DEF d
        <5>1. /\ c \in Seq(Nat) /\ currentScope' \in Seq(Nat) /\ d \in Seq(Nat)
              /\ Len(c) <= Len(c) /\ Len(c) <= Len(currentScope') /\ Len(d) > 0
          BY <1>1, <1>2, <2>1, <4>2
        <5>2. QED
          BY <2>3, <3>1, <4>1, <4>2, <5>1, SameView, Zenon
      <4>4. Len(d) \in Nat
        BY <2>1
      <4>5. QED
        BY <2>3, <4>2, <4>3, <4>4
  <2>4. QED
    BY <1>1, <2>1, <2>2, <2>3
<1>7. \A i \in DOMAIN localDecls : localDecls[i].scope # currentScope'
  BY <1>1, <1>2, <1>5
<1>8. Positions'
  <2>1. Last(c) <= Last(currentScope')
    BY <1>1, <1>2
  <2>2. Within(currentScope)'
    <3>1. \A j \in 1..(Len(c) - 1) : currentScope'[j] <= Last(currentScope')
      BY <1>1, <1>2, <1>4 DEF Within
    <3>2. QED
      BY <1>1, <1>2, <3>1 DEF Within
  <2>3. \A k \in DOMAIN exprs : \A j \in 1..Len(exprs[k].scope) :
          exprs[k].scope[j] <= Last(currentScope')
    BY <1>1, <1>2, <1>3, <1>4 DEF Within
  <2>4. \A i \in DOMAIN localDecls : \A j \in 1..Len(localDecls[i].scope) :
          localDecls[i].scope[j] <= Last(currentScope')
    <3> SUFFICES ASSUME NEW i \in DOMAIN localDecls, NEW j \in 1..Len(localDecls[i].scope)
                 PROVE  localDecls[i].scope[j] <= Last(currentScope')
      OBVIOUS
    <3>1. localDecls[i].scope \in Seq(Nat) /\ localDecls[i].scope[j] <= Last(c)
      BY <1>3, <1>4 DEF Within
    <3>2. localDecls[i].scope[j] \in Nat
      BY <3>1
    <3>3. QED
      BY <1>1, <1>2, <3>1, <3>2
  <2>5. exprs' = exprs
    BY DEF BuildVarDecl
  <2>6. CASE ~kept
    <3>1. localDecls' = localDecls
      BY <2>6 DEF BuildVarDecl
    <3>2. QED
      BY <2>2, <2>3, <2>4, <2>5, <3>1 DEF Positions, Within
  <2>7. CASE kept
    <3>1. localDecls' = Append(localDecls, decl)
      BY <2>7 DEF BuildVarDecl
    <3>2. \A i \in DOMAIN localDecls' : i \in DOMAIN localDecls \/ localDecls'[i].scope = currentScope'
      BY <3>1 DEF ScopesTypeOK
    <3>3. \A i \in DOMAIN localDecls : localDecls'[i] = localDecls[i]
      BY <3>1 DEF ScopesTypeOK
    <3>4. \A i \in DOMAIN localDecls' : Within(localDecls[i].scope)'
      BY <2>2, <2>4, <3>2, <3>3 DEF Within
    <3>5. QED
      BY <2>2, <2>3, <2>5, <3>4 DEF Positions, Within
  <2>8. QED
    BY <2>6, <2>7
<1>9. CASE ~kept
  <2>1. stage' = "refused" /\ UNCHANGED <<localDecls, localDeclStack, localScope, sizes, exprs>>
    BY <1>9 DEF BuildVarDecl
  <2>2. ScopesTypeOK'
    <3> HIDE DEF ScopesInv
    <3>1. ScopesTypeOK
      BY DEF ScopesInv
    <3>2. QED
      BY <1>1, <1>2, <2>1, <3>1 DEF ScopesTypeOK
  <2>3. Depth' /\ Growing'
    BY <1>1, <1>2, <2>1 DEF Depth, Growing
  <2>4. Earlier' /\ Viewed'
    BY <1>6, <2>1 DEF Earlier, Viewed, InForce
  <2>5. Declared' /\ Cuts' /\ Distinct' /\ LookupsAgree' /\ NamesAreUnique'
    BY <2>1 DEF Declared, Cuts, Distinct, LookupsAgree, NamesAreUnique
  <2>6. QED
    BY <1>8, <2>2, <2>3, <2>4, <2>5
<1>10. CASE kept
  <2>1. /\ stage' = "method" /\ name \notin localScope
        /\ localScope' = localScope \cup {name}
        /\ localDecls' = Append(localDecls, decl)
        /\ localDeclStack' = Append(localDeclStack, decl)
        /\ sizes' = sizes /\ exprs' = exprs
    BY <1>1, <1>10 DEF BuildVarDecl
  <2>2. decl \in LocalDeclarations
    BY <1>2 DEF LocalDeclarations
  <2>3. ScopesTypeOK'
    <3>1. /\ localDecls \in Seq(LocalDeclarations) /\ localDeclStack \in Seq(LocalDeclarations)
          /\ localScope \subseteq Names /\ sizes \in Seq(Nat) /\ exprs \in Seq(Expressions)
      BY DEF ScopesTypeOK
    <3> HIDE DEF decl, ScopesInv
    <3>2. localDecls' \in Seq(LocalDeclarations) /\ localDeclStack' \in Seq(LocalDeclarations)
      BY <2>1, <2>2, <3>1
    <3>3. localScope' \subseteq Names
      BY <2>1, <3>1
    <3>4. QED
      BY <1>1, <1>2, <2>1, <3>1, <3>2, <3>3 DEF ScopesTypeOK
  <2>4. /\ DOMAIN localDecls' = DOMAIN localDecls \cup {Len(localDecls) + 1}
        /\ \A i \in DOMAIN localDecls : localDecls'[i] = localDecls[i]
        /\ localDecls'[Len(localDecls) + 1] = decl
    BY <2>1 DEF ScopesTypeOK
  <2>5. /\ DOMAIN localDeclStack' = DOMAIN localDeclStack \cup {Len(localDeclStack) + 1}
        /\ \A i \in DOMAIN localDeclStack : localDeclStack'[i] = localDeclStack[i]
        /\ localDeclStack'[Len(localDeclStack) + 1] = decl
    BY <2>1 DEF ScopesTypeOK
  <2>6. InForce' = InForce \cup {decl}
    BY <2>5 DEF InForce
  <2>7. \A i \in DOMAIN localDecls : localDecls[i] # decl
    BY <1>7
  <2>8. /\ CanView(currentScope', decl.scope)
        /\ \A j \in 1..(Len(decl.scope) - 1) : decl.scope[j] < Last(decl.scope)
    BY <1>1, <1>2, <1>4 DEF CanView, Within, Last
  <2> HIDE DEF decl
  <2>9. Depth'
    BY <1>1, <1>2, <2>1 DEF Depth
  <2>10. Growing'
    BY <2>4, <2>8 DEF Growing
  <2>11. Earlier'
    BY <1>6, <2>4, <2>8 DEF Earlier
  <2>12. Viewed'
    BY <1>6, <2>4, <2>6, <2>7, <2>8 DEF Viewed
  <2>13. Declared'
    <3>1. \A i \in DOMAIN localDeclStack' : \E k \in DOMAIN localDecls' :
            localDeclStack'[i] = localDecls'[k]
      BY <2>4, <2>5 DEF Declared
    <3>2. \A k \in DOMAIN exprs : \A d \in exprs[k].inForce : \E i \in DOMAIN localDecls' :
            d = localDecls'[i]
      BY <2>4 DEF Declared
    <3>3. QED
      BY <2>1, <3>1, <3>2 DEF Declared
  <2>14. Cuts'
    <3>1. Len(decl.scope) = Len(sizes) + 1
      BY <1>1, <1>2 DEF Depth, decl
    <3>2. Len(localDeclStack') = Len(localDeclStack) + 1
      BY <2>1 DEF ScopesTypeOK
    <3>3. \A j \in DOMAIN sizes : sizes[j] \in Nat /\ j \in Nat /\ j <= Len(sizes)
      BY DEF ScopesTypeOK
    <3>4. Len(localDeclStack) \in Nat
      BY DEF ScopesTypeOK
    <3>5. QED
      BY <2>1, <2>5, <3>1, <3>2, <3>3, <3>4 DEF Cuts, ScopesTypeOK
  <2>15. Distinct'
    <3>1. \A i \in DOMAIN localDeclStack : localDeclStack[i].name # name
      BY <2>1 DEF NamesAreUnique
    <3>2. decl.name = name
      BY DEF decl
    <3>3. QED
      BY <2>5, <3>1, <3>2 DEF Distinct
  <2>16. LookupsAgree'
    <3>1. \A k \in DOMAIN exprs : ~CanView(exprs[k].scope, decl.scope)
      <4> TAKE k \in DOMAIN exprs
      <4> DEFINE e == exprs[k].scope
      <4>1. e \in Seq(Nat) /\ \A j \in 1..Len(e) : e[j] <= Last(c)
        BY <1>3, <1>4 DEF Within
      <4> HIDE DEF e
      <4>2. ~CanView(e, currentScope')
        BY <1>1, <1>2, <4>1 DEF CanView
      <4>3. QED
        BY <4>2 DEF decl, e
    <3>2. \A k \in DOMAIN exprs : decl \notin exprs[k].inForce
      BY <2>7 DEF Declared
    <3>3. QED
      BY <2>1, <2>4, <3>1, <3>2 DEF LookupsAgree
  <2>17. NamesAreUnique'
    <3>1. localScope' = {localDeclStack'[i].name : i \in DOMAIN localDeclStack'}
      BY <2>1, <2>5 DEF NamesAreUnique, decl
    <3>2. QED
      BY <2>1, <3>1 DEF NamesAreUnique
  <2>18. QED
    BY <1>8, <2>3, <2>9, <2>10, <2>11, <2>12, <2>13, <2>14, <2>15, <2>16, <2>17
<1>11. QED
  BY <1>9, <1>10

\* A block that is entered sees what is outside it, and nothing was declared in it.
LEMMA EnterNewScopeInv ==
  ASSUME ScopesInv, EnterNewScope
  PROVE  ScopesInv'
<1> DEFINE c == currentScope
           next == currentScope'
<1>0. /\ ScopesTypeOK /\ Depth /\ Positions /\ Growing /\ Earlier /\ Viewed
      /\ Declared /\ Cuts /\ Distinct /\ LookupsAgree /\ NamesAreUnique
  BY DEF ScopesInv
<1>1. /\ stage = "method" /\ c \in Seq(Nat) /\ Len(c) > 0 /\ Last(c) \in Nat /\ Len(c) \in Nat
      /\ sizes \in Seq(Nat) /\ Len(c) = Len(sizes) + 1 /\ Len(localDeclStack) \in Nat
  BY <1>0 DEF EnterNewScope, ScopesTypeOK, Last, Depth
<1>2. /\ next \in Scopes /\ next \in Seq(Nat) /\ Len(next) = Len(c) + 1
      /\ \A j \in 1..Len(c) : next[j] = c[j]
      /\ next[Len(c) + 1] = Last(c) + 1
      /\ Last(next) = Last(c) + 1
  BY <1>1, Moves DEF EnterNewScope, Scopes
<1>3. /\ stage' = stage /\ localDecls' = localDecls /\ localDeclStack' = localDeclStack
      /\ localScope' = localScope /\ exprs' = exprs /\ InForce' = InForce
      /\ sizes' = Append(sizes, Len(localDeclStack))
  BY DEF EnterNewScope, InForce
<1>4. \A i \in DOMAIN localDecls : LET d == localDecls[i].scope IN
        /\ d \in Seq(Nat) /\ Len(d) > 0 /\ Last(d) \in Nat
        /\ \A j \in 1..Len(d) : d[j] \in Nat /\ d[j] <= Last(c)
        /\ \A j \in 1..(Len(d) - 1) : d[j] < Last(d)
  BY <1>0, <1>1, DeclFacts DEF Positions, Within, Growing
<1>5. \A i \in DOMAIN localDecls : LET d == localDecls[i].scope IN
        /\ CanView(next, d) <=> CanView(c, d)
        /\ SamePrefix(next, d) => CanView(next, d)
  <2> TAKE i \in DOMAIN localDecls
  <2> DEFINE d == localDecls[i].scope
  <2>1. /\ d \in Seq(Nat) /\ Len(d) > 0 /\ Len(d) \in Nat /\ Last(d) \in Nat /\ Last(d) = d[Len(d)]
        /\ \A j \in 1..Len(d) : d[j] \in Nat /\ d[j] <= Last(c)
        /\ \A j \in 1..(Len(d) - 1) : d[j] < Last(d)
    BY <1>4 DEF Last
  <2>2. SamePrefix(c, d) => CanView(c, d)
    BY <1>0 DEF Earlier
  <2> HIDE DEF d
  <2>3. CASE Len(d) <= Len(c)
    <3>1. \A j \in 1..Len(d) : next[j] = c[j]
      BY <1>1, <1>2, <2>1, <2>3
    <3>2. Len(d) <= Len(next)
      BY <1>1, <1>2, <2>1, <2>3
    <3>3. SamePrefix(next, d) <=> SamePrefix(c, d)
      BY <1>1, <1>2, <2>1, <2>3, <3>1, <3>2, SameAncestors
    <3>4. CanView(next, d) <=> CanView(c, d)
      BY <1>1, <1>2, <2>1, <2>3, <3>1, <3>2, SameAncestors
    <3>5. QED
      BY <2>2, <3>3, <3>4 DEF d
  <2>4. CASE Len(d) > Len(c)
    <3>1. ~CanView(c, d)
      BY <1>1, <2>1, <2>4 DEF CanView
    <3>2. ~SamePrefix(next, d)
      <4>1. SUFFICES ASSUME SamePrefix(next, d) PROVE FALSE
        OBVIOUS
      <4>2. Len(d) = Len(c) + 1
        BY <1>1, <1>2, <2>1, <2>4, <4>1 DEF SamePrefix
      <4>3. next[Len(c)] = d[Len(c)]
        BY <1>1, <4>1, <4>2 DEF SamePrefix
      <4>4. d[Len(c)] = Last(c)
        BY <1>1, <1>2, <4>3 DEF Last
      <4>5. d[Len(c)] < Last(d) /\ Last(d) <= Last(c)
        <5>1. Len(c) \in 1..(Len(d) - 1) /\ Len(d) \in 1..Len(d)
          BY <1>1, <2>1, <4>2
        <5>2. QED
          BY <2>1, <5>1
      <4>6. QED
        BY <1>1, <2>1, <4>4, <4>5
    <3>3. CanView(next, d) => SamePrefix(next, d)
      BY DEF CanView, SamePrefix
    <3>4. QED
      BY <3>1, <3>2, <3>3 DEF d
  <2>5. QED
    BY <1>1, <2>1, <2>3, <2>4
<1>6. ScopesTypeOK' /\ Depth'
  BY <1>0, <1>1, <1>2, <1>3 DEF ScopesTypeOK, Depth
<1>7. Positions'
  <2>1. ASSUME NEW s \in Seq(Nat), Within(s) PROVE \A j \in 1..Len(s) : s[j] <= Last(next)
    BY <1>1, <1>2, <2>1 DEF Within
  <2>2. \A j \in 1..Len(next) : next[j] <= Last(next)
    <3>1. \A j \in 1..Len(c) : next[j] <= Last(next)
      BY <1>0, <1>1, <1>2, <2>1 DEF Positions
    <3>2. next[Len(c) + 1] <= Last(next)
      BY <1>1, <1>2
    <3>3. QED
      <4>1. 1..Len(next) = 1..Len(c) \cup {Len(c) + 1}
        BY <1>1, <1>2
      <4>2. QED
        BY <3>1, <3>2, <4>1
  <2>3. \A i \in DOMAIN localDecls : \A j \in 1..Len(localDecls[i].scope) :
          localDecls[i].scope[j] <= Last(next)
    BY <1>0, <1>1, <2>1, DeclFacts DEF Positions
  <2>4. \A k \in DOMAIN exprs : \A j \in 1..Len(exprs[k].scope) :
          exprs[k].scope[j] <= Last(next)
    BY <1>0, <1>1, <2>1, DeclFacts DEF Positions
  <2>5. QED
    BY <1>3, <2>2, <2>3, <2>4 DEF Positions, Within
<1>8. Growing' /\ Earlier' /\ Viewed'
  BY <1>0, <1>3, <1>5 DEF Growing, Earlier, Viewed
<1>9. Cuts'
  <2>1. \A i \in DOMAIN localDeclStack : Len(localDeclStack[i].scope) <= Len(c)
    <3> TAKE i \in DOMAIN localDeclStack
    <3>1. PICK k \in DOMAIN localDecls : localDeclStack[i] = localDecls[k]
      BY <1>0 DEF Declared
    <3>2. CanView(c, localDecls[k].scope)
      BY <1>0, <3>1 DEF Viewed, InForce
    <3>3. QED
      BY <3>1, <3>2 DEF CanView
  <2>2. /\ DOMAIN sizes' = DOMAIN sizes \cup {Len(sizes) + 1}
        /\ sizes'[Len(sizes) + 1] = Len(localDeclStack)
        /\ \A j \in DOMAIN sizes : sizes'[j] = sizes[j]
    BY <1>1, <1>3
  <2>3. \A i \in DOMAIN localDeclStack : /\ i \in Nat /\ i <= Len(localDeclStack)
                                        /\ Len(localDeclStack[i].scope) \in Nat
    BY <1>0, DeclFacts DEF ScopesTypeOK
  <2>4. \A i \in DOMAIN localDeclStack :
          i > Len(localDeclStack) <=> Len(localDeclStack[i].scope) > Len(sizes) + 1
    BY <1>1, <2>1, <2>3
  <2>5. QED
    BY <1>0, <1>1, <1>3, <2>2, <2>4 DEF Cuts
<1>10. Declared' /\ Distinct' /\ LookupsAgree' /\ NamesAreUnique'
  BY <1>0, <1>3 DEF Declared, Distinct, LookupsAgree, NamesAreUnique
<1>11. QED
  BY <1>6, <1>7, <1>8, <1>9, <1>10 DEF ScopesInv

\* A block that is left takes away what was declared in it and keeps the rest.
LEMMA ExitScopeInv ==
  ASSUME ScopesInv, ExitScope
  PROVE  ScopesInv'
<1> DEFINE c == currentScope
           next == currentScope'
           size == Last(sizes)
           m == Len(sizes)
<1>0. /\ ScopesTypeOK /\ Depth /\ Positions /\ Growing /\ Earlier /\ Viewed
      /\ Declared /\ Cuts /\ Distinct /\ LookupsAgree /\ NamesAreUnique
  BY DEF ScopesInv
<1>1. /\ stage = "method" /\ c \in Seq(Nat) /\ Len(c) \in Nat /\ Len(c) > 1
      /\ sizes \in Seq(Nat) /\ m \in Nat /\ m > 0 /\ Len(c) = m + 1 /\ Len(localDeclStack) \in Nat
      /\ Last(c) \in Nat /\ size \in Nat /\ size = sizes[m]
  BY <1>0 DEF ExitScope, ScopesTypeOK, Last, Depth
<1>2. /\ next \in Scopes /\ next \in Seq(Nat) /\ Len(next) = Len(c) - 1 /\ Len(next) = m
      /\ \A j \in 1..(Len(c) - 2) : next[j] = c[j]
      /\ next[Len(c) - 1] = Last(c) + 1
      /\ Last(next) = Last(c) + 1
  BY <1>1, Moves DEF ExitScope, Scopes
<1>3. /\ stage' = stage /\ localDecls' = localDecls /\ exprs' = exprs
      /\ localDeclStack' = SubSeq(localDeclStack, 1, size)
      /\ localScope' = localScope \ {localDeclStack[i].name : i \in (size + 1)..Len(localDeclStack)}
      /\ sizes' = Front(sizes)
  BY DEF ExitScope, NamesAfterBlock
<1>4. /\ sizes' \in Seq(Nat) /\ Len(sizes') = m - 1
      /\ \A j \in 1..(m - 1) : sizes'[j] = sizes[j]
  BY <1>1, <1>3, FrontFacts
<1>5. /\ size <= Len(localDeclStack)
      /\ \A i \in DOMAIN localDeclStack : i > size <=> Len(localDeclStack[i].scope) > m
  <2>1. m \in DOMAIN sizes
    BY <1>1
  <2>2. QED
    BY <1>0, <1>1, <2>1 DEF Cuts
<1>6. /\ localDeclStack' \in Seq(LocalDeclarations) /\ Len(localDeclStack') = size
      /\ DOMAIN localDeclStack' = 1..size
      /\ \A i \in 1..size : i \in DOMAIN localDeclStack /\ localDeclStack'[i] = localDeclStack[i]
  <2>1. localDeclStack \in Seq(LocalDeclarations)
    BY <1>0 DEF ScopesTypeOK
  <2>2. \A i \in 1..size : i \in DOMAIN localDeclStack /\ localDeclStack[i] \in LocalDeclarations
    BY <1>1, <1>5, <2>1
  <2> HIDE DEF size
  <2>3. /\ SubSeq(localDeclStack, 1, size) \in Seq(LocalDeclarations)
        /\ Len(SubSeq(localDeclStack, 1, size)) = IF 1 <= size THEN size - 1 + 1 ELSE 0
        /\ \A i \in 1..(size - 1 + 1) : SubSeq(localDeclStack, 1, size)[i] = localDeclStack[1 + i - 1]
    BY <1>1, <2>2, SubSeqProperties
  <2>4. /\ Len(SubSeq(localDeclStack, 1, size)) = size
        /\ \A i \in 1..size : SubSeq(localDeclStack, 1, size)[i] = localDeclStack[i]
    BY <1>1, <2>3
  <2>5. QED
    BY <1>1, <1>3, <2>2, <2>3, <2>4
<1>7. \A i \in DOMAIN localDecls : LET d == localDecls[i].scope IN
        /\ d \in Seq(Nat) /\ Len(d) > 0 /\ Len(d) \in Nat /\ Last(d) \in Nat /\ Last(d) = d[Len(d)]
        /\ Last(d) <= Last(c)
  <2> TAKE i \in DOMAIN localDecls
  <2> DEFINE d == localDecls[i].scope
  <2>1. d \in Seq(Nat) /\ Len(d) > 0 /\ Last(d) \in Nat /\ Within(d)
    BY <1>0, <1>1, DeclFacts DEF Positions
  <2> HIDE DEF d
  <2>2. Len(d) \in Nat /\ Len(d) \in 1..Len(d) /\ Last(d) = d[Len(d)]
    BY <2>1 DEF Last
  <2>3. Last(d) <= Last(c)
    BY <2>1, <2>2 DEF Within
  <2>4. QED
    BY <2>1, <2>2, <2>3 DEF d
\* What the block around saw before is seen, and nothing deeper.
<1>8. \A i \in DOMAIN localDecls : LET d == localDecls[i].scope IN
        /\ CanView(next, d) <=> CanView(c, d) /\ Len(d) <= m
        /\ SamePrefix(next, d) => CanView(next, d)
  <2> TAKE i \in DOMAIN localDecls
  <2> DEFINE d == localDecls[i].scope
  <2>1. /\ d \in Seq(Nat) /\ Len(d) > 0 /\ Len(d) \in Nat /\ Last(d) \in Nat /\ Last(d) = d[Len(d)]
        /\ Last(d) <= Last(c)
    BY <1>7
  <2>2. SamePrefix(c, d) => CanView(c, d)
    BY <1>0 DEF Earlier
  <2>3. \A s \in {c, next} : CanView(s, d) => SamePrefix(s, d)
    BY DEF CanView, SamePrefix
  <2> HIDE DEF d
  <2>4. CASE Len(d) > m
    <3>1. ~CanView(next, d) /\ ~SamePrefix(next, d) /\ ~(Len(d) <= m)
      BY <1>1, <1>2, <2>1, <2>4 DEF CanView, SamePrefix
    <3>2. QED
      BY <3>1 DEF d
  <2>5. CASE Len(d) < m
    <3>1. \A j \in 1..Len(d) : next[j] = c[j]
      BY <1>1, <1>2, <2>1, <2>5
    <3>2. Len(d) <= Len(next) /\ Len(d) <= Len(c)
      <4>1. Len(next) = m /\ Len(c) = m + 1 /\ m \in Nat
        BY <1>1, <1>2
      <4>2. Len(d) \in Nat
        BY <2>1
      <4>3. \A k \in Nat, n \in Nat : k < n => k <= n /\ k <= n + 1
        OBVIOUS
      <4> HIDE DEF next, c, m
      <4>4. QED
        BY <4>1, <4>2, <4>3, <2>5
    <3>3. SamePrefix(next, d) <=> SamePrefix(c, d)
      BY <1>1, <1>2, <2>1, <3>1, <3>2, SameAncestors
    <3>4. CanView(next, d) <=> CanView(c, d)
      BY <1>1, <1>2, <2>1, <3>1, <3>2, SameAncestors
    <3>5. QED
      BY <1>1, <2>1, <2>2, <2>5, <3>3, <3>4 DEF d
  <2>6. CASE Len(d) = m
    <3>1. \A j \in 1..(Len(d) - 1) : next[j] = c[j]
      BY <1>1, <1>2, <2>1, <2>6
    <3>2. SamePrefix(next, d) <=> SamePrefix(c, d)
      BY <1>1, <1>2, <2>1, <2>6, <3>1 DEF SamePrefix
    <3>3. next[Len(d)] >= Last(d)
      BY <1>1, <1>2, <2>1, <2>6
    <3>4. SamePrefix(next, d) => CanView(next, d)
      BY <3>3 DEF SamePrefix, CanView
    <3>5. QED
      BY <1>1, <2>1, <2>2, <2>3, <2>6, <3>2, <3>4 DEF d
  <2>7. QED
    BY <1>1, <2>1, <2>4, <2>5, <2>6
<1>9. \A x : x \in InForce' <=> x \in InForce /\ Len(x.scope) <= m
  <2>1. InForce' = {localDeclStack[i] : i \in 1..size}
    BY <1>6 DEF InForce
  <2>2. \A i \in DOMAIN localDeclStack : /\ i \in Nat /\ i >= 1 /\ Len(localDeclStack[i].scope) \in Nat
                                        /\ i <= size <=> Len(localDeclStack[i].scope) <= m
    <3>1. DOMAIN localDeclStack = 1..Len(localDeclStack)
      BY <1>0 DEF ScopesTypeOK
    <3>2. \A i \in DOMAIN localDeclStack : Len(localDeclStack[i].scope) \in Nat
      BY <1>0, DeclFacts
    <3> HIDE DEF size, m
    <3>3. QED
      BY <1>1, <1>5, <3>1, <3>2
  <2>3. \A i : i \in 1..size <=> i \in DOMAIN localDeclStack /\ i <= size
    BY <1>1, <1>6, <2>2
  <2> HIDE DEF size, m
  <2>4. ASSUME NEW x, x \in InForce' PROVE x \in InForce /\ Len(x.scope) <= m
    <3>1. PICK i \in 1..size : x = localDeclStack[i]
      BY <2>1, <2>4
    <3>2. i \in DOMAIN localDeclStack /\ Len(localDeclStack[i].scope) <= m
      BY <2>2, <2>3
    <3>3. QED
      BY <3>1, <3>2 DEF InForce
  <2>5. ASSUME NEW x, x \in InForce, Len(x.scope) <= m PROVE x \in InForce'
    <3>1. PICK i \in DOMAIN localDeclStack : x = localDeclStack[i]
      BY <2>5 DEF InForce
    <3>2. i \in 1..size
      BY <2>2, <2>3, <2>5, <3>1
    <3>3. QED
      BY <2>1, <3>1, <3>2
  <2>6. QED
    BY <2>4, <2>5
<1>10. ScopesTypeOK' /\ Depth'
  <2>1. Depth'
    BY <1>1, <1>2, <1>4 DEF Depth
  <2>2. localScope' \subseteq Names
    BY <1>0, <1>3 DEF ScopesTypeOK
  <2>3. QED
    <3>1. /\ localDecls \in Seq(LocalDeclarations) /\ exprs \in Seq(Expressions)
          /\ stage \in {"outside", "method", "built", "refused"}
      BY <1>0 DEF ScopesTypeOK
    <3>2. Len(next) > 0
      BY <1>1, <1>2
    <3> HIDE DEF size, m, c, next
    <3>3. QED
      BY <1>2, <1>3, <1>4, <1>6, <2>1, <2>2, <3>1, <3>2 DEF ScopesTypeOK, next
<1>11. Positions'
  <2>1. ASSUME NEW s \in Seq(Nat), Within(s) PROVE \A j \in 1..Len(s) : s[j] <= Last(next)
    <3> TAKE j \in 1..Len(s)
    <3>1. s[j] \in Nat
      OBVIOUS
    <3>2. s[j] <= Last(c)
      BY <2>1 DEF Within
    <3>3. Last(c) \in Nat /\ Last(next) = Last(c) + 1
      BY <1>1, <1>2
    <3> HIDE DEF c, next
    <3>4. QED
      BY <3>1, <3>2, <3>3
  <2>2. \A j \in 1..Len(next) : next[j] <= Last(next)
    <3>1. \A j \in 1..(Len(c) - 2) : next[j] <= Last(next)
      <4>1. \A j \in 1..Len(c) : c[j] <= Last(next)
        BY <1>0, <1>1, <2>1 DEF Positions
      <4>2. QED
        BY <1>1, <1>2, <4>1
    <3>2. 1..Len(next) = 1..(Len(c) - 2) \cup {Len(c) - 1}
      BY <1>1, <1>2
    <3>3. next[Len(c) - 1] <= Last(next)
      BY <1>1, <1>2
    <3>4. QED
      BY <3>1, <3>2, <3>3
  <2>3. \A i \in DOMAIN localDecls : \A j \in 1..Len(localDecls[i].scope) :
          localDecls[i].scope[j] <= Last(next)
    BY <1>0, <1>1, <2>1, DeclFacts DEF Positions
  <2>4. \A k \in DOMAIN exprs : \A j \in 1..Len(exprs[k].scope) :
          exprs[k].scope[j] <= Last(next)
    BY <1>0, <1>1, <2>1, DeclFacts DEF Positions
  <2>5. QED
    BY <1>3, <2>2, <2>3, <2>4 DEF Positions, Within
<1>12. Growing' /\ Earlier'
  BY <1>0, <1>3, <1>8 DEF Growing, Earlier
<1>13. Viewed'
  <2>1. \A i \in DOMAIN localDecls :
          CanView(next, localDecls[i].scope) <=> localDecls[i] \in InForce'
    BY <1>0, <1>8, <1>9 DEF Viewed
  <2>2. QED
    BY <1>3, <2>1 DEF Viewed
<1>14. Declared'
  <2>1. \A i \in 1..size : \E k \in DOMAIN localDecls : localDeclStack'[i] = localDecls[k]
    BY <1>0, <1>6 DEF Declared
  <2>2. QED
    BY <1>0, <1>3, <1>6, <2>1 DEF Declared
<1>15. Cuts'
  <2> SUFFICES ASSUME NEW j \in DOMAIN sizes'
               PROVE  /\ sizes'[j] <= size
                      /\ \A i \in 1..size :
                           i > sizes'[j] <=> Len(localDeclStack'[i].scope) > j
    BY <1>6 DEF Cuts
  <2>1. /\ j \in DOMAIN sizes /\ j \in Nat /\ j < m /\ sizes'[j] = sizes[j] /\ sizes[j] \in Nat
    <3>1. DOMAIN sizes' = 1..Len(sizes') /\ DOMAIN sizes = 1..m
      BY <1>1, <1>4
    <3> HIDE DEF m
    <3>2. j \in 1..(m - 1)
      BY <1>4, <3>1
    <3>3. j \in DOMAIN sizes /\ j \in Nat /\ j < m
      BY <1>1, <3>1, <3>2
    <3>4. sizes[j] \in Nat
      BY <1>1, <3>3
    <3>5. QED
      BY <1>4, <3>2, <3>3, <3>4
  <2>2. /\ sizes[j] <= Len(localDeclStack)
        /\ \A i \in DOMAIN localDeclStack : i > sizes[j] <=> Len(localDeclStack[i].scope) > j
    BY <1>0, <2>1 DEF Cuts
  <2>3. \A i \in 1..size : i > sizes[j] <=> Len(localDeclStack'[i].scope) > j
    BY <1>6, <2>2
  <2>4. ASSUME sizes[j] > size PROVE FALSE
    <3>1. sizes[j] \in DOMAIN localDeclStack
      BY <1>0, <1>1, <2>1, <2>2, <2>4 DEF ScopesTypeOK
    <3>2. Len(localDeclStack[sizes[j]].scope) > m
      BY <1>5, <2>4, <3>1
    <3>3. Len(localDeclStack[sizes[j]].scope) \in Nat
      BY <1>0, <3>1, DeclFacts
    <3>4. sizes[j] > sizes[j]
      BY <1>1, <2>1, <2>2, <3>1, <3>2, <3>3
    <3>5. QED
      BY <2>1, <3>4
  <2>5. QED
    BY <1>1, <2>1, <2>3, <2>4
<1>16. Distinct' /\ LookupsAgree'
  BY <1>0, <1>3, <1>6 DEF Distinct, LookupsAgree
<1>17. NamesAreUnique'
  <2>1. localScope = {localDeclStack[i].name : i \in DOMAIN localDeclStack}
    BY <1>0 DEF NamesAreUnique
  <2>2. DOMAIN localDeclStack = (1..size) \cup ((size + 1)..Len(localDeclStack))
    <3>1. DOMAIN localDeclStack = 1..Len(localDeclStack)
      BY <1>0 DEF ScopesTypeOK
    <3> HIDE DEF size
    <3>2. QED
      BY <1>1, <1>5, <3>1
  <2>3. \A i \in 1..size, k \in (size + 1)..Len(localDeclStack) :
          localDeclStack[i].name # localDeclStack[k].name
    <3>1. \A i \in 1..size, k \in (size + 1)..Len(localDeclStack) : i # k
      BY <1>1
    <3>2. QED
      BY <1>0, <2>2, <3>1 DEF Distinct
  <2>4. localScope' = {localDeclStack[i].name : i \in 1..size}
    BY <1>3, <2>1, <2>2, <2>3
  <2>5. localScope' = {localDeclStack'[i].name : i \in DOMAIN localDeclStack'}
    BY <1>6, <2>4
  <2>6. QED
    BY <1>0, <1>3, <2>5 DEF NamesAreUnique
<1>18. QED
  BY <1>10, <1>11, <1>12, <1>13, <1>14, <1>15, <1>16, <1>17 DEF ScopesInv

LEMMA VisitExpressionInv ==
  ASSUME ScopesInv, VisitExpression
  PROVE  ScopesInv'
<1> DEFINE e == [scope |-> currentScope, inForce |-> InForce]
<1>0. /\ ScopesTypeOK /\ Depth /\ Positions /\ Growing /\ Earlier /\ Viewed
      /\ Declared /\ Cuts /\ Distinct /\ LookupsAgree /\ NamesAreUnique
  BY DEF ScopesInv
<1>1. /\ stage = "method" /\ exprs' = Append(exprs, e) /\ InForce' = InForce
      /\ UNCHANGED <<stage, currentScope, localDecls, localDeclStack, localScope, sizes>>
  BY DEF VisitExpression, InForce
<1>2. e \in Expressions
  <2>1. currentScope \in Scopes
    BY <1>0, <1>1 DEF ScopesTypeOK, Scopes
  <2>2. InForce \subseteq LocalDeclarations
    BY <1>0 DEF ScopesTypeOK, InForce
  <2>3. QED
    BY <2>1, <2>2 DEF Expressions
<1>3. exprs \in Seq(Expressions)
  BY <1>0 DEF ScopesTypeOK
<1> DEFINE n == Len(exprs) + 1
<1>4. /\ DOMAIN exprs' = DOMAIN exprs \cup {n} /\ exprs'[n] = e
      /\ \A k \in DOMAIN exprs : exprs'[k] = exprs[k]
  <2> HIDE DEF e
  <2>1. QED
    BY <1>1, <1>2, <1>3
<1>5. e.scope = currentScope /\ e.inForce = InForce
  OBVIOUS
<1>6. ScopesTypeOK'
  <2> HIDE DEF e
  <2>1. exprs' \in Seq(Expressions)
    BY <1>1, <1>2, <1>3
  <2>2. QED
    BY <1>0, <1>1, <2>1 DEF ScopesTypeOK
<1> HIDE DEF e, n
<1>7. Depth' /\ Growing' /\ Earlier' /\ Viewed' /\ Cuts' /\ Distinct'
  BY <1>0, <1>1 DEF Depth, Growing, Earlier, Viewed, Cuts, Distinct
<1>8. Positions'
  BY <1>0, <1>1, <1>4, <1>5 DEF Positions, Within
<1>9. Declared'
  <2>1. \A d \in InForce : \E i \in DOMAIN localDecls : d = localDecls[i]
    BY <1>0 DEF Declared, InForce
  <2>2. QED
    BY <1>0, <1>1, <1>4, <1>5, <2>1 DEF Declared
<1>10. LookupsAgree'
  BY <1>0, <1>1, <1>4, <1>5 DEF LookupsAgree, Viewed
<1>11. NamesAreUnique'
  <2>1. \A d, f \in InForce : d.name = f.name => d = f
    BY <1>0 DEF Distinct, InForce
  <2>2. QED
    BY <1>0, <1>1, <1>4, <1>5, <2>1 DEF NamesAreUnique
<1>12. QED
  BY <1>6, <1>7, <1>8, <1>9, <1>10, <1>11 DEF ScopesInv

LEMMA ClearLocalScopeInv ==
  ASSUME ScopesInv, ClearLocalScope
  PROVE  ScopesInv'
<1>1. /\ stage' = "method" /\ currentScope' = <<0>> /\ localDecls' = << >>
      /\ localDeclStack' = << >> /\ localScope' = {} /\ sizes' = << >> /\ exprs' = << >>
  BY DEF ClearLocalScope
<1>2. ScopesTypeOK'
  BY <1>1 DEF ScopesTypeOK
<1>3. Depth' /\ Positions' /\ Growing' /\ Earlier' /\ Cuts' /\ Distinct'
  BY <1>1 DEF Depth, Positions, Within, Last, Growing, Earlier, Cuts, Distinct
<1>4. Viewed' /\ Declared' /\ LookupsAgree' /\ NamesAreUnique'
  BY <1>1 DEF Viewed, Declared, LookupsAgree, NamesAreUnique
<1>5. QED
  BY <1>2, <1>3, <1>4 DEF ScopesInv

LEMMA ScopesStutterInv ==
  ASSUME ScopesInv, stage' = stage \/ (stage = "method" /\ stage' = "built"),
         UNCHANGED <<currentScope, localDecls, localDeclStack, localScope, sizes, exprs>>
  PROVE  ScopesInv'
<1>1. /\ ScopesTypeOK /\ Depth /\ Positions /\ Growing /\ Earlier /\ Viewed
      /\ Declared /\ Cuts /\ Distinct /\ LookupsAgree /\ NamesAreUnique
  BY DEF ScopesInv
<1>2. ScopesTypeOK'
  BY <1>1 DEF ScopesTypeOK
<1>3. Depth' /\ Positions'
  BY <1>1 DEF Depth, Positions, Within
<1>4. Growing' /\ Earlier' /\ Viewed' /\ Declared' /\ Cuts' /\ Distinct'
  BY <1>1 DEF Growing, Earlier, Viewed, InForce, Declared, Cuts, Distinct
<1>5. LookupsAgree' /\ NamesAreUnique'
  BY <1>1 DEF LookupsAgree, NamesAreUnique
<1>6. QED
  BY <1>1, <1>2, <1>3, <1>4, <1>5 DEF ScopesInv

LEMMA ScopesStepInv == ScopesInv /\ [ScopesNext]_scopeVars => ScopesInv'
<1> SUFFICES ASSUME ScopesInv, [ScopesNext]_scopeVars PROVE ScopesInv'
  OBVIOUS
<1>1. CASE ClearLocalScope
  BY <1>1, ClearLocalScopeInv
<1>2. ASSUME NEW name \in Names, NEW mentioned \in SUBSET Names, BuildVarDecl(name, mentioned)
      PROVE  ScopesInv'
  BY <1>2, BuildVarDeclInv
<1>3. CASE EnterNewScope
  BY <1>3, EnterNewScopeInv
<1>4. CASE ExitScope
  BY <1>4, ExitScopeInv
<1>5. CASE VisitExpression
  BY <1>5, VisitExpressionInv
<1>6. CASE BuildMethodDecl
  BY <1>6, ScopesStutterInv DEF BuildMethodDecl
<1>7. CASE UNCHANGED scopeVars
  BY <1>7, ScopesStutterInv DEF scopeVars
<1>8. QED
  BY <1>1, <1>2, <1>3, <1>4, <1>5, <1>6, <1>7 DEF ScopesNext

\* In every method the scope numbers and the stack of declarations agree: an
\* expression views by its number exactly what was in force where it stands.
THEOREM NumbersFindWhatWasInForce == ScopesSpec => []LookupsAgree
<1>1. ScopesInv => LookupsAgree
  BY DEF ScopesInv
<1>2. QED
  BY <1>1, ScopesInitInv, ScopesStepInv, PTL DEF ScopesSpec

\* However blocks are entered and left, the names that refuse a redeclaration are
\* the names in force, and an expression never views two variables of one name.
THEOREM OneDeclarationPerName == ScopesSpec => []NamesAreUnique
<1>1. ScopesInv => NamesAreUnique
  BY DEF ScopesInv
<1>2. QED
  BY <1>1, ScopesInitInv, ScopesStepInv, PTL DEF ScopesSpec

\* The states of the local scopes have their types.
THEOREM ScopesTyped == ScopesSpec => []ScopesTypeOK
<1>1. ScopesInv => ScopesTypeOK
  BY DEF ScopesInv
<1>2. QED
  BY <1>1, ScopesInitInv, ScopesStepInv, PTL DEF ScopesSpec
=============================================================================
