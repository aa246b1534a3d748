----------------------------- MODULE TypeLinker -----------------------------
(***************************************************************************)
(* The type linker (typeLinker.cpp): the symbol table of all files, and    *)
(* for one file after the other its context, the map from the simple names *)
(* that may begin a type name to what they stand for, and then the types   *)
(* named in the file.                                                      *)
(*                                                                         *)
(* The table is a trie of packages with declarations as leaves.  A node is *)
(* named by the path that leads to it, and the trie is the paths of its    *)
(* packages and of its types; a context maps an identifier to such a path. *)
(* The children of a package are an unordered_map: they are visited in any *)
(* order.                                                                  *)
(***************************************************************************)
EXTENDS Integers, Sequences, SequencesExt

CONSTANTS
  Ids,
  Programs,   \* programs: sequences of compilation units
  Required    \* the types populateJavaLang fetches

VARIABLES
  units,
  linkStage,
  unit,       \* the unit at work
  import,     \* its import at work
  pending,    \* types of the package imported on demand, not yet visited
  packages, types,
  contexts,   \* for each unit
  links       \* for each unit, what its type names were resolved to

linkVars == <<units, linkStage, unit, import, pending, packages, types,
              contexts, links>>

\* What a unit is, and what ProgramDecl checks of it: no two single-type imports
\* of one name.  A program is a sequence of units.
Names1 == Seq(Ids) \ {<< >>}
IsUnit(u) ==
  /\ u.package \in Seq(Ids) /\ u.class \in Ids
  /\ u.imports \in Seq([name : Names1, star : BOOLEAN])
  /\ u.uses \in Seq(Names1)
  /\ \A m, n \in DOMAIN u.imports :
       /\ ~u.imports[m].star /\ ~u.imports[n].star
       /\ Last(u.imports[m].name) = Last(u.imports[n].name)
       => u.imports[m].name = u.imports[n].name

IsProgram(p) ==
  /\ Len(p) \in Nat \ {0} /\ DOMAIN p = 1..Len(p)
  /\ \A k \in DOMAIN p : IsUnit(p[k])

ASSUME ProgramsAssumption == \A p \in Programs : IsProgram(p)

DefaultPackage == <<"?">>
\* What a context holds where it has no entry, and its nullptr entry.
Absent == << >>
Ambiguous == <<"">>

Home(u) == IF u.package = << >> THEN DefaultPackage ELSE u.package
TypeName(u) == Append(Home(u), u.class)
\* The packages that a unit's package declares.
Above(u) == {SubSeq(u.package, 1, n) : n \in 1..Len(u.package)}

LinkInit ==
  /\ units \in Programs
  /\ linkStage = "table"
  /\ unit = 1 /\ import = 1 /\ pending = {}
  /\ packages = {DefaultPackage} /\ types = {}
  /\ contexts = [k \in DOMAIN units |-> [id \in Ids |-> Absent]]
  /\ links = [k \in DOMAIN units |-> << >>]

Refuse(why) == why /\ linkStage' = "refused"

\* Mutant: a type may have the name of a package.
TakenByType(name) == name \in types
Taken(name) == name \in packages \cup types

\* buildSymbolTable, for one file.
AddToTable ==
  /\ linkStage = "table"
  /\ LET u == units[unit]
         clash == Above(u) \cap types # {} \/ Taken(TypeName(u))
     IN \/ Refuse(clash) /\ UNCHANGED <<unit, packages, types>>
        \/ /\ ~clash
           /\ packages' = packages \cup Above(u)
           /\ types' = types \cup {TypeName(u)}
           /\ IF unit < Len(units)
              THEN unit' = unit + 1 /\ UNCHANGED linkStage
              ELSE unit' = 1 /\ linkStage' = "demand"
  /\ UNCHANGED <<units, import, pending, contexts, links>>

\* initContext, step 1: the imports on demand, in the order of the file.
StartOnDemandImport ==
  /\ linkStage = "demand" /\ pending = {} /\ import <= Len(units[unit].imports)
  /\ LET i == units[unit].imports[import] IN
     \/ ~i.star /\ UNCHANGED <<linkStage, pending>>
     \/ Refuse(i.star /\ i.name \notin packages) /\ UNCHANGED pending
     \/ /\ i.star /\ i.name \in packages
        /\ pending' = {t \in types : Front(t) = i.name}
        /\ UNCHANGED linkStage
  /\ import' = import + 1
  /\ UNCHANGED <<units, unit, packages, types, contexts, links>>

\* Mutant: the first of two packages wins.
FirstFound(entry, type) == IF entry = Absent THEN type ELSE entry

\* The entry for a name after one more type of that name.
FoundOnDemand(entry, type) == IF entry \in {Absent, type} THEN type ELSE Ambiguous

AddOnDemand ==
  /\ linkStage = "demand"
  /\ \E t \in pending :
       /\ contexts' = [contexts EXCEPT ![unit][Last(t)] = FoundOnDemand(@, t)]
       /\ pending' = pending \ {t}
  /\ UNCHANGED <<units, linkStage, unit, import, packages, types, links>>

\* Steps 2 and 3: the packages that no type hides, then the types of the unit's
\* own package over whatever is there.
AddPackages ==
  /\ linkStage = "demand" /\ pending = {} /\ import > Len(units[unit].imports)
  /\ contexts' = [contexts EXCEPT ![unit] = [id \in Ids |->
       IF @[id] = Absent /\ <<id>> \in packages THEN <<id>> ELSE @[id]]]
  /\ linkStage' = "package"
  /\ UNCHANGED <<units, unit, import, pending, packages, types, links>>

AddOwnPackage ==
  /\ linkStage = "package"
  /\ LET Sibling(id) == Append(Home(units[unit]), id) IN
     contexts' = [contexts EXCEPT ![unit] = [id \in Ids |->
       IF Sibling(id) \in types THEN Sibling(id) ELSE @[id]]]
  /\ linkStage' = "single" /\ import' = 1
  /\ UNCHANGED <<units, unit, pending, packages, types, links>>

\* Step 4: single-type imports.
AddSingleTypeImport ==
  /\ linkStage = "single" /\ import <= Len(units[unit].imports)
  /\ LET u == units[unit]
         i == u.imports[import]
         wrong == i.name \notin types \/ (Last(i.name) = u.class /\ i.name # TypeName(u))
     IN \/ i.star /\ UNCHANGED <<linkStage, contexts>>
        \/ Refuse(~i.star /\ wrong) /\ UNCHANGED contexts
        \/ /\ ~i.star /\ ~wrong
           /\ contexts' = [contexts EXCEPT ![unit][Last(i.name)] = i.name]
           /\ UNCHANGED linkStage
  /\ import' = import + 1
  /\ UNCHANGED <<units, unit, pending, packages, types, links>>

\* Step 5: the unit's own declaration hides everything.
AddOwnType ==
  /\ linkStage = "single" /\ import > Len(units[unit].imports)
  /\ contexts' = [contexts EXCEPT ![unit][units[unit].class] = TypeName(units[unit])]
  /\ linkStage' = "types"
  /\ UNCHANGED <<units, unit, import, pending, packages, types, links>>

\* resolveType: where the first identifier leads, and from there down.
Target(entry, name) == entry \o Tail(name)
Resolves(entry, name) ==
  /\ entry \notin {Absent, Ambiguous}
  /\ Len(name) > 1 => entry \notin types
  /\ Target(entry, name) \in types

\* resolveAST, for the next type that the unit names.
ResolveType ==
  /\ linkStage = "types" /\ Len(links[unit]) < Len(units[unit].uses)
  /\ LET name == units[unit].uses[Len(links[unit]) + 1]
         entry == contexts[unit][Head(name)]
     IN \/ Refuse(~Resolves(entry, name)) /\ UNCHANGED links
        \/ /\ Resolves(entry, name)
           /\ links' = [links EXCEPT ![unit] = Append(@, Target(entry, name))]
           /\ UNCHANGED linkStage
  /\ UNCHANGED <<units, unit, import, pending, packages, types, contexts>>

NextUnit ==
  /\ linkStage = "types" /\ Len(links[unit]) = Len(units[unit].uses)
  /\ IF unit < Len(units)
     THEN unit' = unit + 1 /\ linkStage' = "demand"
     ELSE unit' = unit /\ linkStage' = "resolved"
  /\ import' = 1
  /\ UNCHANGED <<units, pending, packages, types, contexts, links>>

\* populateJavaLang fetches the classes the compiler itself refers to.
PopulateJavaLang ==
  /\ linkStage = "resolved"
  /\ linkStage' = IF Required \subseteq types THEN "linked" ELSE "refused"
  /\ UNCHANGED <<units, unit, import, pending, packages, types, contexts, links>>

LinkNext ==
  \/ AddToTable
  \/ StartOnDemandImport \/ AddOnDemand \/ AddPackages \/ AddOwnPackage
  \/ AddSingleTypeImport \/ AddOwnType
  \/ ResolveType \/ NextUnit \/ PopulateJavaLang

LinkSpec == LinkInit /\ [][LinkNext]_linkVars

-----------------------------------------------------------------------------
(* What the language says of a program, whatever the order of its files, of *)
(* its imports and of the entries of a package (JLS 6.5, 7.5).              *)

AllTypes == {TypeName(units[k]) : k \in DOMAIN units}
AllPackages == {DefaultPackage} \cup UNION {Above(units[k]) : k \in DOMAIN units}
Imports(u, star) == {i \in {u.imports[n] : n \in DOMAIN u.imports} : i.star = star}

\* The types of a name that the on-demand imports offer.
Offered(u, id) ==
  {t \in AllTypes : Last(t) = id /\ \E i \in Imports(u, TRUE) : Front(t) = i.name}

OnDemandMeaning(u, id) ==
  IF Offered(u, id) = {} THEN Absent
  ELSE IF \E t \in Offered(u, id) : Offered(u, id) = {t}
  THEN CHOOSE t \in Offered(u, id) : TRUE
  ELSE Ambiguous

\* What a name means with no regard to the unit's own package, then with it,
\* then with the single-type imports, and in the unit.
Outside(u, id) ==
  IF Offered(u, id) # {} THEN OnDemandMeaning(u, id)
  ELSE IF <<id>> \in AllPackages THEN <<id>> ELSE Absent
InPackage(u, id) ==
  LET sibling == Append(Home(u), id) IN
  IF sibling \in AllTypes THEN sibling ELSE Outside(u, id)
Singles(u, id) == {i.name : i \in {j \in Imports(u, FALSE) : Last(j.name) = id}}
Imported(u, id) ==
  IF Singles(u, id) # {} THEN CHOOSE t \in Singles(u, id) : TRUE ELSE InPackage(u, id)
Meaning(u, id) == IF id = u.class THEN TypeName(u) ELSE Imported(u, id)

NamesType(u, name) ==
  LET first == Meaning(u, Head(name)) IN
  /\ first \notin {Absent, Ambiguous}
  /\ Len(name) > 1 => first \notin AllTypes
  /\ first \o Tail(name) \in AllTypes

ImportRight(u, i) ==
  IF i.star THEN i.name \in AllPackages
  ELSE i.name \in AllTypes /\ (Last(i.name) = u.class => i.name = TypeName(u))

WellFormed(u) ==
  /\ TypeName(u) \notin AllPackages
  /\ \A n \in DOMAIN u.imports : ImportRight(u, u.imports[n])
  /\ \A n \in DOMAIN u.uses : NamesType(u, u.uses[n])

Links ==
  /\ \A j, k \in DOMAIN units : TypeName(units[j]) = TypeName(units[k]) => j = k
  /\ \A k \in DOMAIN units : WellFormed(units[k])
  /\ Required \subseteq AllTypes

Paths == Seq(Ids \cup {"?", ""})
Stages == {"table", "demand", "package", "single", "types", "resolved", "linked", "refused"}

LinkTypeOK ==
  /\ IsProgram(units)
  /\ linkStage \in Stages
  /\ unit \in DOMAIN units
  /\ import \in Nat
  /\ packages \subseteq Paths /\ types \subseteq Paths /\ pending \subseteq types
  /\ contexts \in [DOMAIN units -> [Ids -> Paths]]
  /\ links \in [DOMAIN units -> Seq(Paths)]

\* A context that is finished.
ContextDone(k) ==
  \/ linkStage = "types" /\ k <= unit
  \/ linkStage \in {"demand", "package", "single"} /\ k < unit
  \/ linkStage \in {"resolved", "linked"}

\* In the context of a file a name stands for what it means by the rules of
\* shadowing: the file's own type, then its single-type imports, its package,
\* its imports on demand if they agree, and a package last of all.
ContextsFollowShadowing ==
  \A k \in DOMAIN units : ContextDone(k) =>
    \A id \in Ids : contexts[k][id] = Meaning(units[k], id)

\* The linker ends with a program the language accepts, every type name linked to
\* the type it names, and refuses no other program, however files are ordered.
LinkVerdict ==
  /\ linkStage = "linked" =>
       /\ Links
       /\ \A k \in DOMAIN units : \A n \in DOMAIN units[k].uses :
            links[k][n] = Meaning(units[k], Head(units[k].uses[n])) \o Tail(units[k].uses[n])
  /\ linkStage = "refused" => ~Links
=============================================================================
