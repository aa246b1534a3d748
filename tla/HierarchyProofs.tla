--------------------------- MODULE HierarchyProofs ---------------------------
(***************************************************************************)
(* For every program: checkAcyclic decides whether a type has a cycle      *)
(* above it, and a program whose types are all accepted has none; what     *)
(* getInheritedMethods gathers is what a type inherits, and what it leaves *)
(* abstract is what the type lacks; the methods of one signature that a    *)
(* type of an accepted program has agree in their result; and each step    *)
(* brings the checks closer to their end.                                  *)
(***************************************************************************)
EXTENDS HierarchyCheck, WorklistLemmas, SequenceTheorems, FiniteSetTheorems, Integers

\* What the type linker hands over.
LEMMA ProgramIsWellFormed ==
  ASSUME program \in DOMAIN ProgramOf
  PROVE  IsProgram(p)
BY ProgramsAssumption DEF p

\* Supertypes are types, those of its kind first.
LEMMA SupertypesAreTypes ==
  ASSUME program \in DOMAIN ProgramOf, NEW t \in Types
  PROVE  /\ SuperClasses(t) \in Seq(Types) /\ SuperInterfaces(t) \in Seq(Types)
         /\ Supertypes(t) \in Seq(Types)
<1>1. IsProgram(p)
  BY ProgramIsWellFormed
<1>2. p[t].extends \in Seq(Types) /\ p[t].interfaces \in Seq(Types) /\ Object \in Types
  BY <1>1 DEF IsProgram, Types
<1>3. Append(p[t].extends, Object) \in Seq(Types) /\ << >> \in Seq(Types)
  BY <1>2
<1>4. SuperClasses(t) \in Seq(Types)
  BY <1>3 DEF SuperClasses
<1>5. SuperInterfaces(t) \in Seq(Types)
  BY <1>2 DEF SuperInterfaces
<1>6. QED
  BY <1>4, <1>5 DEF Supertypes

\* How many of its supertypes are kin, which come first.
KinCount(t) == IF isClass(t) THEN Len(SuperClasses(t)) ELSE Len(SuperInterfaces(t))

LEMMA KinComeFirst ==
  ASSUME program \in DOMAIN ProgramOf, NEW t \in Types
  PROVE  /\ KinCount(t) \in Nat /\ KinCount(t) <= Len(Supertypes(t))
         /\ Kin(t) = {Supertypes(t)[j] : j \in 1..KinCount(t)}
         /\ Kin(t) \subseteq Types
         /\ isClass(t) => KinCount(t) = Len(SuperClasses(t))
<1> DEFINE sc == SuperClasses(t)
           si == SuperInterfaces(t)
<1>1. sc \in Seq(Types) /\ si \in Seq(Types)
  BY SupertypesAreTypes
<1>2. ~isClass(t) => sc = << >>
  BY DEF SuperClasses
<1>3. Supertypes(t) = sc \o si
  BY DEF Supertypes
<1> HIDE DEF sc, si
<1>4. /\ Len(sc) \in Nat /\ Len(si) \in Nat
      /\ DOMAIN sc = 1..Len(sc) /\ DOMAIN si = 1..Len(si)
      /\ Len(sc \o si) = Len(sc) + Len(si)
      /\ \A j \in 1..Len(sc) : (sc \o si)[j] = sc[j]
  BY <1>1
<1>5. ~isClass(t) => sc \o si = si
  BY <1>1, <1>2
<1>6. KinCount(t) = IF isClass(t) THEN Len(sc) ELSE Len(si)
  BY DEF KinCount, sc, si
<1>7. Kin(t) = IF isClass(t) THEN Range(sc) ELSE Range(si)
  BY DEF Kin, sc, si
<1>8. Range(sc) = {sc[j] : j \in 1..Len(sc)} /\ Range(si) = {si[j] : j \in 1..Len(si)}
  BY <1>4 DEF Range
<1>9. Kin(t) = {Supertypes(t)[j] : j \in 1..KinCount(t)}
  <2>1. CASE isClass(t)
    BY <2>1, <1>3, <1>4, <1>6, <1>7, <1>8
  <2>2. CASE ~isClass(t)
    BY <2>2, <1>3, <1>5, <1>6, <1>7, <1>8
  <2>3. QED
    BY <2>1, <2>2
<1>10. Kin(t) \subseteq Types
  BY <1>1, <1>4, <1>7, <1>8
<1>11. KinCount(t) \in Nat /\ KinCount(t) <= Len(Supertypes(t))
  BY <1>3, <1>4, <1>6
<1>12. QED
  BY <1>6, <1>9, <1>10, <1>11 DEF sc

\* A type whose kin have no cycle above them has none above it.
LEMMA NoCycleAboveFromKin ==
  ASSUME NEW t \in Types, Kin(t) \subseteq Types, \A k \in Kin(t) : NoCycleAbove(k)
  PROVE  NoCycleAbove(t)
<1> SUFFICES ASSUME NEW S \in SUBSET Types, t \in S
             PROVE  \E s \in S : Kin(s) \cap S = {}
  BY DEF NoCycleAbove
<1>1. CASE Kin(t) \cap S = {}
  BY <1>1
<1>2. ASSUME NEW k \in Kin(t) \cap S
      PROVE  \E s \in S : Kin(s) \cap S = {}
  BY <1>2 DEF NoCycleAbove
<1>3. QED
  BY <1>1, <1>2

\* When no type has a cycle of its kind above it and the kinds are kept apart,
\* there is no cycle.
LEMMA AcyclicFromKin ==
  ASSUME program \in DOMAIN ProgramOf,
         \A t \in Types : ProperExtends(t) /\ NoCycleAbove(t)
  PROVE  Acyclic
<1> SUFFICES ASSUME NEW S \in SUBSET Types, S # {}
             PROVE  \E t \in S : Range(Supertypes(t)) \cap S = {}
  BY DEF Acyclic
<1>1. ASSUME NEW t \in Types
      PROVE  /\ Range(Supertypes(t)) = Range(SuperClasses(t)) \cup Range(SuperInterfaces(t))
             /\ \A s \in Range(SuperInterfaces(t)) : isInterface(s)
             /\ isInterface(t) => /\ Range(SuperClasses(t)) = {}
                                  /\ Kin(t) = Range(SuperInterfaces(t))
             /\ ~isInterface(t) => Kin(t) = Range(SuperClasses(t))
  <2>1. IsProgram(p)
    BY ProgramIsWellFormed
  <2>2. isInterface(t) <=> ~isClass(t)
    BY <2>1 DEF IsProgram, isClass, isInterface, Types
  <2>3. Range(Supertypes(t)) = Range(SuperClasses(t)) \cup Range(SuperInterfaces(t))
    BY SupertypesAreTypes, RangeConcatenation DEF Supertypes
  <2>4. Range(<< >>) = {}
    BY DEF Range
  <2>5. isInterface(t) => Range(SuperClasses(t)) = {}
    BY <2>2, <2>4 DEF SuperClasses
  <2>6. \A s \in Range(SuperInterfaces(t)) : isInterface(s)
    BY DEF ProperExtends
  <2>7. QED
    BY <2>2, <2>3, <2>5, <2>6 DEF Kin
<1>2. ASSUME NEW i \in S, isInterface(i)
      PROVE  \E t \in S : Range(Supertypes(t)) \cap S = {}
  <2> DEFINE T == {t \in S : isInterface(t)}
  <2>1. T \in SUBSET Types /\ i \in T
    BY <1>2
  <2>2. PICK s \in T : Kin(s) \cap T = {}
    BY <2>1 DEF NoCycleAbove
  <2>3. Range(Supertypes(s)) = Kin(s) /\ \A k \in Kin(s) : isInterface(k)
    BY <1>1, <2>2
  <2>4. QED
    BY <2>2, <2>3
<1>3. CASE \A t \in S : ~isInterface(t)
  <2>1. PICK s \in S : Kin(s) \cap S = {}
    BY DEF NoCycleAbove
  <2>2. Range(Supertypes(s)) \cap S = {}
    BY <1>1, <1>3, <2>1
  <2>3. QED
    BY <2>2
<1>4. QED
  BY <1>2, <1>3
-----------------------------------------------------------------------------
(***************************************************************************)
(* The search.                                                             *)
(***************************************************************************)
\* What each call has learnt of the kin it has been through.
KinDone(frame) ==
  \A j \in 1..KinCount(frame.type) :
    j < frame.next => NoCycleAbove(Supertypes(frame.type)[j])

\* Each call was made for the supertype its caller is at.
IsChain(frames) ==
  \A n \in 1..(Len(frames) - 1) :
    /\ frames[n].next \in DOMAIN Supertypes(frames[n].type)
    /\ Supertypes(frames[n].type)[frames[n].next] = frames[n + 1].type

IsCall(frames) ==
  /\ frames \in Seq(FrameSet) /\ frames # << >>
  /\ frames[1].type = current
  /\ IsChain(frames)
  /\ \A n \in 1..Len(frames) : KinDone(frames[n])

\* What has left the search has no cycle above it, and what is in it and not
\* on the stack was left behind by a cycle.
Searched(seen, open, frames) ==
  /\ seen \subseteq Types
  /\ \A t \in seen \ open : NoCycleAbove(t)
  /\ \A t \in open : ~Acyclic \/ \E n \in 1..Len(frames) : frames[n].type = t

\* The state of the search, as values: what is known of them stays known.
InSearch ==
  \E seen, open, frames :
    /\ seen = visited /\ open = inStack /\ frames = stack
    /\ IsCall(frames) /\ Searched(seen, open, frames)

\* The types that have passed checkAcyclic.
Passed == (Types \ unchecked) \ (IF pc = "acyclic" THEN {current} ELSE {})

SearchInv ==
  /\ program \in DOMAIN ProgramOf
  /\ unchecked \subseteq Types
  /\ pc = "acyclic" => InSearch /\ current \in Types
  /\ pc \notin {"refused", "cyclic"} =>
       /\ \A t \in Types \ unchecked : ProperExtends(t)
       /\ \A t \in Passed : NoCycleAbove(t)
  /\ pc = "duplicates" => NoCycleAbove(current)
  /\ pc = "cyclic" => ~Acyclic
  /\ pc = "accepted" => unchecked = {}
-----------------------------------------------------------------------------
\* A frame's type and its supertypes are types.
LEMMA FrameTypes ==
  ASSUME program \in DOMAIN ProgramOf, NEW frames \in Seq(FrameSet)
  PROVE  \A n \in 1..Len(frames) :
           /\ frames[n] \in FrameSet /\ frames[n].type \in Types
           /\ frames[n].next \in Nat \ {0}
           /\ \A j \in DOMAIN Supertypes(frames[n].type) :
                Supertypes(frames[n].type)[j] \in Types
<1> SUFFICES ASSUME NEW n \in 1..Len(frames)
             PROVE  /\ frames[n] \in FrameSet /\ frames[n].type \in Types
                    /\ frames[n].next \in Nat \ {0}
                    /\ \A j \in DOMAIN Supertypes(frames[n].type) :
                         Supertypes(frames[n].type)[j] \in Types
  OBVIOUS
<1>1. frames[n] \in FrameSet
  OBVIOUS
<1>2. frames[n].type \in Types /\ frames[n].next \in Nat \ {0}
  BY <1>1 DEF FrameSet
<1>3. Supertypes(frames[n].type) \in Seq(Types)
  BY <1>2, SupertypesAreTypes
<1>4. QED
  BY <1>1, <1>2, <1>3

\* A call returns: its caller is one supertype further.
LEMMA ReturnedFrames ==
  ASSUME NEW S, NEW frames \in Seq([type : S, next : Nat \ {0}]), Len(frames) > 1
  PROVE  LET r == Returned(frames)
             k == Len(frames) - 1
         IN  /\ r \in Seq([type : S, next : Nat \ {0}]) /\ Len(r) = k /\ r # << >>
             /\ \A j \in 1..(k - 1) : r[j] = frames[j]
             /\ r[k].type = frames[k].type /\ r[k].next = frames[k].next + 1
<1> DEFINE F == [type : S, next : Nat \ {0}]
           k == Len(frames) - 1
<1>1. k \in Nat /\ k >= 1 /\ Len(frames) = k + 1
  OBVIOUS
<1>2. \A j \in 1..k : frames[j] \in F
  <2>1. frames \in Seq(F) /\ \A j \in 1..k : j \in 1..Len(frames)
    BY <1>1
  <2> HIDE DEF F, k
  <2>2. QED
    BY <2>1, ElementOfSeq
<1>3. PICK f : /\ f = Front(frames)
               /\ f \in Seq(F) /\ Len(f) = k /\ \A j \in 1..k : f[j] = frames[j]
  <2>1. 1 \in Int /\ k \in Int /\ k - 1 + 1 = k
    BY <1>1
  <2>2. /\ SubSeq(frames, 1, k) \in Seq(F)
        /\ Len(SubSeq(frames, 1, k)) = k
        /\ \A j \in 1..k : SubSeq(frames, 1, k)[j] = frames[j]
    <3>1. /\ SubSeq(frames, 1, k) \in Seq(F)
          /\ Len(SubSeq(frames, 1, k)) = IF 1 <= k THEN k - 1 + 1 ELSE 0
          /\ \A j \in 1..(k - 1 + 1) : SubSeq(frames, 1, k)[j] = frames[1 + j - 1]
      <4> HIDE DEF F, k
      <4> QED
        BY <1>2, <2>1, SubSeqProperties
    <3> HIDE DEF F, k
    <3>2. \A j \in 1..k : 1 + j - 1 = j
      BY <1>1
    <3>3. QED
      BY <1>1, <2>1, <3>1, <3>2
  <2>3. QED
    BY <2>2 DEF Front
<1> HIDE DEF k
<1>4. f[k] \in F /\ k \in DOMAIN f
  BY <1>1, <1>2, <1>3
<1> DEFINE g == [f[k] EXCEPT !.next = @ + 1]
           r == [f EXCEPT ![k].next = @ + 1]
<1>5. g \in F /\ g.type = f[k].type /\ g.next = f[k].next + 1
  BY <1>4
<1>6. r = [f EXCEPT ![k] = g]
  OBVIOUS
<1> HIDE DEF F, g, r
<1>7. /\ r \in Seq(F) /\ Len(r) = k
      /\ \A j \in 1..(k - 1) : r[j] = f[j]
      /\ r[k] = g
  BY <1>1, <1>3, <1>4, <1>5, <1>6
<1>8. \A j \in 1..(k - 1) : r[j] = frames[j]
  BY <1>1, <1>3, <1>7
<1>9. f[k] = frames[k]
  BY <1>1, <1>3
<1>10. Returned(frames) = r
  BY <1>1, <1>3 DEF Returned, r, k
<1>11. r # << >>
  BY <1>1, <1>7
<1>12. QED
  BY <1>5, <1>7, <1>8, <1>9, <1>10, <1>11 DEF F, k

\* Returning from a call about whose type enough is known keeps a stack a
\* stack of calls.
LEMMA ReturnKeepsCall ==
  ASSUME program \in DOMAIN ProgramOf,
         NEW frames, IsCall(frames), Len(frames) > 1,
         LET caller == frames[Len(frames) - 1]
         IN  \/ caller.next > KinCount(caller.type)
             \/ NoCycleAbove(frames[Len(frames)].type)
  PROVE  IsCall(Returned(frames))
<1> DEFINE k == Len(frames) - 1
<1>1. frames \in Seq(FrameSet) /\ frames[1].type = current /\ IsChain(frames)
      /\ \A n \in 1..Len(frames) : KinDone(frames[n])
  BY DEF IsCall
<1>2. k \in Nat /\ k >= 1 /\ Len(frames) = k + 1
  BY <1>1
<1>3. PICK r : /\ r = Returned(frames)
               /\ r \in Seq(FrameSet) /\ Len(r) = k /\ r # << >>
               /\ \A j \in 1..(k - 1) : r[j] = frames[j]
               /\ r[k].type = frames[k].type /\ r[k].next = frames[k].next + 1
  BY <1>1, ReturnedFrames DEF FrameSet
<1> HIDE DEF k
<1>4. \A n \in 1..k : r[n].type = frames[n].type
  BY <1>2, <1>3
<1>5. r[1].type = current
  BY <1>1, <1>2, <1>4
<1>6. IsChain(r)
  <2> SUFFICES ASSUME NEW n \in 1..(k - 1)
               PROVE  /\ r[n].next \in DOMAIN Supertypes(r[n].type)
                      /\ Supertypes(r[n].type)[r[n].next] = r[n + 1].type
    BY <1>3 DEF IsChain
  <2>1. r[n] = frames[n] /\ n \in 1..(Len(frames) - 1) /\ n + 1 \in 1..k
    BY <1>2, <1>3
  <2>2. r[n + 1].type = frames[n + 1].type
    BY <1>4, <2>1
  <2>3. QED
    BY <1>1, <2>1, <2>2 DEF IsChain
<1>7. ASSUME NEW n \in 1..k
      PROVE  KinDone(r[n])
  <2>1. CASE n # k
    <3>1. r[n] = frames[n] /\ n \in 1..Len(frames)
      BY <1>2, <1>3, <2>1
    <3>2. QED
      BY <1>1, <3>1
  <2>2. CASE n = k
    <3>1. k \in 1..Len(frames) /\ k \in 1..(Len(frames) - 1)
      BY <1>2
    <3>2. KinDone(frames[k])
      BY <1>1, <3>1
    <3>3. Supertypes(frames[k].type)[frames[k].next] = frames[k + 1].type
      BY <1>1, <3>1 DEF IsChain
    <3>4. \/ frames[k].next > KinCount(frames[k].type)
          \/ NoCycleAbove(frames[k + 1].type)
      BY <1>2 DEF k
    <3>5. frames[k].next \in Nat /\ frames[k].type \in Types
      BY <1>1, <3>1, FrameTypes
    <3>6. KinCount(frames[k].type) \in Nat
      BY <3>5, KinComeFirst
    <3>7. ASSUME NEW j \in 1..KinCount(frames[k].type), j < frames[k].next + 1
          PROVE  NoCycleAbove(Supertypes(frames[k].type)[j])
      <4>1. CASE j < frames[k].next
        BY <3>2, <4>1 DEF KinDone
      <4>2. CASE j = frames[k].next
        BY <3>3, <3>4, <3>5, <3>6, <4>2
      <4>3. QED
        BY <3>5, <3>6, <3>7, <4>1, <4>2
    <3>8. QED
      BY <1>3, <2>2, <3>7 DEF KinDone
  <2>3. QED
    BY <2>1, <2>2
<1>8. QED
  BY <1>3, <1>5, <1>6, <1>7 DEF IsCall

\* What an operator of the program says does not change with the search.
LEMMA ProgramIsFixed ==
  ASSUME [Next]_vars
  PROVE  program' = program
BY DEF Next, vars, CheckDecl, Accept, Descend, Skip, MeetCycle, EndSupertypes,
       CheckDuplicateSignatures, PassOver, InheritFrom, AddOwnMethod, EndInherited, CheckOverrides

LEMMA SameProgram ==
  ASSUME program' = program
  PROVE  /\ Types' = Types /\ FrameSet' = FrameSet /\ (Acyclic' <=> Acyclic)
         /\ \A t : /\ Supertypes(t)' = Supertypes(t) /\ KinCount(t)' = KinCount(t)
                   /\ ProperExtends(t)' <=> ProperExtends(t)
                   /\ NoCycleAbove(t)' <=> NoCycleAbove(t)
         /\ \A frame : KinDone(frame)' <=> KinDone(frame)
         /\ \A frames : IsChain(frames)' <=> IsChain(frames)
BY DEF Types, p, FrameSet, Acyclic, Supertypes, SuperClasses, SuperInterfaces, isClass,
       isInterface, KinCount, ProperExtends, NoCycleAbove, Kin, KinDone, IsChain
-----------------------------------------------------------------------------
\* The top of a stack of calls, and the supertype it is at.
LEMMA TopFrame ==
  ASSUME program \in DOMAIN ProgramOf, IsCall(stack)
  PROVE  /\ Len(stack) \in Nat \ {0} /\ DOMAIN stack = 1..Len(stack)
         /\ Top = stack[Len(stack)] /\ Top \in FrameSet
         /\ Top.type \in Types /\ Top.next \in Nat \ {0} /\ KinDone(Top)
         /\ Supertypes(Top.type) \in Seq(Types)
         /\ KinCount(Top.type) \in Nat /\ KinCount(Top.type) <= Len(Supertypes(Top.type))
         /\ AtSupertype => Supertype \in Types
<1>1. stack \in Seq(FrameSet) /\ stack # << >> /\ \A n \in 1..Len(stack) : KinDone(stack[n])
  BY DEF IsCall
<1>2. Len(stack) \in Nat \ {0} /\ DOMAIN stack = 1..Len(stack) /\ Len(stack) \in 1..Len(stack)
  BY <1>1
<1>3. Top = stack[Len(stack)]
  BY DEF Top, Last
<1>4. Top \in FrameSet /\ Top.type \in Types /\ Top.next \in Nat \ {0} /\ KinDone(Top)
  BY <1>1, <1>2, <1>3, FrameTypes
<1>5. Supertypes(Top.type) \in Seq(Types)
  BY <1>4, SupertypesAreTypes
<1>6. AtSupertype => Supertype \in Types
  BY <1>5 DEF AtSupertype, Supertype
<1>7. KinCount(Top.type) \in Nat /\ KinCount(Top.type) <= Len(Supertypes(Top.type))
  BY <1>4, KinComeFirst
<1>8. QED
  BY <1>2, <1>3, <1>4, <1>5, <1>6, <1>7

\* A call for a supertype met for the first time.
LEMMA DescendKeepsCall ==
  ASSUME program \in DOMAIN ProgramOf, IsCall(stack), AtSupertype
  PROVE  /\ IsCall(Append(stack, Frame(Supertype)))
         /\ Len(Append(stack, Frame(Supertype))) = Len(stack) + 1
         /\ \A n \in 1..Len(stack) : Append(stack, Frame(Supertype))[n] = stack[n]
         /\ Append(stack, Frame(Supertype))[Len(stack) + 1] = Frame(Supertype)
<1> DEFINE f == Frame(Supertype)
<1>1. /\ stack \in Seq(FrameSet) /\ stack[1].type = current
      /\ IsChain(stack) /\ \A n \in 1..Len(stack) : KinDone(stack[n])
  BY DEF IsCall
<1>2. Len(stack) \in Nat \ {0} /\ Supertype \in Types /\ Top = stack[Len(stack)]
  BY TopFrame
<1>3. f \in FrameSet /\ f.type = Supertype /\ f.next = 1
  BY <1>2 DEF FrameSet, Frame
<1>4. KinDone(f)
  <2>1. KinCount(f.type) \in Nat
    BY <1>2, <1>3, KinComeFirst
  <2>2. QED
    BY <1>3, <2>1 DEF KinDone
<1> HIDE DEF f
<1>5. PICK r : /\ r = Append(stack, f) /\ r \in Seq(FrameSet) /\ Len(r) = Len(stack) + 1
               /\ \A n \in 1..Len(stack) : r[n] = stack[n]
               /\ r[Len(stack) + 1] = f
  <2>1. /\ Append(stack, f) \in Seq(FrameSet)
        /\ Len(Append(stack, f)) = Len(stack) + 1
        /\ \A n \in 1..Len(stack) : Append(stack, f)[n] = stack[n]
        /\ Append(stack, f)[Len(stack) + 1] = f
    BY <1>1, <1>2, <1>3
  <2>2. QED
    BY <2>1
<1>6. r # << >> /\ r[1].type = current
  BY <1>1, <1>2, <1>5
<1>7. IsChain(r)
  <2> SUFFICES ASSUME NEW n \in 1..Len(stack)
               PROVE  /\ r[n].next \in DOMAIN Supertypes(r[n].type)
                      /\ Supertypes(r[n].type)[r[n].next] = r[n + 1].type
    BY <1>2, <1>5 DEF IsChain
  <2>1. CASE n = Len(stack)
    BY <1>2, <1>3, <1>5, <2>1 DEF AtSupertype, Supertype
  <2>2. CASE n # Len(stack)
    <3>1. n \in 1..(Len(stack) - 1) /\ r[n] = stack[n] /\ r[n + 1] = stack[n + 1]
      BY <1>2, <1>5, <2>2
    <3>2. QED
      BY <1>1, <3>1 DEF IsChain
  <2>3. QED
    BY <2>1, <2>2
<1>8. \A n \in 1..Len(r) : KinDone(r[n])
  <2>1. \A n \in 1..Len(r) : n \in 1..Len(stack) \/ n = Len(stack) + 1
    BY <1>2, <1>5
  <2>2. QED
    BY <1>1, <1>4, <1>5, <2>1
<1>9. QED
  BY <1>5, <1>6, <1>7, <1>8 DEF IsCall, f

\* A supertype that has left the search is passed over.
LEMMA SkipKeepsCall ==
  ASSUME program \in DOMAIN ProgramOf, IsCall(stack), AtSupertype, NoCycleAbove(Supertype),
         NEW r, r = [stack EXCEPT ![Len(stack)].next = @ + 1]
  PROVE  IsCall(r) /\ Len(r) = Len(stack) /\ \A n \in 1..Len(stack) : r[n].type = stack[n].type
<1> DEFINE k == Len(stack)
           g == [stack[k] EXCEPT !.next = @ + 1]
<1>1. /\ stack \in Seq(FrameSet) /\ stack[1].type = current
      /\ IsChain(stack) /\ \A n \in 1..k : KinDone(stack[n])
  BY DEF IsCall
<1>2. /\ k \in Nat \ {0} /\ Top = stack[k] /\ stack[k] \in FrameSet
      /\ stack[k].next \in Nat \ {0} /\ stack[k].type \in Types /\ KinDone(stack[k])
      /\ KinCount(stack[k].type) \in Nat
  BY TopFrame
<1>3. g \in FrameSet /\ g.type = stack[k].type /\ g.next = stack[k].next + 1
  BY <1>2 DEF FrameSet
<1>4. r = [stack EXCEPT ![k] = g]
  OBVIOUS
<1>5. Supertype = Supertypes(stack[k].type)[stack[k].next]
  BY <1>2 DEF Supertype
<1> HIDE DEF g, k
<1>6. Len(stack) = k
  BY DEF k
<1>7. /\ r \in Seq(FrameSet) /\ Len(r) = k /\ r # << >>
      /\ \A n \in 1..(k - 1) : r[n] = stack[n]
      /\ r[k] = g
  BY <1>1, <1>2, <1>3, <1>4, <1>6
<1>8. \A n \in 1..k : r[n].type = stack[n].type
  BY <1>2, <1>3, <1>7
<1>9. IsChain(r)
  <2> SUFFICES ASSUME NEW n \in 1..(k - 1)
               PROVE  /\ r[n].next \in DOMAIN Supertypes(r[n].type)
                      /\ Supertypes(r[n].type)[r[n].next] = r[n + 1].type
    BY <1>7 DEF IsChain
  <2>1. r[n] = stack[n] /\ n + 1 \in 1..k
    BY <1>2, <1>7
  <2>2. QED
    BY <1>1, <1>6, <1>8, <2>1 DEF IsChain
<1>10. KinDone(g)
  <2> SUFFICES ASSUME NEW j \in 1..KinCount(stack[k].type), j < stack[k].next + 1
               PROVE  NoCycleAbove(Supertypes(stack[k].type)[j])
    BY <1>3 DEF KinDone
  <2>1. CASE j < stack[k].next
    BY <1>2, <2>1 DEF KinDone
  <2>2. CASE j = stack[k].next
    BY <1>5, <2>2
  <2>3. QED
    BY <1>2, <2>1, <2>2
<1>11. \A n \in 1..k : KinDone(r[n])
  <2>1. \A n \in 1..k : n = k \/ n \in 1..(k - 1)
    BY <1>2
  <2>2. QED
    BY <1>1, <1>7, <1>10, <2>1
<1>12. r[1].type = current
  BY <1>1, <1>2, <1>8
<1>13. QED
  BY <1>6, <1>7, <1>8, <1>9, <1>11, <1>12 DEF IsCall

\* The calls a returning call leaves behind are calls.
LEMMA InitialCalls ==
  ASSUME program \in DOMAIN ProgramOf, IsCall(stack), NEW n \in 1..(Len(stack) - 1)
  PROVE  /\ IsCall(SubSeq(stack, 1, n + 1)) /\ Len(SubSeq(stack, 1, n + 1)) = n + 1
         /\ \A j \in 1..(n + 1) : SubSeq(stack, 1, n + 1)[j] = stack[j]
<1>1. /\ stack \in Seq(FrameSet) /\ stack[1].type = current /\ IsChain(stack)
      /\ \A j \in 1..Len(stack) : KinDone(stack[j])
  BY DEF IsCall
<1>2. /\ Len(stack) \in Nat /\ n \in Nat /\ n >= 1 /\ n + 1 <= Len(stack)
      /\ 1 \in Int /\ n + 1 \in Int /\ n + 1 - 1 + 1 = n + 1
      /\ \A j \in 1..(n + 1) : j \in 1..Len(stack) /\ 1 + j - 1 = j
  BY <1>1
<1>3. \A j \in 1..(n + 1) : stack[j] \in FrameSet
  BY <1>1, <1>2, ElementOfSeq
<1>4. /\ SubSeq(stack, 1, n + 1) \in Seq(FrameSet)
      /\ Len(SubSeq(stack, 1, n + 1)) = IF 1 <= n + 1 THEN n + 1 - 1 + 1 ELSE 0
      /\ \A j \in 1..(n + 1 - 1 + 1) : SubSeq(stack, 1, n + 1)[j] = stack[1 + j - 1]
  BY <1>2, <1>3, SubSeqProperties
<1>5. PICK r : /\ r = SubSeq(stack, 1, n + 1) /\ r \in Seq(FrameSet) /\ Len(r) = n + 1
               /\ \A j \in 1..(n + 1) : r[j] = stack[j]
  <2>1. Len(SubSeq(stack, 1, n + 1)) = n + 1
    BY <1>2, <1>4
  <2>2. \A j \in 1..(n + 1) : SubSeq(stack, 1, n + 1)[j] = stack[j]
    BY <1>2, <1>4
  <2>3. QED
    BY <1>4, <2>1, <2>2
<1>6. IsChain(r)
  <2>1. \A j \in 1..n : j \in 1..(Len(stack) - 1) /\ j \in 1..(n + 1) /\ j + 1 \in 1..(n + 1)
    BY <1>2
  <2>2. Len(r) - 1 = n
    BY <1>2, <1>5
  <2>3. QED
    BY <1>1, <1>5, <2>1, <2>2 DEF IsChain
<1>7. r # << >> /\ r[1].type = current /\ \A j \in 1..(n + 1) : KinDone(r[j])
  BY <1>1, <1>2, <1>5
<1>8. QED
  BY <1>5, <1>6, <1>7 DEF IsCall

\* A supertype that is in the search and still on the stack closes a cycle.
LEMMA MetAgain ==
  ASSUME program \in DOMAIN ProgramOf, IsCall(stack), Searched(visited, inStack, stack),
         AtSupertype, Supertype \in inStack
  PROVE  ~Acyclic
<1>1. CASE ~Acyclic
  BY <1>1
<1>2. ASSUME NEW n \in 1..Len(stack), stack[n].type = Supertype
      PROVE  ~Acyclic
  <2> DEFINE S == {stack[j].type : j \in n..Len(stack)}
  <2>1. stack \in Seq(FrameSet) /\ IsChain(stack)
    BY DEF IsCall
  <2>2. Len(stack) \in Nat \ {0} /\ Top = stack[Len(stack)]
    BY TopFrame
  <2>3. \A j \in n..Len(stack) : j \in 1..Len(stack) /\ stack[j].type \in Types
    BY <2>1, <2>2, FrameTypes
  <2>4. S \in SUBSET Types /\ S # {}
    <3>1. n \in n..Len(stack)
      BY <2>2
    <3>2. QED
      BY <2>3, <3>1
  <2>5. ASSUME NEW j \in n..Len(stack)
        PROVE  Range(Supertypes(stack[j].type)) \cap S # {}
    <3>1. CASE j = Len(stack)
      <4>1. Supertype \in Range(Supertypes(stack[j].type))
        BY <2>2, <3>1 DEF AtSupertype, Supertype, Range
      <4>2. Supertype \in S
        BY <1>2, <2>2
      <4>3. QED
        BY <4>1, <4>2
    <3>2. CASE j # Len(stack)
      <4>1. j \in 1..(Len(stack) - 1) /\ j + 1 \in n..Len(stack)
        BY <2>2, <3>2
      <4>2. stack[j + 1].type \in Range(Supertypes(stack[j].type))
        BY <2>1, <4>1 DEF IsChain, Range
      <4>3. stack[j + 1].type \in S
        BY <4>1
      <4>4. QED
        BY <4>2, <4>3
    <3>3. QED
      BY <3>1, <3>2
  <2>6. \A t \in S : Range(Supertypes(t)) \cap S # {}
    BY <2>5
  <2>7. QED
    BY <2>4, <2>6 DEF Acyclic
<1>3. QED
  BY <1>1, <1>2 DEF Searched
-----------------------------------------------------------------------------
LEMMA InitEstablishesSearchInv == Init => SearchInv
BY DEF Init, SearchInv, Passed

\* What the steps outside the search need: they leave what has passed alone.
LEMMA KeepsPassed ==
  ASSUME SearchInv, program' = program, unchecked' = unchecked, current' = current,
         pc \notin {"acyclic", "refused", "cyclic"},
         pc' \notin {"acyclic", "duplicates", "cyclic"}, pc' = "accepted" => unchecked = {}
  PROVE  SearchInv'
<1>1. Passed' = Passed
  BY DEF Passed, Types, p
<1>2. QED
  BY <1>1, SameProgram DEF SearchInv

LEMMA StepKeepsSearchInv == SearchInv /\ [Next]_vars => SearchInv'
<1> SUFFICES ASSUME SearchInv, [Next]_vars
             PROVE  SearchInv'
  OBVIOUS
<1>1. program' = program /\ program \in DOMAIN ProgramOf
  BY ProgramIsFixed DEF SearchInv
<1>2. /\ Types' = Types /\ FrameSet' = FrameSet /\ (Acyclic' <=> Acyclic)
      /\ \A t : /\ ProperExtends(t)' <=> ProperExtends(t)
                /\ NoCycleAbove(t)' <=> NoCycleAbove(t)
      /\ \A frame : KinDone(frame)' <=> KinDone(frame)
      /\ \A frames : IsChain(frames)' <=> IsChain(frames)
  BY <1>1, SameProgram
<1>3. \A frames : current' = current => (IsCall(frames)' <=> IsCall(frames))
  BY <1>2 DEF IsCall
<1>4. \A seen, open, frames :
        Searched(seen, open, frames)' <=> Searched(seen, open, frames)
  BY <1>2 DEF Searched
<1>5. CASE CheckDecl
  <2>1. PICK t \in unchecked :
          /\ unchecked' = unchecked \ {t} /\ current' = t
          /\ \/ /\ ProperExtends(t) /\ pc' = "acyclic" /\ stack' = <<Frame(t)>>
                /\ visited' = {t} /\ inStack' = {t}
             \/ pc' = "refused"
    BY <1>5 DEF CheckDecl
  <2>2. pc = "next" /\ t \in Types
    BY <1>5 DEF CheckDecl, SearchInv
  <2>3. CASE pc' = "refused"
    BY <1>1, <1>2, <2>1, <2>3 DEF SearchInv
  <2>4. CASE pc' = "acyclic"
    <3>1. PICK r : r = <<Frame(t)>> /\ r \in Seq(FrameSet) /\ Len(r) = 1 /\ r[1] = Frame(t)
      <4>1. Frame(t) \in FrameSet
        BY <2>2 DEF Frame, FrameSet
      <4>2. /\ <<Frame(t)>> \in Seq(FrameSet) /\ Len(<<Frame(t)>>) = 1
            /\ <<Frame(t)>>[1] = Frame(t)
        BY <4>1
      <4>3. QED
        BY <4>2
    <3>2. r[1].type = t /\ r[1].next = 1
      BY <3>1 DEF Frame
    <3>3. KinDone(r[1])
      <4>1. KinCount(t) \in Nat
        BY <1>1, <2>2, KinComeFirst
      <4>2. QED
        BY <3>2, <4>1 DEF KinDone
    <3>4. IsChain(r)
      BY <3>1 DEF IsChain
    <3>5. IsCall(r)'
      BY <1>2, <2>1, <3>1, <3>2, <3>3, <3>4 DEF IsCall
    <3>6. Searched({t}, {t}, r)
      BY <2>2, <3>1, <3>2 DEF Searched
    <3>7. stack' = r /\ visited' = {t} /\ inStack' = {t} /\ ProperExtends(t)
      BY <2>1, <2>4, <3>1
    <3>8. InSearch'
      BY <1>4, <3>5, <3>6, <3>7 DEF InSearch
    <3>9. \A u \in Types \ unchecked' : ProperExtends(u)
      BY <2>1, <2>2, <3>7 DEF SearchInv
    <3>10. Passed' \subseteq Passed
      BY <1>2, <2>1, <2>2, <2>4 DEF Passed
    <3>11. QED
      BY <1>1, <1>2, <2>1, <2>2, <2>4, <3>8, <3>9, <3>10 DEF SearchInv
  <2>5. QED
    BY <2>1, <2>3, <2>4
<1>6. CASE Accept
  BY <1>1, <1>6, KeepsPassed DEF Accept
<1>7. ASSUME pc = "acyclic"
      PROVE  IsCall(stack) /\ Searched(visited, inStack, stack) /\ current \in Types
  BY <1>7 DEF SearchInv, InSearch
\* A step of the search that leaves it in progress.
<1>8. ASSUME pc = "acyclic", pc' = "acyclic", unchecked' = unchecked, current' = current,
             IsCall(stack'), Searched(visited', inStack', stack')
      PROVE  SearchInv'
  <2>1. PICK seen, open, frames :
          /\ seen = visited' /\ open = inStack' /\ frames = stack'
          /\ IsCall(frames) /\ Searched(seen, open, frames)
    BY <1>8
  <2>2. IsCall(frames)' /\ Searched(seen, open, frames)'
    BY <1>3, <1>4, <1>8, <2>1
  <2>3. InSearch'
    BY <2>1, <2>2 DEF InSearch
  <2>4. Passed' = Passed
    BY <1>2, <1>8 DEF Passed
  <2>5. QED
    BY <1>1, <1>2, <1>7, <1>8, <2>3, <2>4 DEF SearchInv
<1>9. CASE Descend
  <2>1. /\ AtSupertype /\ pc = "acyclic" /\ pc' = "acyclic"
        /\ unchecked' = unchecked /\ current' = current
        /\ stack' = Append(stack, Frame(Supertype))
        /\ visited' = visited \cup {Supertype} /\ inStack' = inStack \cup {Supertype}
    BY <1>9 DEF Descend, AtSupertype
  <2>2. PICK r : /\ r = stack' /\ IsCall(r) /\ Len(r) = Len(stack) + 1
                 /\ \A n \in 1..Len(stack) : r[n] = stack[n]
                 /\ r[Len(stack) + 1] = Frame(Supertype)
    BY <1>1, <1>7, <2>1, DescendKeepsCall
  <2>3. Len(stack) \in Nat \ {0} /\ Supertype \in Types
    BY <1>1, <1>7, <2>1, TopFrame
  <2>4. r[Len(stack) + 1].type = Supertype
    BY <2>2 DEF Frame
  <2>5. Searched(visited', inStack', r)
    BY <1>7, <2>1, <2>2, <2>3, <2>4 DEF Searched
  <2>6. QED
    BY <1>8, <2>1, <2>2, <2>5
<1>10. CASE Skip
  <2>1. /\ AtSupertype /\ Supertype \in visited \ inStack
        /\ pc = "acyclic" /\ pc' = "acyclic" /\ unchecked' = unchecked /\ current' = current
        /\ stack' = [stack EXCEPT ![Len(stack)].next = @ + 1]
        /\ visited' = visited /\ inStack' = inStack
    BY <1>10 DEF Skip, AtSupertype, search
  <2>2. NoCycleAbove(Supertype)
    BY <1>7, <2>1 DEF Searched
  <2>3. PICK r : r = stack' /\ r = [stack EXCEPT ![Len(stack)].next = @ + 1]
    BY <2>1
  <2>4. IsCall(r) /\ Len(r) = Len(stack) /\ \A n \in 1..Len(stack) : r[n].type = stack[n].type
    BY <1>1, <1>7, <2>1, <2>2, <2>3, SkipKeepsCall
  <2>5. Searched(visited', inStack', r)
    BY <1>7, <2>1, <2>4 DEF Searched
  <2>6. QED
    BY <1>8, <2>1, <2>3, <2>4, <2>5
<1>11. CASE MeetCycle
  <2>1. /\ AtSupertype /\ Supertype \in inStack /\ pc = "acyclic"
        /\ unchecked' = unchecked /\ current' = current
        /\ visited' = visited /\ inStack' = inStack
    BY <1>11 DEF MeetCycle, AtSupertype, search
  <2>2. ~Acyclic
    BY <1>1, <1>7, <2>1, MetAgain
  <2>3. CASE pc' = "cyclic"
    BY <1>1, <1>2, <2>1, <2>2, <2>3 DEF SearchInv
  <2>4. ASSUME NEW n \in 1..(Len(stack) - 1), Ignores(stack[n]), pc' = pc,
               stack' = Returned(SubSeq(stack, 1, n + 1))
        PROVE  SearchInv'
    <3>1. /\ IsCall(SubSeq(stack, 1, n + 1)) /\ Len(SubSeq(stack, 1, n + 1)) = n + 1
          /\ \A j \in 1..(n + 1) : SubSeq(stack, 1, n + 1)[j] = stack[j]
      BY <1>1, <1>7, <2>1, InitialCalls
    <3>2. stack[n].next > KinCount(stack[n].type)
      BY <2>4 DEF Ignores, KinCount
    <3>3. PICK frames : /\ frames = SubSeq(stack, 1, n + 1) /\ IsCall(frames)
                        /\ Len(frames) = n + 1 /\ frames[n] = stack[n]
      <4>1. n \in 1..(n + 1)
        BY <2>4
      <4>2. SubSeq(stack, 1, n + 1)[n] = stack[n]
        BY <3>1, <4>1
      <4>3. QED
        BY <3>1, <4>2
    <3>4. Len(frames) > 1 /\ Len(frames) - 1 = n
      BY <2>4, <3>3
    <3>5. IsCall(Returned(frames))
      BY <1>1, <3>2, <3>3, <3>4, ReturnKeepsCall
    <3>6. Searched(visited', inStack', stack')
      BY <1>7, <2>1, <2>2 DEF Searched
    <3>7. QED
      BY <1>8, <2>1, <2>4, <3>3, <3>5, <3>6
  <2>5. QED
    BY <1>11, <2>3, <2>4 DEF MeetCycle
<1>12. CASE EndSupertypes
  <2>1. /\ pc = "acyclic" /\ Top.next \notin DOMAIN Supertypes(Top.type)
        /\ unchecked' = unchecked /\ current' = current
        /\ visited' = visited /\ inStack' = inStack \ {Top.type}
        /\ stack' = Returned(stack)
        /\ pc' = IF Len(stack) = 1 THEN "duplicates" ELSE pc
    BY <1>12 DEF EndSupertypes, LeaveStack
  <2>2. /\ Len(stack) \in Nat \ {0} /\ Top = stack[Len(stack)] /\ Top.type \in Types
        /\ Top.next \in Nat \ {0} /\ KinDone(Top) /\ Supertypes(Top.type) \in Seq(Types)
        /\ KinCount(Top.type) \in Nat /\ KinCount(Top.type) <= Len(Supertypes(Top.type))
    BY <1>1, <1>7, <2>1, TopFrame
  <2>3. NoCycleAbove(Top.type)
    <3>1. Top.next > Len(Supertypes(Top.type))
      BY <2>1, <2>2
    <3>2. \A j \in 1..KinCount(Top.type) : j < Top.next
      BY <2>2, <3>1
    <3>3. \A j \in 1..KinCount(Top.type) : NoCycleAbove(Supertypes(Top.type)[j])
      BY <2>2, <3>2 DEF KinDone
    <3>4. /\ Kin(Top.type) \subseteq Types
          /\ Kin(Top.type) = {Supertypes(Top.type)[j] : j \in 1..KinCount(Top.type)}
      BY <1>1, <2>2, KinComeFirst
    <3>5. QED
      BY <2>2, <3>3, <3>4, NoCycleAboveFromKin
  <2>4. CASE Len(stack) = 1
    <3>1. Top.type = current /\ pc' = "duplicates"
      BY <1>7, <2>1, <2>2, <2>4 DEF IsCall
    <3>2. Passed' \subseteq Passed \cup {current}
      BY <1>2, <2>1, <3>1 DEF Passed
    <3>3. QED
      BY <1>1, <1>2, <2>1, <2>3, <3>1, <3>2 DEF SearchInv
  <2>5. CASE Len(stack) # 1
    <3>1. stack \in Seq(FrameSet) /\ Len(stack) > 1
      <4>1. stack \in Seq(FrameSet)
        BY <1>7, <2>1 DEF IsCall
      <4>2. Len(stack) \in Nat \ {0}
        BY <2>2
      <4>3. \A n \in Nat \ {0} : n # 1 => n > 1
        OBVIOUS
      <4>4. Len(stack) > 1
        BY <2>5, <4>2, <4>3
      <4>5. QED
        BY <4>1, <4>4
    <3>2. IsCall(Returned(stack))
      BY <1>1, <1>7, <2>1, <2>2, <2>3, <3>1, ReturnKeepsCall
    <3>3. /\ Len(Returned(stack)) = Len(stack) - 1
          /\ \A n \in 1..(Len(stack) - 1) : Returned(stack)[n].type = stack[n].type
      <4>1. LET r == Returned(stack)
                k == Len(stack) - 1
            IN  /\ Len(r) = k /\ \A j \in 1..(k - 1) : r[j] = stack[j]
                /\ r[k].type = stack[k].type
        BY <3>1, ReturnedFrames DEF FrameSet
      <4>2. \A n \in 1..(Len(stack) - 1) : n \in 1..(Len(stack) - 1 - 1) \/ n = Len(stack) - 1
        BY <2>2
      <4>3. QED
        BY <4>1, <4>2
    <3>4. Searched(visited, inStack \ {Top.type}, Returned(stack))
      <4>1. \A t \in visited \ (inStack \ {Top.type}) : NoCycleAbove(t)
        BY <1>7, <2>1, <2>3 DEF Searched
      <4>2. ASSUME NEW t \in inStack \ {Top.type}, Acyclic
            PROVE  \E n \in 1..Len(Returned(stack)) : Returned(stack)[n].type = t
        <5>1. PICK n \in 1..Len(stack) : stack[n].type = t
          BY <1>7, <2>1, <4>2 DEF Searched
        <5>2. n \in 1..(Len(stack) - 1)
          BY <2>2, <4>2, <5>1
        <5>3. QED
          BY <3>3, <5>1, <5>2
      <4>3. QED
        BY <1>7, <2>1, <4>1, <4>2 DEF Searched
    <3>5. QED
      BY <1>8, <2>1, <2>5, <3>2, <3>4
  <2>6. QED
    BY <2>4, <2>5
<1>13. CASE CheckDuplicateSignatures \/ PassOver \/ InheritFrom \/ AddOwnMethod \/ EndInherited
            \/ CheckOverrides
  BY <1>1, <1>13, KeepsPassed DEF CheckDuplicateSignatures, AtCandidate, PassOver,
     InheritFrom, AddOwnMethod, EndInherited, CheckOverrides
<1>14. CASE UNCHANGED vars
  <2>1. /\ unchecked' = unchecked /\ current' = current /\ pc' = pc /\ stack' = stack
        /\ visited' = visited /\ inStack' = inStack
    BY <1>14 DEF vars
  <2>2. CASE pc = "acyclic"
    BY <1>7, <1>8, <2>1, <2>2
  <2>3. CASE pc # "acyclic"
    <3>1. Passed' = Passed
      BY <1>2, <2>1 DEF Passed
    <3>2. QED
      BY <1>1, <1>2, <2>1, <2>3, <3>1 DEF SearchInv
  <2>4. QED
    BY <2>2, <2>3
<1>15. QED
  BY <1>5, <1>6, <1>9, <1>10, <1>11, <1>12, <1>13, <1>14 DEF Next
-----------------------------------------------------------------------------
LEMMA SearchInvIsInvariant == Spec => []SearchInv
<1>1. Init => SearchInv
  BY InitEstablishesSearchInv
<1>2. SearchInv /\ [Next]_vars => SearchInv'
  BY StepKeepsSearchInv
<1>3. QED
  BY <1>1, <1>2, PTL DEF Spec

-----------------------------------------------------------------------------
(***************************************************************************)
(* What a type inherits from.                                              *)
(***************************************************************************)
\* A type is a class or an interface.
LEMMA Kinds ==
  ASSUME program \in DOMAIN ProgramOf, NEW t \in Types
  PROVE  isInterface(t) <=> ~isClass(t)
BY ProgramIsWellFormed DEF IsProgram, isClass, isInterface, Types

LEMMA CandidatesAreTypes ==
  ASSUME program \in DOMAIN ProgramOf, NEW t \in Types
  PROVE  /\ Candidates(t) \in Seq(Types) /\ Len(Candidates(t)) \in Nat
         /\ DOMAIN Candidates(t) = 1..Len(Candidates(t))
         /\ \A j \in DOMAIN Candidates(t) : Candidates(t)[j] \in Types
         /\ Len(SuperInterfaces(t)) \in Nat
         /\ Parents(t) \subseteq Types
<1>1. SuperInterfaces(t) \in Seq(Types) /\ SuperClasses(t) \in Seq(Types)
  BY SupertypesAreTypes
<1>2. Candidates(t) \in Seq(Types) /\ Len(SuperInterfaces(t)) \in Nat
  BY <1>1 DEF Candidates
<1>3. /\ Len(Candidates(t)) \in Nat /\ DOMAIN Candidates(t) = 1..Len(Candidates(t))
      /\ \A j \in DOMAIN Candidates(t) : Candidates(t)[j] \in Types
  BY <1>2
<1>4. QED
  BY <1>2, <1>3 DEF Parents

LEMMA MethodsAreMethods ==
  ASSUME program \in DOMAIN ProgramOf, NEW t \in Types
  PROVE  /\ p[t].methods \in Seq(Method) /\ Len(p[t].methods) \in Nat
         /\ DOMAIN p[t].methods = 1..Len(p[t].methods)
         /\ Own(t) = {p[t].methods[k] : k \in DOMAIN p[t].methods}
         /\ \A m \in Own(t) : m \in Method
<1>1. p[t].methods \in Seq(Method)
  BY ProgramIsWellFormed DEF IsProgram, Types
<1>2. Own(t) = {p[t].methods[k] : k \in DOMAIN p[t].methods}
  BY DEF Own, Range
<1>3. QED
  BY <1>1, <1>2

\* An interface looks at interfaces only, and a class at one class at most,
\* after its interfaces.
LEMMA CandidateKinds ==
  ASSUME program \in DOMAIN ProgramOf, NEW t \in Types,
         NEW i \in DOMAIN Candidates(t), Follows(t, i)
  PROVE  /\ i <= Len(SuperInterfaces(t)) => isInterface(Candidates(t)[i])
         /\ i > Len(SuperInterfaces(t)) =>
              /\ isClass(t) /\ isClass(Candidates(t)[i])
              /\ Candidates(t)[i] \in Kin(t)
              /\ \A j \in DOMAIN Candidates(t) :
                   Follows(t, j) /\ j > Len(SuperInterfaces(t)) => j = i
<1> DEFINE si == SuperInterfaces(t)
           sc == SuperClasses(t)
<1>1. si \in Seq(Types) /\ sc \in Seq(Types)
  BY SupertypesAreTypes
<1>2. Candidates(t) = si \o sc
  BY DEF Candidates
<1> HIDE DEF si, sc
<1>3. /\ Len(si) \in Nat /\ Len(sc) \in Nat
      /\ DOMAIN Candidates(t) = 1..(Len(si) + Len(sc))
      /\ \A j \in (Len(si) + 1)..(Len(si) + Len(sc)) : Candidates(t)[j] = sc[j - Len(si)]
  BY <1>1, <1>2
<1>4. i <= Len(si) => isInterface(Candidates(t)[i])
  BY DEF Follows, si
<1>5. ASSUME NEW j \in DOMAIN Candidates(t), Follows(t, j), j > Len(si)
      PROVE  /\ isClass(t) /\ j = Len(si) + 1
             /\ isClass(Candidates(t)[j]) /\ Candidates(t)[j] \in Kin(t)
  <2>1. /\ j - Len(si) \in 1..Len(sc) /\ Candidates(t)[j] = sc[j - Len(si)]
        /\ j \in Nat
    BY <1>3, <1>5
  <2>2. isClass(Candidates(t)[j]) /\ Candidates(t)[j] # Object
    BY <1>5 DEF Follows, si
  <2>3. isClass(t) /\ t # Object /\ sc = Append(p[t].extends, Object)
    BY <2>1 DEF sc, SuperClasses
  <2>4. p[t].extends \in Seq(Types) /\ Len(p[t].extends) <= 1 /\ Len(p[t].extends) \in Nat
        /\ Object \in Types
    BY ProgramIsWellFormed DEF IsProgram, Types
  <2>5. Len(sc) = Len(p[t].extends) + 1 /\ sc[Len(p[t].extends) + 1] = Object
    BY <2>3, <2>4
  <2>6. j - Len(si) # Len(p[t].extends) + 1
    BY <2>1, <2>2, <2>5
  <2>7. j - Len(si) = 1
    BY <1>3, <2>1, <2>4, <2>5, <2>6
  <2>8. Candidates(t)[j] \in Kin(t)
    <3>1. sc[j - Len(si)] \in Range(sc)
      BY <1>1, <2>1 DEF Range
    <3>2. Kin(t) = Range(sc)
      BY <2>3 DEF Kin, sc
    <3>3. QED
      BY <2>1, <3>1, <3>2
  <2>9. QED
    BY <1>3, <2>1, <2>2, <2>3, <2>7, <2>8
<1>6. i > Len(si) => i = Len(si) + 1 /\ isClass(t) /\ isClass(Candidates(t)[i])
                       /\ Candidates(t)[i] \in Kin(t)
  BY <1>5
<1>7. QED
  BY <1>4, <1>5, <1>6 DEF si

LEMMA InterfaceCandidates ==
  ASSUME program \in DOMAIN ProgramOf, NEW t \in Types, isInterface(t)
  PROVE  \A j \in DOMAIN Candidates(t) :
           j <= Len(SuperInterfaces(t)) /\ (Follows(t, j) => isInterface(Candidates(t)[j]))
<1>1. SuperClasses(t) = << >>
  BY Kinds DEF SuperClasses
<1>2. SuperInterfaces(t) \in Seq(Types)
  BY SupertypesAreTypes
<1>3. Candidates(t) = SuperInterfaces(t)
  BY <1>1, <1>2 DEF Candidates
<1>4. \A j \in DOMAIN Candidates(t) : j <= Len(SuperInterfaces(t))
  BY <1>2, <1>3
<1>5. QED
  BY <1>4 DEF Follows
-----------------------------------------------------------------------------
\* The set of types one inherits from, itself included, is closed.
LEMMA AncestorsAreTypes ==
  ASSUME NEW t \in Types
  PROVE  Ancestors(t) \subseteq Types /\ t \in Ancestors(t)
BY DEF Ancestors

LEMMA AncestorsAreLeast ==
  ASSUME NEW t, NEW S \in SUBSET Types, t \in S, \A s \in S : Parents(s) \subseteq S
  PROVE  Ancestors(t) \subseteq S
BY DEF Ancestors

LEMMA AncestorsOfAncestors ==
  ASSUME NEW t, NEW a \in Ancestors(t)
  PROVE  Ancestors(a) \subseteq Ancestors(t)
BY DEF Ancestors

LEMMA AncestorsOfParents ==
  ASSUME program \in DOMAIN ProgramOf, NEW t \in Types, NEW s \in Parents(t)
  PROVE  s \in Types /\ s \in Ancestors(t) /\ Ancestors(s) \subseteq Ancestors(t)
<1>1. s \in Types
  BY CandidatesAreTypes
<1>2. s \in Ancestors(t)
  BY <1>1 DEF Ancestors
<1>3. QED
  BY <1>1, <1>2, AncestorsOfAncestors

LEMMA AncestorsAreParents ==
  ASSUME program \in DOMAIN ProgramOf, NEW t \in Types, NEW a \in Ancestors(t), a # t
  PROVE  \E s \in Parents(t) : a \in Ancestors(s)
<1> DEFINE S == {t} \cup UNION {Ancestors(s) : s \in Parents(t)}
<1>1. \A s \in Parents(t) : s \in Types /\ s \in Ancestors(s) /\ Ancestors(s) \subseteq Types
  BY CandidatesAreTypes, AncestorsAreTypes
<1>2. S \in SUBSET Types
  BY <1>1
<1>3. ASSUME NEW x \in S
      PROVE  Parents(x) \subseteq S
  <2>1. CASE x = t
    BY <1>1, <2>1
  <2>2. CASE x # t
    <3>1. PICK s \in Parents(t) : x \in Ancestors(s)
      BY <2>2
    <3>2. x \in Types
      BY <1>2
    <3>3. \A y \in Parents(x) : y \in Ancestors(s)
      BY <1>1, <3>1, <3>2, AncestorsOfParents, AncestorsOfAncestors
    <3>4. QED
      BY <3>3
  <2>3. QED
    BY <2>1, <2>2
<1>4. Ancestors(t) \subseteq S
  <2> HIDE DEF S
  <2>1. t \in S
    BY DEF S
  <2>2. QED
    BY <1>2, <1>3, <2>1, AncestorsAreLeast
<1>5. QED
  BY <1>4

\* An interface inherits from interfaces only.
LEMMA AncestorsOfInterfaces ==
  ASSUME program \in DOMAIN ProgramOf, NEW t \in Types, isInterface(t), NEW a \in Ancestors(t)
  PROVE  isInterface(a)
<1> DEFINE S == {s \in Types : isInterface(s)}
<1>1. \A s \in S : Parents(s) \subseteq S
  BY CandidatesAreTypes, InterfaceCandidates DEF Parents
<1>2. t \in S /\ S \in SUBSET Types
  OBVIOUS
<1> HIDE DEF S
<1>3. Ancestors(t) \subseteq S
  BY <1>1, <1>2, AncestorsAreLeast
<1>4. QED
  BY <1>3 DEF S

\* A class that another one inherits from is reached through its superclass.
LEMMA ClassAncestors ==
  ASSUME program \in DOMAIN ProgramOf, NEW t \in Types,
         NEW a \in Ancestors(t), isClass(a), a # t
  PROVE  \E j \in DOMAIN Candidates(t) :
           /\ Follows(t, j) /\ j > Len(SuperInterfaces(t))
           /\ a \in Ancestors(Candidates(t)[j])
<1>1. PICK s \in Parents(t) : a \in Ancestors(s)
  BY AncestorsAreParents
<1>2. PICK j \in DOMAIN Candidates(t) : Follows(t, j) /\ s = Candidates(t)[j]
  BY DEF Parents
<1>3. s \in Types /\ a \in Types /\ j \in Nat /\ Len(SuperInterfaces(t)) \in Nat
  BY <1>2, CandidatesAreTypes, AncestorsAreTypes
<1>4. ~isInterface(s)
  BY <1>1, <1>3, Kinds, AncestorsOfInterfaces
<1>5. j > Len(SuperInterfaces(t))
  BY <1>2, <1>3, <1>4, CandidateKinds
<1>6. QED
  BY <1>1, <1>2, <1>5

LEMMA NoCycleAboveKin ==
  ASSUME NEW t \in Types, NoCycleAbove(t), NEW k \in Kin(t)
  PROVE  NoCycleAbove(k)
<1> SUFFICES ASSUME NEW S \in SUBSET Types, k \in S
             PROVE  \E s \in S : Kin(s) \cap S = {}
  BY DEF NoCycleAbove
<1>1. PICK s \in S \cup {t} : Kin(s) \cap (S \cup {t}) = {}
  BY DEF NoCycleAbove
<1>2. QED
  BY <1>1

\* No class that one with no cycle above it inherits from has one.
LEMMA NoCycleAboveAncestors ==
  ASSUME program \in DOMAIN ProgramOf, NEW t \in Types, NoCycleAbove(t),
         NEW a \in Ancestors(t), isClass(a)
  PROVE  NoCycleAbove(a)
<1> DEFINE S == {s \in Types : isClass(s) => NoCycleAbove(s)}
<1>1. ASSUME NEW s \in S
      PROVE  Parents(s) \subseteq S
  <2> SUFFICES ASSUME NEW j \in DOMAIN Candidates(s), Follows(s, j), isClass(Candidates(s)[j])
               PROVE  NoCycleAbove(Candidates(s)[j])
    BY CandidatesAreTypes DEF Parents
  <2>1. Candidates(s)[j] \in Types /\ j \in Nat /\ Len(SuperInterfaces(s)) \in Nat
    BY CandidatesAreTypes
  <2>2. j > Len(SuperInterfaces(s))
    BY <2>1, CandidateKinds, Kinds
  <2>3. isClass(s) /\ Candidates(s)[j] \in Kin(s)
    BY <2>2, CandidateKinds
  <2>4. QED
    BY <2>3, NoCycleAboveKin
<1>2. t \in S /\ S \in SUBSET Types
  OBVIOUS
<1> HIDE DEF S
<1>3. Ancestors(t) \subseteq S
  BY <1>1, <1>2, AncestorsAreLeast
<1>4. QED
  BY <1>3 DEF S

\* Two classes with no cycle above them do not inherit from each other.
LEMMA AncestorsAreOrdered ==
  ASSUME program \in DOMAIN ProgramOf, NEW t \in Types, isClass(t), NoCycleAbove(t),
         NEW a \in Ancestors(t), isClass(a), t \in Ancestors(a)
  PROVE  a = t
<1> SUFFICES ASSUME a # t
             PROVE  FALSE
  OBVIOUS
<1> DEFINE S == {x \in Types : isClass(x) /\ x \in Ancestors(t) /\ t \in Ancestors(x)}
<1>1. ASSUME NEW x \in S
      PROVE  Kin(x) \cap S # {}
  <2>1. PICK b \in {a, t} : b # x /\ b \in Ancestors(x) /\ isClass(b) /\ t \in Ancestors(b)
    <3>1. CASE x = t
      BY <3>1, AncestorsAreTypes
    <3>2. CASE x # t
      BY <3>2, AncestorsAreTypes
    <3>3. QED
      BY <3>1, <3>2
  <2>2. PICK j \in DOMAIN Candidates(x) :
          /\ Follows(x, j) /\ j > Len(SuperInterfaces(x))
          /\ b \in Ancestors(Candidates(x)[j])
    BY <2>1, ClassAncestors
  <2> DEFINE q == Candidates(x)[j]
  <2>3. q \in Kin(x) /\ isClass(q) /\ q \in Parents(x)
    BY <2>2, CandidateKinds DEF Parents
  <2>4. q \in Types /\ q \in Ancestors(x)
    BY <2>3, AncestorsOfParents
  <2>5. q \in Ancestors(t)
    BY <2>4, AncestorsOfAncestors
  <2>6. t \in Ancestors(q)
    BY <2>1, <2>2, AncestorsOfAncestors
  <2>7. QED
    BY <2>3, <2>4, <2>5, <2>6
<1>2. t \in S /\ S \in SUBSET Types
  BY AncestorsAreTypes
<1>3. QED
  BY <1>1, <1>2 DEF NoCycleAbove
-----------------------------------------------------------------------------
(***************************************************************************)
(* Whether the nearest class that declares a signature has a body for it   *)
(* is up to a class's own method or, without one, to its superclass.       *)
(***************************************************************************)
LEMMA BodyOfOwn ==
  ASSUME program \in DOMAIN ProgramOf, NEW t \in Types, isClass(t), NoCycleAbove(t),
         ~DuplicateSignatures(t),
         NEW k \in DOMAIN p[t].methods, ~p[t].methods[k].constructor
  PROVE  HasBody(t, p[t].methods[k].signature) <=> ~IsAbstract(t, p[t].methods[k])
<1> DEFINE m == p[t].methods[k]
           sig == m.signature
<1>1. Own(t) = {p[t].methods[i] : i \in DOMAIN p[t].methods}
  BY MethodsAreMethods
<1>2. Declared(t, sig) = {m}
  <2>1. m \in Declared(t, sig)
    BY <1>1 DEF Declared
  <2>2. ASSUME NEW n \in Declared(t, sig)
        PROVE  n = m
    <3>1. PICK i \in DOMAIN p[t].methods : n = p[t].methods[i]
      BY <1>1 DEF Declared
    <3>2. ~n.constructor /\ n.signature = sig
      BY DEF Declared
    <3>3. p[t].methods[i] \in Method /\ m \in Method
      BY <1>1, MethodsAreMethods
    <3>4. n.constructor \in BOOLEAN /\ m.constructor \in BOOLEAN
      BY <3>1, <3>3 DEF Method
    <3>5. n.constructor = m.constructor
      BY <3>2, <3>4
    <3>6. i = k
      BY <3>1, <3>2, <3>5 DEF DuplicateSignatures
    <3>7. QED
      BY <3>1, <3>6
  <2>3. QED
    BY <2>1, <2>2
<1> HIDE DEF m, sig
<1>3. t \in Ancestors(t)
  BY AncestorsAreTypes
<1>4. t \in Declarers(t, sig) /\ Declarers(t, sig) \subseteq Ancestors(t)
  BY <1>2, <1>3 DEF Declarers
<1>5. ASSUME ~IsAbstract(t, m)
      PROVE  HasBody(t, sig)
  BY <1>2, <1>4, <1>5 DEF HasBody
<1>6. ASSUME HasBody(t, sig)
      PROVE  ~IsAbstract(t, m)
  <2>1. PICK d \in Declarers(t, sig) :
          /\ Declarers(t, sig) \subseteq Ancestors(d)
          /\ \E n \in Declared(d, sig) : ~IsAbstract(d, n)
    BY <1>6 DEF HasBody
  <2>2. d \in Ancestors(t) /\ isClass(d) /\ t \in Ancestors(d)
    BY <1>4, <2>1 DEF Declarers
  <2>3. d = t
    BY <2>2, AncestorsAreOrdered
  <2>4. QED
    BY <1>2, <2>1, <2>3
<1>7. QED
  BY <1>5, <1>6 DEF m, sig

LEMMA BodyOfSuperclass ==
  ASSUME program \in DOMAIN ProgramOf, NEW t \in Types, NEW sig, Declared(t, sig) = {},
         NEW j \in DOMAIN Candidates(t), Follows(t, j), j > Len(SuperInterfaces(t))
  PROVE  HasBody(t, sig) <=> HasBody(Candidates(t)[j], sig)
<1> DEFINE q == Candidates(t)[j]
<1>1. q \in Parents(t)
  BY DEF Parents
<1>2. q \in Types /\ Ancestors(q) \subseteq Ancestors(t)
  BY <1>1, AncestorsOfParents
<1>3. ASSUME NEW a \in Ancestors(t), isClass(a), a # t
      PROVE  a \in Ancestors(q)
  <2>1. PICK i \in DOMAIN Candidates(t) :
          /\ Follows(t, i) /\ i > Len(SuperInterfaces(t))
          /\ a \in Ancestors(Candidates(t)[i])
    BY <1>3, ClassAncestors
  <2>2. i = j
    BY <2>1, CandidateKinds
  <2>3. QED
    BY <2>1, <2>2
<1>4. Declarers(t, sig) = Declarers(q, sig)
  BY <1>2, <1>3 DEF Declarers
<1>5. QED
  BY <1>4 DEF HasBody

LEMMA BodyOfNone ==
  ASSUME program \in DOMAIN ProgramOf, NEW t \in Types, NEW sig, Declared(t, sig) = {},
         \A j \in DOMAIN Candidates(t) : Follows(t, j) => ~(j > Len(SuperInterfaces(t)))
  PROVE  ~HasBody(t, sig)
<1>1. \A a \in Ancestors(t) : isClass(a) => a = t
  BY ClassAncestors
<1>2. Declarers(t, sig) = {}
  BY <1>1 DEF Declarers
<1>3. QED
  BY <1>2 DEF HasBody

LEMMA BodyOfInterface ==
  ASSUME program \in DOMAIN ProgramOf, NEW t \in Types, isInterface(t), NEW sig
  PROVE  ~HasBody(t, sig)
<1>1. \A a \in Ancestors(t) : a \in Types /\ isInterface(a)
  BY AncestorsOfInterfaces, AncestorsAreTypes
<1>2. \A a \in Ancestors(t) : ~isClass(a)
  BY <1>1, Kinds
<1>3. QED
  BY <1>2 DEF HasBody, Declarers
-----------------------------------------------------------------------------
(***************************************************************************)
(* The maps of getInheritedMethods, as values.                             *)
(***************************************************************************)
\* A method of t has gone into its map, and agrees with both.
Noted(t, m, abs, con) ==
  /\ m.signature \in DOMAIN (IF IsAbstract(t, m) THEN abs ELSE con)
  /\ \A map \in {abs, con} : m.signature \in DOMAIN map => map[m.signature].result = m.result

\* So have all that t inherits and declares.
GatheredFrom(t, abs, con) ==
  \A a \in Ancestors(t) : \A m \in Own(a) : ~m.constructor => Noted(a, m, abs, con)

\* What a call has gathered.
FrameGathered(f, abs, con) ==
  /\ \A j \in DOMAIN Candidates(f.type) :
       j < f.next /\ Follows(f.type, j) => GatheredFrom(Candidates(f.type)[j], abs, con)
  /\ \A k \in DOMAIN p[f.type].methods :
       Len(Candidates(f.type)) + k < f.next /\ ~p[f.type].methods[k].constructor =>
         Noted(f.type, p[f.type].methods[k], abs, con)

\* Two methods of one signature have one result, above t.
ResultsAgree(t) ==
  \A a, b \in Ancestors(t) : \A m \in Own(a), n \in Own(b) :
    m.signature = n.signature /\ ~m.constructor /\ ~n.constructor => m.result = n.result

AgreesWith(m, abs, con) ==
  \A map \in {abs, con} : m.signature \in DOMAIN map => map[m.signature].result = m.result

\* new is map, with or without m added.
IsAdded(map, m, new) ==
  /\ DOMAIN map \subseteq DOMAIN new /\ DOMAIN new \subseteq DOMAIN map \cup {m.signature}
  /\ \A s \in DOMAIN map : new[s] = map[s]
  /\ m.signature \in DOMAIN new \ DOMAIN map => new[m.signature] = m

LEMMA AddedMap ==
  ASSUME NEW map, NEW m
  PROVE  /\ IsAdded(map, m, map) /\ IsAdded(map, m, AddIfAbsent(map, m))
         /\ DOMAIN AddIfAbsent(map, m) = DOMAIN map \cup {m.signature}
BY DEF AddIfAbsent, IsAdded

\* What is noted stays noted when a method that agrees with the maps is added.
LEMMA NotedStays ==
  ASSUME NEW m, NEW abs, NEW con, AgreesWith(m, abs, con),
         NEW abs2, IsAdded(abs, m, abs2), NEW con2, IsAdded(con, m, con2),
         NEW t, NEW n, Noted(t, n, abs, con)
  PROVE  Noted(t, n, abs2, con2)
<1>1. n.signature \in DOMAIN abs \cup DOMAIN con
  BY DEF Noted
<1>2. n.signature = m.signature => n.result = m.result
  BY <1>1 DEF Noted, AgreesWith
<1>3. QED
  BY <1>2 DEF Noted, IsAdded

\* A method that agrees with the maps is noted when it is added.
LEMMA NotedWhenAdded ==
  ASSUME NEW m, NEW abs, NEW con, AgreesWith(m, abs, con),
         NEW abs2, IsAdded(abs, m, abs2), NEW con2, IsAdded(con, m, con2),
         NEW t, m.signature \in DOMAIN (IF IsAbstract(t, m) THEN abs2 ELSE con2)
  PROVE  Noted(t, m, abs2, con2)
BY DEF Noted, AgreesWith, IsAdded

LEMMA GatheredStays ==
  ASSUME NEW m, NEW abs, NEW con, AgreesWith(m, abs, con),
         NEW abs2, IsAdded(abs, m, abs2), NEW con2, IsAdded(con, m, con2)
  PROVE  /\ \A t : GatheredFrom(t, abs, con) => GatheredFrom(t, abs2, con2)
         /\ \A f : FrameGathered(f, abs, con) => FrameGathered(f, abs2, con2)
<1>1. \A t, n : Noted(t, n, abs, con) => Noted(t, n, abs2, con2)
  BY NotedStays
<1>2. \A t : GatheredFrom(t, abs, con) => GatheredFrom(t, abs2, con2)
  BY <1>1 DEF GatheredFrom
<1>3. QED
  BY <1>1, <1>2 DEF FrameGathered

LEMMA PastAll ==
  ASSUME NEW i \in Nat, NEW k \in Nat, NEW n \in Nat, n > i + k
  PROVE  (\A j \in 1..i : j < n) /\ (\A j \in 1..k : i + j < n)
OBVIOUS

\* A call that has ended has gathered all its type inherits and declares.
LEMMA EndedFrameGathered ==
  ASSUME program \in DOMAIN ProgramOf, NEW abs, NEW con,
         NEW f \in FrameSet, FrameGathered(f, abs, con),
         f.next > Len(Candidates(f.type)) + Len(p[f.type].methods)
  PROVE  GatheredFrom(f.type, abs, con)
<1>1. f.type \in Types /\ f.next \in Nat
  BY DEF FrameSet
<1>2. /\ Len(Candidates(f.type)) \in Nat /\ Len(p[f.type].methods) \in Nat
      /\ DOMAIN Candidates(f.type) = 1..Len(Candidates(f.type))
      /\ DOMAIN p[f.type].methods = 1..Len(p[f.type].methods)
      /\ Own(f.type) = {p[f.type].methods[k] : k \in DOMAIN p[f.type].methods}
  BY <1>1, CandidatesAreTypes, MethodsAreMethods
<1>3. \A j \in DOMAIN Candidates(f.type) : j < f.next
  BY <1>1, <1>2, PastAll
<1>4. \A k \in DOMAIN p[f.type].methods : Len(Candidates(f.type)) + k < f.next
  BY <1>1, <1>2, PastAll
<1>5. ASSUME NEW a \in Ancestors(f.type), NEW m \in Own(a), ~m.constructor
      PROVE  Noted(a, m, abs, con)
  <2>1. CASE a = f.type
    BY <1>2, <1>4, <1>5, <2>1 DEF FrameGathered
  <2>2. CASE a # f.type
    <3>1. PICK s \in Parents(f.type) : a \in Ancestors(s)
      BY <1>1, <2>2, AncestorsAreParents
    <3>2. GatheredFrom(s, abs, con)
      BY <1>3, <3>1 DEF FrameGathered, Parents
    <3>3. QED
      BY <1>5, <3>1, <3>2 DEF GatheredFrom
  <2>3. QED
    BY <2>1, <2>2
<1>6. QED
  BY <1>5 DEF GatheredFrom

\* Methods that agree with one map agree with each other.
LEMMA GatheredAgree ==
  ASSUME NEW t, NEW abs, NEW con, GatheredFrom(t, abs, con)
  PROVE  ResultsAgree(t)
<1> SUFFICES ASSUME NEW a \in Ancestors(t), NEW b \in Ancestors(t),
                    NEW m \in Own(a), NEW n \in Own(b),
                    m.signature = n.signature, ~m.constructor, ~n.constructor
             PROVE  m.result = n.result
  BY DEF ResultsAgree
<1>1. Noted(a, m, abs, con) /\ Noted(b, n, abs, con)
  BY DEF GatheredFrom
<1>2. QED
  BY <1>1 DEF Noted
-----------------------------------------------------------------------------
(***************************************************************************)
(* The calls of getInheritedMethods for a type c.                          *)
(***************************************************************************)
\* Each call was made for the candidate its caller is at, and a class only
\* from a class.
InheritChain(c, frames) ==
  /\ frames \in Seq(FrameSet) /\ frames # << >> /\ frames[1].type = c
  /\ \A n \in 1..(Len(frames) - 1) :
       /\ frames[n].next \in DOMAIN Candidates(frames[n].type)
       /\ Follows(frames[n].type, frames[n].next)
       /\ Candidates(frames[n].type)[frames[n].next] = frames[n + 1].type
  /\ \A n \in 1..Len(frames) :
       /\ frames[n].type \in Ancestors(c)
       /\ isClass(frames[n].type) => \A l \in 1..n : isClass(frames[l].type)

LEMMA ChainFrames ==
  ASSUME program \in DOMAIN ProgramOf, NEW c, NEW frames, InheritChain(c, frames)
  PROVE  /\ Len(frames) \in Nat \ {0} /\ DOMAIN frames = 1..Len(frames)
         /\ frames \in Seq(FrameSet)
         /\ \A n \in 1..Len(frames) :
              /\ frames[n] \in FrameSet /\ frames[n].type \in Types
              /\ frames[n].next \in Nat \ {0}
<1>1. frames \in Seq(FrameSet) /\ frames # << >>
  BY DEF InheritChain
<1>2. Len(frames) \in Nat \ {0} /\ DOMAIN frames = 1..Len(frames)
  BY <1>1
<1>3. QED
  BY <1>1, <1>2, FrameTypes

\* A call that has moved on, or returned to the one that has.
LEMMA ChainStays ==
  ASSUME program \in DOMAIN ProgramOf, NEW c, NEW frames, InheritChain(c, frames),
         NEW k \in 1..Len(frames), NEW r \in Seq(FrameSet), Len(r) = k,
         \A j \in 1..(k - 1) : r[j] = frames[j], r[k].type = frames[k].type
  PROVE  InheritChain(c, r)
<1>1. Len(frames) \in Nat /\ k \in Nat /\ k >= 1 /\ k <= Len(frames)
  BY ChainFrames
<1>2. \A n \in 1..k : n \in 1..Len(frames) /\ r[n].type = frames[n].type
  BY <1>1
<1>3. \A n \in 1..(k - 1) :
        n \in 1..(Len(frames) - 1) /\ r[n] = frames[n] /\ n + 1 \in 1..k
  BY <1>1
<1>4. r # << >> /\ 1 \in 1..k
  BY <1>1
<1>5. r[1].type = c
  BY <1>2, <1>4 DEF InheritChain
<1>6. \A n \in 1..k : /\ r[n].type \in Ancestors(c)
                      /\ isClass(r[n].type) => \A l \in 1..n : isClass(r[l].type)
  <2>1. \A n \in 1..k : \A l \in 1..n : l \in 1..k
    BY <1>1
  <2>2. QED
    BY <1>2, <2>1 DEF InheritChain
<1>7. \A n \in 1..(k - 1) :
        /\ r[n].next \in DOMAIN Candidates(r[n].type)
        /\ Follows(r[n].type, r[n].next)
        /\ Candidates(r[n].type)[r[n].next] = r[n + 1].type
  BY <1>2, <1>3 DEF InheritChain
<1>8. QED
  BY <1>4, <1>5, <1>6, <1>7 DEF InheritChain

LEMMA BumpedFrames ==
  ASSUME NEW frames \in Seq(FrameSet), frames # << >>
  PROVE  LET r == [frames EXCEPT ![Len(frames)].next = @ + 1]
             k == Len(frames)
         IN  /\ r \in Seq(FrameSet) /\ Len(r) = k
             /\ \A j \in 1..(k - 1) : r[j] = frames[j]
             /\ r[k].type = frames[k].type /\ r[k].next = frames[k].next + 1
<1> DEFINE k == Len(frames)
           g == [frames[k] EXCEPT !.next = @ + 1]
           r == [frames EXCEPT ![k].next = @ + 1]
<1>1. k \in Nat \ {0} /\ frames[k] \in FrameSet
  OBVIOUS
<1>2. g \in FrameSet /\ g.type = frames[k].type /\ g.next = frames[k].next + 1
  BY <1>1 DEF FrameSet
<1>3. r = [frames EXCEPT ![k] = g]
  OBVIOUS
<1> HIDE DEF g, r
<1>4. /\ r \in Seq(FrameSet) /\ Len(r) = k
      /\ \A j \in 1..(k - 1) : r[j] = frames[j]
      /\ r[k] = g
  BY <1>1, <1>2, <1>3
<1>5. QED
  BY <1>2, <1>4 DEF r
LEMMA NewFrame ==
  ASSUME NEW t \in Types
  PROVE  Frame(t) \in FrameSet /\ Frame(t).type = t /\ Frame(t).next = 1
BY DEF Frame, FrameSet
-----------------------------------------------------------------------------
\* A method of its own that a call has been past.
OwnBefore(f, sig, k) ==
  /\ Len(Candidates(f.type)) + k < f.next
  /\ ~p[f.type].methods[k].constructor /\ p[f.type].methods[k].signature = sig

\* A superclass that a call has returned from.
SuperBefore(f, j) ==
  j < f.next /\ j > Len(SuperInterfaces(f.type)) /\ Follows(f.type, j)

\* Among what is abstract, implements is what the nearest class so far has a
\* body for.
Settled(f, abs, impl) ==
  \A sig \in DOMAIN abs : sig \in impl <=>
    IF \E k \in DOMAIN p[f.type].methods : OwnBefore(f, sig, k)
    THEN \E k \in DOMAIN p[f.type].methods :
           OwnBefore(f, sig, k) /\ ~IsAbstract(f.type, p[f.type].methods[k])
    ELSE \E j \in DOMAIN Candidates(f.type) :
           SuperBefore(f, j) /\ HasBody(Candidates(f.type)[j], sig)

\* A call that no class has returned to and that has not come to its own
\* methods.
NoneYet(f) ==
  /\ \A k \in DOMAIN p[f.type].methods : ~(Len(Candidates(f.type)) + k < f.next)
  /\ \A j \in DOMAIN Candidates(f.type) : ~SuperBefore(f, j)

LEMMA NoneYetSettled ==
  ASSUME NEW f, NoneYet(f), NEW abs, NEW impl, impl \subseteq DOMAIN abs
  PROVE  Settled(f, abs, impl) <=> impl = {}
BY DEF NoneYet, Settled, OwnBefore

LEMMA NoneYetAtCandidate ==
  ASSUME program \in DOMAIN ProgramOf, NEW f \in FrameSet,
         f.next \in DOMAIN Candidates(f.type), Follows(f.type, f.next)
  PROVE  NoneYet(f)
<1>1. f.type \in Types /\ f.next \in Nat
  BY DEF FrameSet
<1>2. /\ Len(Candidates(f.type)) \in Nat /\ Len(SuperInterfaces(f.type)) \in Nat
      /\ DOMAIN Candidates(f.type) = 1..Len(Candidates(f.type))
      /\ DOMAIN p[f.type].methods = 1..Len(p[f.type].methods) /\ Len(p[f.type].methods) \in Nat
  BY <1>1, CandidatesAreTypes, MethodsAreMethods
<1>3. ASSUME NEW k \in DOMAIN p[f.type].methods
      PROVE  ~(Len(Candidates(f.type)) + k < f.next)
  <2>1. k \in Nat /\ f.next <= Len(Candidates(f.type))
    BY <1>2
  <2>2. QED
    BY <1>1, <1>2, <2>1
<1>4. ASSUME NEW j \in DOMAIN Candidates(f.type), SuperBefore(f, j)
      PROVE  FALSE
  <2>1. j \in Nat /\ j < f.next /\ j > Len(SuperInterfaces(f.type)) /\ Follows(f.type, j)
    BY <1>2, <1>4 DEF SuperBefore
  <2>2. f.next > Len(SuperInterfaces(f.type))
    BY <1>1, <1>2, <2>1
  <2>3. f.next = j
    BY <1>1, <2>1, <2>2, CandidateKinds
  <2>4. QED
    BY <1>1, <2>1, <2>3
<1>5. QED
  BY <1>3, <1>4 DEF NoneYet

LEMMA NoneYetAtFirst ==
  ASSUME program \in DOMAIN ProgramOf, NEW f \in FrameSet, f.next = 1
  PROVE  NoneYet(f) /\ \A abs, con : FrameGathered(f, abs, con)
<1>1. f.type \in Types
  BY DEF FrameSet
<1>2. /\ Len(Candidates(f.type)) \in Nat
      /\ DOMAIN Candidates(f.type) = 1..Len(Candidates(f.type))
      /\ DOMAIN p[f.type].methods = 1..Len(p[f.type].methods) /\ Len(p[f.type].methods) \in Nat
  BY <1>1, CandidatesAreTypes, MethodsAreMethods
<1>3. \A j \in DOMAIN Candidates(f.type) : ~(j < f.next)
  BY <1>2
<1>4. \A k \in DOMAIN p[f.type].methods : ~(Len(Candidates(f.type)) + k < f.next)
  BY <1>2
<1>5. QED
  BY <1>3, <1>4 DEF NoneYet, SuperBefore, FrameGathered
-----------------------------------------------------------------------------
(***************************************************************************)
(* A call f that moves on becomes g.                                       *)
(***************************************************************************)
MovesOn(f, g) ==
  f \in FrameSet /\ g \in FrameSet /\ g.type = f.type /\ g.next = f.next + 1

\* What lies before g is what lies before f, and what f is at.
LEMMA MovedOn ==
  ASSUME program \in DOMAIN ProgramOf, NEW f, NEW g, MovesOn(f, g)
  PROVE  /\ f.type \in Types /\ g.type = f.type
         /\ \A j \in DOMAIN Candidates(f.type) :
              /\ j < g.next <=> j < f.next \/ j = f.next
              /\ SuperBefore(g, j) <=>
                   \/ SuperBefore(f, j)
                   \/ /\ j = f.next /\ j > Len(SuperInterfaces(f.type))
                      /\ Follows(f.type, j)
         /\ \A k \in DOMAIN p[f.type].methods :
              Len(Candidates(f.type)) + k < g.next <=>
                \/ Len(Candidates(f.type)) + k < f.next
                \/ Len(Candidates(f.type)) + k = f.next
         /\ \A sig : \A k \in DOMAIN p[f.type].methods :
              OwnBefore(g, sig, k) <=>
                \/ OwnBefore(f, sig, k)
                \/ /\ Len(Candidates(f.type)) + k = f.next
                   /\ ~p[f.type].methods[k].constructor
                   /\ p[f.type].methods[k].signature = sig
<1>1. f.type \in Types /\ f.next \in Nat /\ g.type = f.type /\ g.next = f.next + 1
  BY DEF MovesOn, FrameSet
<1>2. /\ Len(Candidates(f.type)) \in Nat
      /\ DOMAIN Candidates(f.type) = 1..Len(Candidates(f.type))
      /\ DOMAIN p[f.type].methods = 1..Len(p[f.type].methods)
  BY <1>1, CandidatesAreTypes, MethodsAreMethods
<1>3. \A j \in DOMAIN Candidates(f.type) : j < g.next <=> j < f.next \/ j = f.next
  BY <1>1, <1>2
<1>4. \A k \in DOMAIN p[f.type].methods :
        Len(Candidates(f.type)) + k < g.next <=>
          \/ Len(Candidates(f.type)) + k < f.next
          \/ Len(Candidates(f.type)) + k = f.next
  <2> TAKE k \in DOMAIN p[f.type].methods
  <2>1. Len(Candidates(f.type)) + k \in Nat
    BY <1>2
  <2>2. QED
    BY <1>1, <2>1
<1>5. QED
  BY <1>1, <1>3, <1>4 DEF SuperBefore, OwnBefore

LEMMA GatheredMovesOn ==
  ASSUME program \in DOMAIN ProgramOf, NEW f, NEW g, MovesOn(f, g),
         NEW abs, NEW con, FrameGathered(f, abs, con),
         f.next \in DOMAIN Candidates(f.type) /\ Follows(f.type, f.next) =>
           GatheredFrom(Candidates(f.type)[f.next], abs, con),
         \A k \in DOMAIN p[f.type].methods :
           Len(Candidates(f.type)) + k = f.next /\ ~p[f.type].methods[k].constructor =>
             Noted(f.type, p[f.type].methods[k], abs, con)
  PROVE  FrameGathered(g, abs, con)
BY MovedOn DEF FrameGathered

\* Past a candidate that is no superclass, or a constructor.
LEMMA SettledMovesOn ==
  ASSUME program \in DOMAIN ProgramOf, NEW f, NEW g, MovesOn(f, g),
         NEW abs, NEW impl, Settled(f, abs, impl),
         f.next \in DOMAIN Candidates(f.type) /\ Follows(f.type, f.next) =>
           ~(f.next > Len(SuperInterfaces(f.type))),
         \A k \in DOMAIN p[f.type].methods :
           Len(Candidates(f.type)) + k = f.next => p[f.type].methods[k].constructor
  PROVE  Settled(g, abs, impl)
<1>1. \A j \in DOMAIN Candidates(f.type) : SuperBefore(g, j) <=> SuperBefore(f, j)
  BY MovedOn
<1>2. \A sig : \A k \in DOMAIN p[f.type].methods : OwnBefore(g, sig, k) <=> OwnBefore(f, sig, k)
  BY MovedOn
<1>3. QED
  BY <1>1, <1>2, MovedOn DEF Settled

\* After the call for a superclass has returned.
LEMMA SettledByReturn ==
  ASSUME program \in DOMAIN ProgramOf, NEW f, NEW g, MovesOn(f, g),
         NEW abs, NEW impl,
         f.next \in DOMAIN Candidates(f.type), Follows(f.type, f.next),
         f.next > Len(SuperInterfaces(f.type)),
         \A sig \in DOMAIN abs : sig \in impl <=> HasBody(Candidates(f.type)[f.next], sig)
  PROVE  Settled(g, abs, impl)
<1>1. NoneYet(f)
  BY NoneYetAtCandidate DEF MovesOn
<1>2. \A j \in DOMAIN Candidates(f.type) : SuperBefore(g, j) <=> j = f.next
  BY <1>1, MovedOn DEF NoneYet
<1>3. \A sig : \A k \in DOMAIN p[f.type].methods : ~OwnBefore(g, sig, k)
  <2>1. f.type \in Types /\ f.next \in Nat
    BY DEF MovesOn, FrameSet
  <2>2. /\ Len(Candidates(f.type)) \in Nat
        /\ f.next <= Len(Candidates(f.type))
        /\ DOMAIN p[f.type].methods = 1..Len(p[f.type].methods)
    BY <2>1, CandidatesAreTypes, MethodsAreMethods
  <2>3. \A k \in DOMAIN p[f.type].methods : ~(Len(Candidates(f.type)) + k = f.next)
    BY <2>1, <2>2
  <2>4. QED
    BY <1>1, <2>3, MovedOn DEF NoneYet, OwnBefore
<1>4. QED
  BY <1>2, <1>3, MovedOn DEF Settled

\* Past a method of its own, as the code says it.
LEMMA SettledByOwn ==
  ASSUME program \in DOMAIN ProgramOf, NEW f, NEW g, MovesOn(f, g), ~DuplicateSignatures(f.type),
         NEW abs, NEW impl, impl \subseteq DOMAIN abs, Settled(f, abs, impl),
         NEW i \in DOMAIN p[f.type].methods, Len(Candidates(f.type)) + i = f.next,
         NEW m, m = p[f.type].methods[i], ~m.constructor
  PROVE  /\ IsAbstract(f.type, m) =>
              Settled(g, AddIfAbsent(abs, m), impl \ {m.signature})
         /\ ~IsAbstract(f.type, m) =>
              Settled(g, abs, IF m.signature \in DOMAIN abs
                              THEN impl \cup {m.signature} ELSE impl)
<1>1. f.type \in Types /\ g.type = f.type /\ f.next \in Nat
  BY DEF MovesOn, FrameSet
<1>2. /\ Len(Candidates(f.type)) \in Nat
      /\ DOMAIN p[f.type].methods = 1..Len(p[f.type].methods)
      /\ \A k \in DOMAIN p[f.type].methods : p[f.type].methods[k] \in Method
  BY <1>1, CandidatesAreTypes, MethodsAreMethods
<1>3. \A j \in DOMAIN Candidates(f.type) : SuperBefore(g, j) <=> SuperBefore(f, j)
  <2>1. \A j \in DOMAIN Candidates(f.type) : j # f.next
    <3>1. \A j \in DOMAIN Candidates(f.type) : j \in Nat /\ j <= Len(Candidates(f.type))
      BY <1>1, CandidatesAreTypes
    <3>2. i \in Nat /\ i > 0
      BY <1>2
    <3>3. QED
      BY <1>1, <1>2, <3>1, <3>2
  <2>2. QED
    BY <2>1, MovedOn
<1>4. \A k \in DOMAIN p[f.type].methods : Len(Candidates(f.type)) + k = f.next <=> k = i
  BY <1>1, <1>2
<1>5. \A sig : \A k \in DOMAIN p[f.type].methods :
        OwnBefore(g, sig, k) <=> OwnBefore(f, sig, k) \/ (k = i /\ m.signature = sig)
  BY <1>4, MovedOn
\* No other method of its own has the signature.
<1>6. \A k \in DOMAIN p[f.type].methods : ~OwnBefore(f, m.signature, k)
  <2> SUFFICES ASSUME NEW k \in DOMAIN p[f.type].methods, OwnBefore(f, m.signature, k)
               PROVE  FALSE
    OBVIOUS
  <2>1. p[f.type].methods[k] \in Method /\ m \in Method
    BY <1>2
  <2>2. ~p[f.type].methods[k].constructor /\ p[f.type].methods[k].signature = m.signature
    BY DEF OwnBefore
  <2>3. p[f.type].methods[k].constructor = m.constructor
    BY <2>1, <2>2 DEF Method
  <2>4. k = i
    BY <2>2, <2>3 DEF DuplicateSignatures
  <2>5. Len(Candidates(f.type)) + k < f.next
    BY DEF OwnBefore
  <2>6. QED
    BY <1>1, <2>4, <2>5
<1>7. \A sig : sig # m.signature => \A k \in DOMAIN p[f.type].methods :
                                      OwnBefore(g, sig, k) <=> OwnBefore(f, sig, k)
  BY <1>5
<1>8. \A k \in DOMAIN p[f.type].methods : OwnBefore(g, m.signature, k) <=> k = i
  BY <1>5, <1>6
\* The step settles the method's signature and leaves the others.
<1>9. ASSUME NEW abs2, NEW impl2,
             DOMAIN abs2 \subseteq DOMAIN abs \cup {m.signature},
             \A sig : sig # m.signature => (sig \in impl2 <=> sig \in impl),
             m.signature \in DOMAIN abs2 =>
               (m.signature \in impl2 <=> ~IsAbstract(f.type, m))
      PROVE  Settled(g, abs2, impl2)
  <2> SUFFICES ASSUME NEW sig \in DOMAIN abs2
               PROVE  sig \in impl2 <=>
                        IF \E k \in DOMAIN p[f.type].methods : OwnBefore(g, sig, k)
                        THEN \E k \in DOMAIN p[f.type].methods :
                               OwnBefore(g, sig, k) /\ ~IsAbstract(f.type, p[f.type].methods[k])
                        ELSE \E j \in DOMAIN Candidates(f.type) :
                               SuperBefore(g, j) /\ HasBody(Candidates(f.type)[j], sig)
    BY <1>1 DEF Settled
  <2>1. CASE sig = m.signature
    BY <1>8, <1>9, <2>1
  <2>2. CASE sig # m.signature
    <3>1. sig \in DOMAIN abs
      BY <1>9, <2>2
    <3>2. QED
      BY <1>3, <1>7, <1>9, <2>2, <3>1 DEF Settled
  <2>3. QED
    BY <2>1, <2>2
<1>10. ASSUME IsAbstract(f.type, m)
       PROVE  Settled(g, AddIfAbsent(abs, m), impl \ {m.signature})
  <2>1. DOMAIN AddIfAbsent(abs, m) = DOMAIN abs \cup {m.signature}
    BY AddedMap
  <2>2. QED
    BY <1>9, <1>10, <2>1
<1>11. ASSUME ~IsAbstract(f.type, m)
       PROVE  Settled(g, abs, IF m.signature \in DOMAIN abs
                              THEN impl \cup {m.signature} ELSE impl)
  BY <1>9, <1>11
<1>12. QED
  BY <1>10, <1>11

\* A call that has ended has settled everything.
LEMMA EndedSettled ==
  ASSUME program \in DOMAIN ProgramOf, NEW f \in FrameSet, isClass(f.type),
         NoCycleAbove(f.type), ~DuplicateSignatures(f.type),
         NEW abs, NEW impl, Settled(f, abs, impl),
         f.next > Len(Candidates(f.type)) + Len(p[f.type].methods)
  PROVE  \A sig \in DOMAIN abs : sig \in impl <=> HasBody(f.type, sig)
<1>1. f.type \in Types /\ f.next \in Nat
  BY DEF FrameSet
<1>2. /\ Len(Candidates(f.type)) \in Nat /\ Len(p[f.type].methods) \in Nat
      /\ DOMAIN Candidates(f.type) = 1..Len(Candidates(f.type))
      /\ DOMAIN p[f.type].methods = 1..Len(p[f.type].methods)
      /\ Own(f.type) = {p[f.type].methods[k] : k \in DOMAIN p[f.type].methods}
  BY <1>1, CandidatesAreTypes, MethodsAreMethods
<1>3. /\ \A j \in DOMAIN Candidates(f.type) : j < f.next
      /\ \A k \in DOMAIN p[f.type].methods : Len(Candidates(f.type)) + k < f.next
  BY <1>1, <1>2, PastAll
<1> TAKE sig \in DOMAIN abs
<1>4. ASSUME NEW k \in DOMAIN p[f.type].methods, OwnBefore(f, sig, k)
      PROVE  sig \in impl <=> HasBody(f.type, sig)
  <2>1. /\ ~p[f.type].methods[k].constructor /\ p[f.type].methods[k].signature = sig
        /\ \A i \in DOMAIN p[f.type].methods : OwnBefore(f, sig, i) => i = k
    <3> SUFFICES ASSUME NEW i \in DOMAIN p[f.type].methods, OwnBefore(f, sig, i)
                 PROVE  i = k
      BY <1>4 DEF OwnBefore
    <3>1. p[f.type].methods[i] \in Method /\ p[f.type].methods[k] \in Method
      BY <1>1, <1>2, MethodsAreMethods
    <3>2. /\ p[f.type].methods[i].constructor = p[f.type].methods[k].constructor
          /\ p[f.type].methods[i].signature = p[f.type].methods[k].signature
      BY <1>4, <3>1 DEF OwnBefore, Method
    <3>3. QED
      BY <3>2 DEF DuplicateSignatures
  <2>2. HasBody(f.type, sig) <=> ~IsAbstract(f.type, p[f.type].methods[k])
    BY <1>1, <2>1, BodyOfOwn
  <2>3. QED
    BY <1>4, <2>1, <2>2 DEF Settled
<1>5. ASSUME \A k \in DOMAIN p[f.type].methods : ~OwnBefore(f, sig, k)
      PROVE  sig \in impl <=> HasBody(f.type, sig)
  <2>1. Declared(f.type, sig) = {}
    BY <1>2, <1>3, <1>5 DEF Declared, OwnBefore
  <2>2. \A j \in DOMAIN Candidates(f.type) :
          SuperBefore(f, j) <=> Follows(f.type, j) /\ j > Len(SuperInterfaces(f.type))
    BY <1>3 DEF SuperBefore
  <2>3. sig \in impl <=> \E j \in DOMAIN Candidates(f.type) :
                           SuperBefore(f, j) /\ HasBody(Candidates(f.type)[j], sig)
    BY <1>5 DEF Settled
  <2>4. CASE \E j \in DOMAIN Candidates(f.type) : SuperBefore(f, j)
    BY <1>1, <2>1, <2>2, <2>3, <2>4, BodyOfSuperclass
  <2>5. CASE \A j \in DOMAIN Candidates(f.type) : ~SuperBefore(f, j)
    BY <1>1, <2>1, <2>2, <2>3, <2>5, BodyOfNone
  <2>6. QED
    BY <2>4, <2>5
<1>6. QED
  BY <1>4, <1>5
-----------------------------------------------------------------------------
(***************************************************************************)
(* The gathering for a type c.                                             *)
(***************************************************************************)
\* implements is empty as long as an interface is on the stack, and settled for
\* the last class on it.
ImplementsSettled(frames, abs, impl) ==
  /\ impl \subseteq DOMAIN abs
  /\ \A n \in 1..Len(frames) :
       /\ ~isClass(frames[n].type) => impl = {}
       /\ /\ isClass(frames[n].type)
          /\ n + 1 \in 1..Len(frames) => ~isClass(frames[n + 1].type)
          => Settled(frames[n], abs, impl)

Inheriting(c, frames, abs, con, impl) ==
  /\ InheritChain(c, frames)
  /\ \A n \in 1..Len(frames) : FrameGathered(frames[n], abs, con)
  /\ \A sig \in DOMAIN abs : \E a \in Ancestors(c) : AbstractIn(a, sig)
  /\ DeclaresOnce(c) => ImplementsSettled(frames, abs, impl)

LEMMA SettledStays ==
  ASSUME program \in DOMAIN ProgramOf, NEW c, NEW frames, InheritChain(c, frames),
         NEW abs, NEW impl, ImplementsSettled(frames, abs, impl),
         NEW k \in 1..Len(frames), NEW r \in Seq(FrameSet), Len(r) = k,
         \A j \in 1..(k - 1) : r[j] = frames[j], r[k].type = frames[k].type,
         isClass(r[k].type) => Settled(r[k], abs, impl)
  PROVE  ImplementsSettled(r, abs, impl)
<1>1. Len(frames) \in Nat /\ k \in Nat /\ k >= 1 /\ k <= Len(frames)
  BY ChainFrames
<1>2. \A n \in 1..k : n \in 1..Len(frames) /\ r[n].type = frames[n].type
  BY <1>1
<1>3. ASSUME NEW n \in 1..k, isClass(r[n].type),
             n + 1 \in 1..k => ~isClass(r[n + 1].type)
      PROVE  Settled(r[n], abs, impl)
  <2>1. CASE n = k
    BY <1>3, <2>1
  <2>2. CASE n # k
    <3>1. n \in 1..(k - 1) /\ n + 1 \in 1..k
      BY <1>1, <2>2
    <3>2. r[n] = frames[n] /\ r[n + 1].type = frames[n + 1].type /\ n \in 1..Len(frames)
      BY <1>2, <3>1
    <3>3. QED
      BY <1>3, <3>1, <3>2 DEF ImplementsSettled
  <2>3. QED
    BY <2>1, <2>2
<1>4. \A n \in 1..k : ~isClass(r[n].type) => impl = {}
  BY <1>2 DEF ImplementsSettled
<1>5. QED
  BY <1>3, <1>4 DEF ImplementsSettled

\* A call that goes on leaves the calls below it where they are.
LEMMA BumpedChain ==
  ASSUME program \in DOMAIN ProgramOf, NEW c, NEW frames, InheritChain(c, frames),
         NEW top, top = frames[Len(frames)]
  PROVE  \E r, k : /\ r = [frames EXCEPT ![Len(frames)].next = @ + 1]
                   /\ k = Len(frames) /\ k \in Nat \ {0} /\ k \in 1..Len(frames)
                   /\ r \in Seq(FrameSet) /\ Len(r) = k
                   /\ \A j \in 1..(k - 1) : r[j] = frames[j]
                   /\ r[k].type = frames[k].type
                   /\ MovesOn(top, r[k]) /\ InheritChain(c, r)
<1>1. PICK k : /\ k = Len(frames) /\ k \in Nat \ {0} /\ k \in 1..Len(frames)
               /\ frames \in Seq(FrameSet) /\ top \in FrameSet
  BY ChainFrames
<1>2. frames # << >>
  BY <1>1
<1>3. LET r == [frames EXCEPT ![Len(frames)].next = @ + 1]
          n == Len(frames)
      IN  /\ r \in Seq(FrameSet) /\ Len(r) = n
          /\ \A j \in 1..(n - 1) : r[j] = frames[j]
          /\ r[n].type = frames[n].type /\ r[n].next = frames[n].next + 1
  BY <1>1, <1>2, BumpedFrames
<1>4. PICK r : /\ r = [frames EXCEPT ![Len(frames)].next = @ + 1]
               /\ r \in Seq(FrameSet) /\ Len(r) = k
               /\ \A j \in 1..(k - 1) : r[j] = frames[j]
               /\ r[k].type = frames[k].type /\ r[k].next = frames[k].next + 1
  BY <1>1, <1>3
<1>5. InheritChain(c, r)
  BY <1>1, <1>4, ChainStays
<1>6. r[k] \in FrameSet
  BY <1>1, <1>4
<1>7. MovesOn(top, r[k])
  BY <1>1, <1>4, <1>6 DEF MovesOn
<1>8. QED
  BY <1>1, <1>4, <1>5, <1>7

\* A call passes over a candidate, or passes a constructor.
LEMMA InheritingMovesOn ==
  ASSUME program \in DOMAIN ProgramOf, NEW c, NEW frames, NEW abs, NEW con, NEW impl,
         Inheriting(c, frames, abs, con, impl),
         NEW top, top = frames[Len(frames)],
         ~(top.next \in DOMAIN Candidates(top.type) /\ Follows(top.type, top.next)),
         \A k \in DOMAIN p[top.type].methods :
           Len(Candidates(top.type)) + k = top.next => p[top.type].methods[k].constructor
  PROVE  Inheriting(c, [frames EXCEPT ![Len(frames)].next = @ + 1], abs, con, impl)
<1>1. InheritChain(c, frames)
  BY DEF Inheriting
<1>2. PICK r, k : /\ r = [frames EXCEPT ![Len(frames)].next = @ + 1]
                  /\ k = Len(frames) /\ k \in Nat \ {0} /\ k \in 1..Len(frames)
                  /\ r \in Seq(FrameSet) /\ Len(r) = k
                  /\ \A j \in 1..(k - 1) : r[j] = frames[j]
                  /\ r[k].type = frames[k].type
                  /\ MovesOn(top, r[k]) /\ InheritChain(c, r)
  BY <1>1, BumpedChain
<1>3. FrameGathered(r[k], abs, con)
  <2>1. FrameGathered(top, abs, con)
    BY <1>2 DEF Inheriting
  <2>2. QED
    BY <1>2, <2>1, GatheredMovesOn
<1>4. \A n \in 1..k : FrameGathered(r[n], abs, con)
  <2>1. \A n \in 1..k : n = k \/ n \in 1..(k - 1)
    BY <1>2
  <2>2. \A n \in 1..(k - 1) : n \in 1..Len(frames)
    BY <1>2
  <2>3. QED
    BY <1>2, <1>3, <2>1, <2>2 DEF Inheriting
<1>5. ASSUME DeclaresOnce(c)
      PROVE  ImplementsSettled(r, abs, impl)
  <2>1. ImplementsSettled(frames, abs, impl)
    BY <1>5 DEF Inheriting
  <2>2. ASSUME isClass(r[k].type)
        PROVE  Settled(r[k], abs, impl)
    <3>1. ~(k + 1 \in 1..Len(frames)) /\ isClass(top.type)
      BY <1>2, <2>2
    <3>2. Settled(top, abs, impl)
      BY <1>2, <2>1, <3>1 DEF ImplementsSettled
    <3>3. QED
      BY <1>2, <3>2, SettledMovesOn
  <2>3. QED
    BY <1>1, <1>2, <2>1, <2>2, SettledStays
<1>6. QED
  BY <1>2, <1>4, <1>5 DEF Inheriting

\* A call is made for a candidate.
LEMMA InheritingFollows ==
  ASSUME program \in DOMAIN ProgramOf, NEW c, NEW frames, NEW abs, NEW con, NEW impl,
         Inheriting(c, frames, abs, con, impl),
         NEW top, top = frames[Len(frames)],
         top.next \in DOMAIN Candidates(top.type), Follows(top.type, top.next)
  PROVE  Inheriting(c, Append(frames, Frame(Candidates(top.type)[top.next])), abs, con, impl)
<1> DEFINE s == Candidates(top.type)[top.next]
<1>1. InheritChain(c, frames)
  BY DEF Inheriting
<1>2. PICK k : /\ k = Len(frames) /\ k \in Nat \ {0} /\ k \in 1..Len(frames)
               /\ frames \in Seq(FrameSet) /\ top \in FrameSet /\ top.type \in Types
  BY <1>1, ChainFrames
<1>3. s \in Parents(top.type)
  BY DEF Parents
<1>4. s \in Types /\ s \in Ancestors(c)
  <2>1. top.type \in Ancestors(c)
    BY <1>1, <1>2 DEF InheritChain
  <2>2. QED
    BY <1>2, <1>3, <2>1, AncestorsOfParents, AncestorsOfAncestors
<1>5. isClass(s) => isClass(top.type)
  <2>1. /\ Len(SuperInterfaces(top.type)) \in Nat
        /\ DOMAIN Candidates(top.type) = 1..Len(Candidates(top.type))
    BY <1>2, CandidatesAreTypes
  <2>2. CASE top.next > Len(SuperInterfaces(top.type))
    BY <1>2, <2>2, CandidateKinds
  <2>3. CASE top.next <= Len(SuperInterfaces(top.type))
    BY <1>2, <1>4, <2>3, CandidateKinds, Kinds
  <2>4. QED
    BY <2>1, <2>2, <2>3
<1>6. PICK f : f = Frame(s) /\ f \in FrameSet /\ f.type = s /\ f.next = 1
  BY <1>4, NewFrame
<1>7. PICK r : /\ r = Append(frames, f) /\ r \in Seq(FrameSet) /\ Len(r) = k + 1
               /\ \A n \in 1..k : r[n] = frames[n]
               /\ r[k + 1] = f
  <2>1. /\ Append(frames, f) \in Seq(FrameSet) /\ Len(Append(frames, f)) = k + 1
        /\ \A n \in 1..k : Append(frames, f)[n] = frames[n]
        /\ Append(frames, f)[k + 1] = f
    BY <1>2, <1>6
  <2>2. QED
    BY <2>1
<1> HIDE DEF s
<1>8. /\ r # << >> /\ 1 \in 1..k
      /\ \A n \in 1..(k + 1) : n \in 1..k \/ n = k + 1
      /\ \A n \in 1..k : n \in 1..Len(frames) /\ \A l \in 1..n : l \in 1..k
      /\ \A n \in 1..k : n = k \/ (n \in 1..(Len(frames) - 1) /\ n + 1 \in 1..k)
      /\ \A l \in 1..(k + 1) : l \in 1..k \/ l = k + 1
  BY <1>2, <1>7
<1>9. \A n \in 1..k : /\ r[n].next \in DOMAIN Candidates(r[n].type)
                      /\ Follows(r[n].type, r[n].next)
                      /\ Candidates(r[n].type)[r[n].next] = r[n + 1].type
  <2> TAKE n \in 1..k
  <2>1. CASE n = k
    BY <1>2, <1>6, <1>7, <2>1 DEF s
  <2>2. CASE n # k
    BY <1>1, <1>7, <1>8, <2>2 DEF InheritChain
  <2>3. QED
    BY <2>1, <2>2
<1>10. \A n \in 1..(k + 1) :
         /\ r[n].type \in Ancestors(c)
         /\ isClass(r[n].type) => \A l \in 1..n : isClass(r[l].type)
  <2> TAKE n \in 1..(k + 1)
  <2>1. CASE n \in 1..k
    BY <1>1, <1>7, <1>8, <2>1 DEF InheritChain
  <2>2. CASE n = k + 1
    <3>1. r[n].type \in Ancestors(c)
      BY <1>4, <1>6, <1>7, <2>2
    <3>2. ASSUME isClass(r[n].type), NEW l \in 1..(k + 1)
          PROVE  isClass(r[l].type)
      <4>1. isClass(top.type) /\ isClass(s)
        BY <1>5, <1>6, <1>7, <2>2, <3>2
      <4>2. \A i \in 1..k : isClass(frames[i].type)
        BY <1>1, <1>2, <4>1 DEF InheritChain
      <4>3. QED
        BY <1>6, <1>7, <1>8, <4>1, <4>2
    <3>3. QED
      BY <2>2, <3>1, <3>2
  <2>3. QED
    BY <1>8, <2>1, <2>2
<1>11. InheritChain(c, r)
  <2>1. r[1].type = c
    BY <1>1, <1>7, <1>8 DEF InheritChain
  <2>2. Len(r) - 1 = k
    BY <1>2, <1>7
  <2>3. QED
    BY <1>7, <1>8, <1>9, <1>10, <2>1, <2>2 DEF InheritChain
<1>12. \A n \in 1..(k + 1) : FrameGathered(r[n], abs, con)
  BY <1>6, <1>7, <1>8, NoneYetAtFirst DEF Inheriting
<1>13. ASSUME DeclaresOnce(c)
       PROVE  ImplementsSettled(r, abs, impl)
  <2>1. ImplementsSettled(frames, abs, impl)
    BY <1>13 DEF Inheriting
  <2>2. impl \subseteq DOMAIN abs
    BY <2>1 DEF ImplementsSettled
  <2>3. impl = {}
    <3>1. CASE ~isClass(top.type)
      BY <1>2, <2>1, <3>1 DEF ImplementsSettled
    <3>2. CASE isClass(top.type)
      <4>1. ~(k + 1 \in 1..Len(frames))
        BY <1>2
      <4>2. Settled(top, abs, impl)
        BY <1>2, <2>1, <3>2, <4>1 DEF ImplementsSettled
      <4>3. NoneYet(top)
        BY <1>2, NoneYetAtCandidate
      <4>4. QED
        BY <2>2, <4>2, <4>3, NoneYetSettled
    <3>3. QED
      BY <3>1, <3>2
  <2>4. NoneYet(f)
    BY <1>6, NoneYetAtFirst
  <2>5. NoneYet(top)
    BY <1>2, NoneYetAtCandidate
  <2>6. Settled(f, abs, impl) /\ Settled(top, abs, impl)
    BY <2>2, <2>3, <2>4, <2>5, NoneYetSettled
  <2>7. ASSUME NEW n \in 1..(k + 1), isClass(r[n].type),
               n + 1 \in 1..(k + 1) => ~isClass(r[n + 1].type)
        PROVE  Settled(r[n], abs, impl)
    <3>1. CASE n = k + 1
      BY <1>7, <2>6, <3>1
    <3>2. CASE n = k
      BY <1>2, <1>7, <2>6, <3>2
    <3>3. CASE n \in 1..(k - 1)
      <4>1. /\ n \in 1..k /\ n + 1 \in 1..k /\ n + 1 \in 1..(k + 1)
            /\ n \in 1..Len(frames)
        BY <1>2, <3>3
      <4>2. QED
        BY <1>7, <2>1, <2>7, <4>1 DEF ImplementsSettled
    <3>4. QED
      BY <1>2, <3>1, <3>2, <3>3
  <2>8. QED
    BY <1>7, <2>2, <2>3, <2>7 DEF ImplementsSettled
<1>14. QED
  BY <1>6, <1>7, <1>11, <1>12, <1>13 DEF Inheriting, s

\* m, a method of t, goes into the maps.
Adds(t, m, abs, con, impl, abs2, con2, impl2) ==
  \/ /\ IsAbstract(t, m)
     /\ abs2 = AddIfAbsent(abs, m) /\ con2 = con /\ impl2 = impl \ {m.signature}
  \/ /\ ~IsAbstract(t, m)
     /\ abs2 = abs /\ con2 = AddIfAbsent(con, m)
     /\ impl2 = IF m.signature \in DOMAIN abs THEN impl \cup {m.signature} ELSE impl

LEMMA AddedOwn ==
  ASSUME NEW t, NEW m, NEW abs, NEW con, NEW impl, NEW abs2, NEW con2, NEW impl2,
         Adds(t, m, abs, con, impl, abs2, con2, impl2)
  PROVE  /\ IsAdded(abs, m, abs2) /\ IsAdded(con, m, con2)
         /\ m.signature \in DOMAIN (IF IsAbstract(t, m) THEN abs2 ELSE con2)
         /\ \A sig \in DOMAIN abs2 :
              sig \in DOMAIN abs \/ (sig = m.signature /\ IsAbstract(t, m))
         /\ impl \subseteq DOMAIN abs => impl2 \subseteq DOMAIN abs2
         /\ IsAbstract(t, m) /\ impl = {} => impl2 = {}
<1>1. /\ DOMAIN AddIfAbsent(abs, m) = DOMAIN abs \cup {m.signature}
      /\ DOMAIN AddIfAbsent(con, m) = DOMAIN con \cup {m.signature}
      /\ IsAdded(abs, m, abs) /\ IsAdded(abs, m, AddIfAbsent(abs, m))
      /\ IsAdded(con, m, con) /\ IsAdded(con, m, AddIfAbsent(con, m))
  BY AddedMap
<1>2. CASE IsAbstract(t, m)
  <2>1. abs2 = AddIfAbsent(abs, m) /\ con2 = con /\ impl2 = impl \ {m.signature}
    BY <1>2 DEF Adds
  <2>2. QED
    BY <1>1, <1>2, <2>1
<1>3. CASE ~IsAbstract(t, m)
  <2>1. /\ abs2 = abs /\ con2 = AddIfAbsent(con, m)
        /\ impl2 = IF m.signature \in DOMAIN abs THEN impl \cup {m.signature} ELSE impl
    BY <1>3 DEF Adds
  <2>2. QED
    BY <1>1, <1>3, <2>1
<1>4. QED
  BY <1>2, <1>3

\* A method of its own goes into the maps.
LEMMA InheritingNotes ==
  ASSUME program \in DOMAIN ProgramOf, NEW c, NEW frames, NEW abs, NEW con, NEW impl,
         Inheriting(c, frames, abs, con, impl),
         NEW top, top = frames[Len(frames)],
         NEW i \in DOMAIN p[top.type].methods, Len(Candidates(top.type)) + i = top.next,
         NEW m, m = p[top.type].methods[i], ~m.constructor, AgreesWith(m, abs, con),
         NEW abs2, NEW con2, NEW impl2,
         Adds(top.type, m, abs, con, impl, abs2, con2, impl2)
  PROVE  Inheriting(c, [frames EXCEPT ![Len(frames)].next = @ + 1], abs2, con2, impl2)
<1>1. InheritChain(c, frames)
  BY DEF Inheriting
<1>2. PICK r, k : /\ r = [frames EXCEPT ![Len(frames)].next = @ + 1]
                  /\ k = Len(frames) /\ k \in Nat \ {0} /\ k \in 1..Len(frames)
                  /\ r \in Seq(FrameSet) /\ Len(r) = k
                  /\ \A j \in 1..(k - 1) : r[j] = frames[j]
                  /\ r[k].type = frames[k].type
                  /\ MovesOn(top, r[k]) /\ InheritChain(c, r)
  BY <1>1, BumpedChain
<1>3. /\ top \in FrameSet /\ top.type \in Types /\ top.type \in Ancestors(c)
      /\ top.next \in Nat /\ m \in Own(top.type)
      /\ Len(Candidates(top.type)) \in Nat /\ i \in Nat \ {0}
      /\ DOMAIN Candidates(top.type) = 1..Len(Candidates(top.type))
  <2>1. top \in FrameSet /\ top.type \in Types /\ top.next \in Nat
    BY <1>1, <1>2, ChainFrames
  <2>2. top.type \in Ancestors(c)
    BY <1>1, <1>2 DEF InheritChain
  <2>3. QED
    BY <2>1, <2>2, CandidatesAreTypes, MethodsAreMethods
<1>4. IsAdded(abs, m, abs2) /\ IsAdded(con, m, con2)
  BY AddedOwn
<1>5. m.signature \in DOMAIN (IF IsAbstract(top.type, m) THEN abs2 ELSE con2)
  BY AddedOwn
<1>6. FrameGathered(r[k], abs2, con2)
  <2>1. FrameGathered(top, abs2, con2)
    BY <1>2, <1>4, GatheredStays DEF Inheriting
  <2>2. Noted(top.type, m, abs2, con2)
    BY <1>4, <1>5, NotedWhenAdded
  <2>3. \A j \in DOMAIN p[top.type].methods :
          Len(Candidates(top.type)) + j = top.next => j = i
    BY <1>3, MethodsAreMethods
  <2>4. ~(top.next \in DOMAIN Candidates(top.type))
    BY <1>3
  <2>5. \A j \in DOMAIN p[top.type].methods :
          Len(Candidates(top.type)) + j = top.next /\ ~p[top.type].methods[j].constructor =>
            Noted(top.type, p[top.type].methods[j], abs2, con2)
    BY <2>2, <2>3
  <2>6. MovesOn(top, r[k])
    BY <1>2
  <2>7. QED
    BY <2>1, <2>4, <2>5, <2>6, GatheredMovesOn
<1>7. \A n \in 1..k : FrameGathered(r[n], abs2, con2)
  <2>1. \A n \in 1..k : n = k \/ n \in 1..(k - 1)
    BY <1>2
  <2>2. \A n \in 1..(k - 1) : n \in 1..Len(frames)
    BY <1>2
  <2>3. \A n \in 1..Len(frames) : FrameGathered(frames[n], abs2, con2)
    BY <1>4, GatheredStays DEF Inheriting
  <2>4. QED
    BY <1>2, <1>6, <2>1, <2>2, <2>3
<1>8. \A sig \in DOMAIN abs2 : \E a \in Ancestors(c) : AbstractIn(a, sig)
  <2>1. IsAbstract(top.type, m) => AbstractIn(top.type, m.signature)
    BY <1>3 DEF AbstractIn, Declared
  <2>2. \A sig \in DOMAIN abs2 :
          sig \in DOMAIN abs \/ (sig = m.signature /\ IsAbstract(top.type, m))
    BY AddedOwn
  <2>3. QED
    BY <1>3, <2>1, <2>2 DEF Inheriting
<1>9. ASSUME DeclaresOnce(c)
      PROVE  ImplementsSettled(r, abs2, impl2)
  <2>1. ImplementsSettled(frames, abs, impl)
    BY <1>9 DEF Inheriting
  <2>2. impl \subseteq DOMAIN abs
    BY <2>1 DEF ImplementsSettled
  <2>3. impl2 \subseteq DOMAIN abs2
    BY <2>2, AddedOwn
  <2>4. CASE isClass(top.type)
    <3>1. ~(k + 1 \in 1..Len(frames))
      BY <1>2
    <3>2. Settled(top, abs, impl)
      BY <1>2, <2>1, <2>4, <3>1 DEF ImplementsSettled
    <3>3. ~DuplicateSignatures(top.type)
      BY <1>3, <1>9 DEF DeclaresOnce
    <3>4. Settled(r[k], abs2, impl2)
      <4>1. MovesOn(top, r[k])
        BY <1>2
      <4>2. PICK g : g = r[k]
        OBVIOUS
      <4>3. /\ IsAbstract(top.type, m) =>
                 Settled(g, AddIfAbsent(abs, m), impl \ {m.signature})
            /\ ~IsAbstract(top.type, m) =>
                 Settled(g, abs, IF m.signature \in DOMAIN abs
                                 THEN impl \cup {m.signature} ELSE impl)
        BY <2>2, <3>2, <3>3, <4>1, <4>2, SettledByOwn
      <4>4. Settled(g, abs2, impl2)
        BY <4>3 DEF Adds
      <4>5. QED
        BY <4>2, <4>4
    <3>5. \A n \in 1..k : isClass(r[n].type)
      BY <1>2, <2>4 DEF InheritChain
    <3>6. \A n \in 1..k : n = k \/ n + 1 \in 1..k
      BY <1>2
    <3>7. QED
      BY <1>2, <2>3, <3>4, <3>5, <3>6 DEF ImplementsSettled
  <2>5. CASE ~isClass(top.type)
    <3>1. impl = {}
      BY <1>2, <2>1, <2>5 DEF ImplementsSettled
    <3>2. IsAbstract(top.type, m)
      BY <1>3, <2>5, Kinds DEF IsAbstract
    <3>3. impl2 = {}
      BY <3>1, <3>2, AddedOwn
    <3>4. ASSUME NEW n \in 1..k, isClass(r[n].type)
          PROVE  Settled(r[n], abs2, impl2)
      <4>1. n # k
        BY <1>2, <2>5, <3>4
      <4>2. n \in 1..(k - 1) /\ n \in 1..(Len(frames) - 1) /\ n \in 1..Len(frames)
        BY <1>2, <4>1
      <4>3. /\ r[n] = frames[n] /\ frames[n] \in FrameSet
            /\ frames[n].next \in DOMAIN Candidates(frames[n].type)
            /\ Follows(frames[n].type, frames[n].next)
        BY <1>1, <1>2, <4>2, ChainFrames DEF InheritChain
      <4>4. NoneYet(frames[n])
        BY <4>3, NoneYetAtCandidate
      <4>5. QED
        BY <2>3, <3>3, <4>3, <4>4, NoneYetSettled
    <3>5. QED
      BY <1>2, <2>3, <3>3, <3>4 DEF ImplementsSettled
  <2>6. QED
    BY <2>4, <2>5
<1>10. QED
  BY <1>2, <1>7, <1>8, <1>9 DEF Inheriting

\* A call returns: what its type inherits and declares is gathered, and its
\* caller is one candidate further.
LEMMA ReturnedChain ==
  ASSUME program \in DOMAIN ProgramOf, NEW c, NEW frames, InheritChain(c, frames),
         Len(frames) > 1
  PROVE  \E r, k : /\ r = Returned(frames)
                   /\ k = Len(frames) - 1 /\ k \in Nat \ {0}
                   /\ k \in 1..Len(frames) /\ k \in 1..(Len(frames) - 1)
                   /\ r \in Seq(FrameSet) /\ Len(r) = k
                   /\ \A j \in 1..(k - 1) : r[j] = frames[j]
                   /\ r[k].type = frames[k].type
                   /\ MovesOn(frames[k], r[k]) /\ InheritChain(c, r)
<1>1. PICK k : /\ k = Len(frames) - 1 /\ k \in Nat \ {0} /\ k \in 1..Len(frames)
               /\ k \in 1..(Len(frames) - 1)
               /\ frames \in Seq(FrameSet) /\ frames[k] \in FrameSet
  BY ChainFrames
<1>2. LET r == Returned(frames)
          n == Len(frames) - 1
      IN  /\ r \in Seq(FrameSet) /\ Len(r) = n /\ r # << >>
          /\ \A j \in 1..(n - 1) : r[j] = frames[j]
          /\ r[n].type = frames[n].type /\ r[n].next = frames[n].next + 1
  BY <1>1, ReturnedFrames DEF FrameSet
<1>3. PICK r : /\ r = Returned(frames)
               /\ r \in Seq(FrameSet) /\ Len(r) = k
               /\ \A j \in 1..(k - 1) : r[j] = frames[j]
               /\ r[k].type = frames[k].type /\ r[k].next = frames[k].next + 1
  BY <1>1, <1>2
<1>4. InheritChain(c, r)
  BY <1>1, <1>3, ChainStays
<1>5. r[k] \in FrameSet
  BY <1>1, <1>3
<1>6. MovesOn(frames[k], r[k])
  BY <1>1, <1>3, <1>5 DEF MovesOn
<1>7. QED
  BY <1>1, <1>3, <1>4, <1>6

LEMMA InheritingReturns ==
  ASSUME program \in DOMAIN ProgramOf, NEW c \in Types, NoCycleAbove(c),
         NEW frames, NEW abs, NEW con, NEW impl,
         Inheriting(c, frames, abs, con, impl), Len(frames) > 1,
         NEW top, top = frames[Len(frames)],
         top.next > Len(Candidates(top.type)) + Len(p[top.type].methods)
  PROVE  Inheriting(c, Returned(frames), abs, con, impl)
<1>1. InheritChain(c, frames)
  BY DEF Inheriting
<1>2. PICK r, k : /\ r = Returned(frames)
                  /\ k = Len(frames) - 1 /\ k \in Nat \ {0}
                  /\ k \in 1..Len(frames) /\ k \in 1..(Len(frames) - 1)
                  /\ r \in Seq(FrameSet) /\ Len(r) = k
                  /\ \A j \in 1..(k - 1) : r[j] = frames[j]
                  /\ r[k].type = frames[k].type
                  /\ MovesOn(frames[k], r[k]) /\ InheritChain(c, r)
  BY <1>1, ReturnedChain
<1>3. k + 1 = Len(frames) /\ Len(frames) \in 1..Len(frames) /\ top = frames[k + 1]
  BY <1>1, <1>2, ChainFrames
<1>4. PICK f : /\ f = frames[k] /\ f \in FrameSet /\ f.type \in Types
               /\ f.next \in DOMAIN Candidates(f.type) /\ Follows(f.type, f.next)
               /\ Candidates(f.type)[f.next] = top.type
  BY <1>1, <1>2, <1>3, ChainFrames DEF InheritChain
<1>5. top \in FrameSet /\ top.type \in Types /\ top.type \in Ancestors(c)
  BY <1>1, <1>3, ChainFrames DEF InheritChain
<1>6. GatheredFrom(top.type, abs, con)
  <2>1. FrameGathered(top, abs, con)
    BY <1>3 DEF Inheriting
  <2>2. QED
    BY <1>5, <2>1, EndedFrameGathered
<1>7. \A j \in DOMAIN p[f.type].methods : ~(Len(Candidates(f.type)) + j = f.next)
  <2>1. /\ Len(Candidates(f.type)) \in Nat
        /\ DOMAIN Candidates(f.type) = 1..Len(Candidates(f.type))
        /\ DOMAIN p[f.type].methods = 1..Len(p[f.type].methods)
        /\ Len(p[f.type].methods) \in Nat
    BY <1>4, CandidatesAreTypes, MethodsAreMethods
  <2>2. f.next <= Len(Candidates(f.type)) /\ f.next \in Nat
    BY <1>4, <2>1
  <2>3. QED
    BY <2>1, <2>2
<1>8. FrameGathered(r[k], abs, con)
  <2>1. FrameGathered(f, abs, con)
    BY <1>2, <1>4 DEF Inheriting
  <2>2. MovesOn(f, r[k])
    BY <1>2, <1>4
  <2>3. QED
    BY <1>4, <1>6, <1>7, <2>1, <2>2, GatheredMovesOn
<1>9. \A n \in 1..k : FrameGathered(r[n], abs, con)
  <2>1. \A n \in 1..k : n = k \/ n \in 1..(k - 1)
    BY <1>2
  <2>2. \A n \in 1..(k - 1) : n \in 1..Len(frames)
    BY <1>2
  <2>3. QED
    BY <1>2, <1>8, <2>1, <2>2 DEF Inheriting
<1>10. ASSUME DeclaresOnce(c)
       PROVE  ImplementsSettled(r, abs, impl)
  <2>1. ImplementsSettled(frames, abs, impl)
    BY <1>10 DEF Inheriting
  <2>2. ASSUME isClass(r[k].type)
        PROVE  Settled(r[k], abs, impl)
    <3>1. isClass(f.type) /\ MovesOn(f, r[k])
      BY <1>2, <1>4, <2>2
    <3>2. CASE ~isClass(top.type)
      <4>1. Settled(f, abs, impl)
        BY <1>2, <1>3, <1>4, <2>1, <3>1, <3>2 DEF ImplementsSettled
      <4>2. ~(f.next > Len(SuperInterfaces(f.type)))
        BY <1>4, <3>2, CandidateKinds
      <4>3. QED
        BY <1>7, <3>1, <4>1, <4>2, SettledMovesOn
    <3>3. CASE isClass(top.type)
      <4>1. Settled(top, abs, impl)
        <5>1. ~(Len(frames) + 1 \in 1..Len(frames))
          BY <1>3
        <5>2. QED
          BY <1>3, <2>1, <3>3, <5>1 DEF ImplementsSettled
      <4>2. NoCycleAbove(top.type)
        BY <1>5, <3>3, NoCycleAboveAncestors
      <4>3. ~DuplicateSignatures(top.type)
        BY <1>5, <1>10 DEF DeclaresOnce
      <4>4. \A sig \in DOMAIN abs : sig \in impl <=> HasBody(top.type, sig)
        BY <1>5, <3>3, <4>1, <4>2, <4>3, EndedSettled
      <4>5. f.next > Len(SuperInterfaces(f.type))
        <5>1. /\ Len(SuperInterfaces(f.type)) \in Nat /\ f.next \in Nat
              /\ ~isInterface(top.type)
          BY <1>4, <1>5, <3>3, CandidatesAreTypes, Kinds DEF FrameSet
        <5>2. ~(f.next <= Len(SuperInterfaces(f.type)))
          BY <1>4, <5>1, CandidateKinds
        <5>3. QED
          BY <5>1, <5>2
      <4>6. QED
        BY <1>4, <3>1, <4>4, <4>5, SettledByReturn
    <3>4. QED
      BY <3>2, <3>3
  <2>3. QED
    BY <1>1, <1>2, <2>1, <2>2, SettledStays
<1>11. QED
  BY <1>2, <1>9, <1>10 DEF Inheriting

\* When the call for c itself ends, all is gathered and settled.
LEMMA InheritingEnds ==
  ASSUME program \in DOMAIN ProgramOf, NEW c \in Types, NoCycleAbove(c),
         NEW frames, NEW abs, NEW con, NEW impl,
         Inheriting(c, frames, abs, con, impl), Len(frames) = 1,
         NEW top, top = frames[Len(frames)],
         top.next > Len(Candidates(top.type)) + Len(p[top.type].methods)
  PROVE  /\ ResultsAgree(c)
         /\ DeclaresOnce(c) => DOMAIN abs \ impl = Required(c)
<1>1. InheritChain(c, frames) /\ 1 \in 1..Len(frames)
  BY DEF Inheriting
<1>2. top \in FrameSet /\ top.type = c /\ top = frames[1]
  BY <1>1, ChainFrames DEF InheritChain
<1>3. GatheredFrom(c, abs, con)
  <2>1. FrameGathered(top, abs, con)
    BY <1>1, <1>2 DEF Inheriting
  <2>2. QED
    BY <1>2, <2>1, EndedFrameGathered
<1>4. ASSUME DeclaresOnce(c)
      PROVE  DOMAIN abs \ impl = Required(c)
  <2>1. ImplementsSettled(frames, abs, impl)
    BY <1>4 DEF Inheriting
  <2>2. \A sig \in DOMAIN abs : sig \in impl <=> HasBody(c, sig)
    <3>1. CASE isClass(c)
      <4>1. ~(1 + 1 \in 1..Len(frames))
        OBVIOUS
      <4>2. Settled(top, abs, impl)
        BY <1>1, <1>2, <2>1, <3>1, <4>1 DEF ImplementsSettled
      <4>3. ~DuplicateSignatures(c)
        BY <1>4, AncestorsAreTypes DEF DeclaresOnce
      <4>4. QED
        BY <1>2, <3>1, <4>2, <4>3, EndedSettled
    <3>2. CASE ~isClass(c)
      <4>1. impl = {}
        BY <1>1, <1>2, <2>1, <3>2 DEF ImplementsSettled
      <4>2. isInterface(c)
        BY <3>2, Kinds
      <4>3. QED
        BY <4>1, <4>2, BodyOfInterface
    <3>3. QED
      BY <3>1, <3>2
  <2>3. \A sig : sig \in DOMAIN abs <=> \E a \in Ancestors(c) : AbstractIn(a, sig)
    <3>1. ASSUME NEW sig, NEW a \in Ancestors(c), AbstractIn(a, sig)
          PROVE  sig \in DOMAIN abs
      <4>1. PICK m \in Own(a) : ~m.constructor /\ m.signature = sig /\ IsAbstract(a, m)
        BY <3>1 DEF AbstractIn, Declared
      <4>2. Noted(a, m, abs, con)
        BY <1>3, <4>1 DEF GatheredFrom
      <4>3. QED
        BY <4>1, <4>2 DEF Noted
    <3>2. QED
      BY <3>1 DEF Inheriting
  <2>4. \A sig : (\E a \in Ancestors(c) : AbstractIn(a, sig)) =>
                   sig \in {m.signature : m \in UNION {Own(t) : t \in Ancestors(c)}}
    BY DEF AbstractIn, Declared
  <2>5. QED
    BY <2>2, <2>3, <2>4 DEF Required
<1>5. QED
  BY <1>3, <1>4, GatheredAgree
-----------------------------------------------------------------------------
(***************************************************************************)
(* The invariant: what the gathering for the current type has come to, and *)
(* what is known of the types that have passed every check.                *)
(***************************************************************************)
\* What is read of the program alone stays as it is.
LEMMA SameInheritance ==
  ASSUME program' = program
  PROVE  /\ p' = p /\ Types' = Types /\ FrameSet' = FrameSet
         /\ \A t : /\ isClass(t)' <=> isClass(t)
                   /\ isInterface(t)' <=> isInterface(t)
                   /\ SuperInterfaces(t)' = SuperInterfaces(t)
                   /\ Candidates(t)' = Candidates(t)
                   /\ \A n : Follows(t, n)' <=> Follows(t, n)
                   /\ Ancestors(t)' = Ancestors(t) /\ Own(t)' = Own(t)
                   /\ DuplicateSignatures(t)' <=> DuplicateSignatures(t)
                   /\ \A m : IsAbstract(t, m)' <=> IsAbstract(t, m)
                   /\ \A m : MayReplace(t, m)' <=> MayReplace(t, m)
<1>1. p' = p /\ Types' = Types /\ FrameSet' = FrameSet
  BY DEF p, Types, FrameSet
<1>2. \A t : /\ isClass(t)' <=> isClass(t)
             /\ isInterface(t)' <=> isInterface(t)
             /\ SuperInterfaces(t)' = SuperInterfaces(t)
             /\ SuperClasses(t)' = SuperClasses(t)
             /\ Own(t)' = Own(t)
  BY <1>1 DEF isClass, isInterface, SuperInterfaces, SuperClasses, Own
<1>3. \A t : /\ Candidates(t)' = Candidates(t)
             /\ \A n : Follows(t, n)' <=> Follows(t, n)
  BY <1>2 DEF Candidates, Follows
<1>4. \A t : Parents(t)' = Parents(t)
  BY <1>3 DEF Parents
<1>5. \A t : Ancestors(t)' = Ancestors(t)
  BY <1>1, <1>4 DEF Ancestors
<1>6. \A t : DuplicateSignatures(t)' <=> DuplicateSignatures(t)
  BY <1>1 DEF DuplicateSignatures
<1>7. \A t, m : IsAbstract(t, m)' <=> IsAbstract(t, m)
  BY <1>2 DEF IsAbstract
<1>8. \A t, m : Replaced(t, m)' = Replaced(t, m)
  BY <1>2 DEF Replaced
<1>9. \A t, m : MayReplace(t, m)' <=> MayReplace(t, m)
  BY <1>2, <1>8 DEF MayReplace
<1>10. QED
  BY <1>1, <1>2, <1>3, <1>5, <1>6, <1>7, <1>9

LEMMA SameRequired ==
  ASSUME program' = program
  PROVE  \A t : /\ DeclaresOnce(t)' <=> DeclaresOnce(t)
                /\ ResultsAgree(t)' <=> ResultsAgree(t)
                /\ Required(t)' = Required(t)
                /\ \A sig : HasBody(t, sig)' <=> HasBody(t, sig)
                /\ \A sig : AbstractIn(t, sig)' <=> AbstractIn(t, sig)
<1>1. /\ Types' = Types
      /\ \A t : /\ isClass(t)' <=> isClass(t)
                /\ Ancestors(t)' = Ancestors(t) /\ Own(t)' = Own(t)
                /\ DuplicateSignatures(t)' <=> DuplicateSignatures(t)
                /\ \A m : IsAbstract(t, m)' <=> IsAbstract(t, m)
  BY SameInheritance
<1>2. \A t : /\ DeclaresOnce(t)' <=> DeclaresOnce(t)
             /\ ResultsAgree(t)' <=> ResultsAgree(t)
  BY <1>1 DEF DeclaresOnce, ResultsAgree
<1>3. \A t, sig : Declared(t, sig)' = Declared(t, sig)
  BY <1>1 DEF Declared
<1>4. \A t, sig : AbstractIn(t, sig)' <=> AbstractIn(t, sig)
  BY <1>1, <1>3 DEF AbstractIn
<1>5. \A t, sig : Declarers(t, sig)' = Declarers(t, sig)
  BY <1>1, <1>3 DEF Declarers
<1>6. \A t, sig : HasBody(t, sig)' <=> HasBody(t, sig)
  BY <1>1, <1>3, <1>5 DEF HasBody
<1>7. \A t : Required(t)' = Required(t)
  BY <1>1, <1>4, <1>6 DEF Required
<1>8. QED
  BY <1>2, <1>4, <1>6, <1>7

LEMMA SameInheriting ==
  ASSUME program' = program
  PROVE  \A c, frames, abs, con, impl :
           Inheriting(c, frames, abs, con, impl)' <=> Inheriting(c, frames, abs, con, impl)
<1>1. /\ p' = p /\ FrameSet' = FrameSet
      /\ \A t : /\ isClass(t)' <=> isClass(t)
                /\ SuperInterfaces(t)' = SuperInterfaces(t)
                /\ Candidates(t)' = Candidates(t)
                /\ \A n : Follows(t, n)' <=> Follows(t, n)
                /\ Ancestors(t)' = Ancestors(t) /\ Own(t)' = Own(t)
                /\ \A m : IsAbstract(t, m)' <=> IsAbstract(t, m)
  BY SameInheritance
<1>2. \A t : /\ DeclaresOnce(t)' <=> DeclaresOnce(t)
             /\ \A sig : HasBody(t, sig)' <=> HasBody(t, sig)
             /\ \A sig : AbstractIn(t, sig)' <=> AbstractIn(t, sig)
  BY SameRequired
<1>3. \A c, frames : InheritChain(c, frames)' <=> InheritChain(c, frames)
  BY <1>1 DEF InheritChain
<1>4. \A t, m, abs, con : Noted(t, m, abs, con)' <=> Noted(t, m, abs, con)
  BY <1>1 DEF Noted
<1>5. \A t, abs, con : GatheredFrom(t, abs, con)' <=> GatheredFrom(t, abs, con)
  BY <1>1, <1>4 DEF GatheredFrom
<1>6. \A f, abs, con : FrameGathered(f, abs, con)' <=> FrameGathered(f, abs, con)
  BY <1>1, <1>4, <1>5 DEF FrameGathered
<1>7. /\ \A f, sig, k : OwnBefore(f, sig, k)' <=> OwnBefore(f, sig, k)
      /\ \A f, j : SuperBefore(f, j)' <=> SuperBefore(f, j)
  BY <1>1 DEF OwnBefore, SuperBefore
<1>8. \A f, abs, impl : Settled(f, abs, impl)' <=> Settled(f, abs, impl)
  <2> TAKE f, abs, impl
  <2> DEFINE own(sig)    == \E k \in DOMAIN p[f.type].methods : OwnBefore(f, sig, k)
             body(sig)   == \E k \in DOMAIN p[f.type].methods :
                              OwnBefore(f, sig, k) /\ ~IsAbstract(f.type, p[f.type].methods[k])
             parent(sig) == \E j \in DOMAIN Candidates(f.type) :
                              SuperBefore(f, j) /\ HasBody(Candidates(f.type)[j], sig)
  <2>1. \A sig : own(sig)' <=> own(sig)
    BY <1>1, <1>7
  <2>2. \A sig : body(sig)' <=> body(sig)
    BY <1>1, <1>7
  <2>3. \A sig : parent(sig)' <=> parent(sig)
    BY <1>1, <1>2, <1>7
  <2>4. Settled(f, abs, impl) <=>
          \A sig \in DOMAIN abs : sig \in impl <=> IF own(sig) THEN body(sig) ELSE parent(sig)
    BY DEF Settled
  <2> HIDE DEF own, body, parent
  <2>5. Settled(f, abs, impl)' <=>
          \A sig \in DOMAIN abs :
            sig \in impl <=> IF own(sig)' THEN body(sig)' ELSE parent(sig)'
    BY DEF Settled, own, body, parent
  <2>6. QED
    BY <2>1, <2>2, <2>3, <2>4, <2>5
<1>9. \A frames, abs, impl :
        ImplementsSettled(frames, abs, impl)' <=> ImplementsSettled(frames, abs, impl)
  BY <1>1, <1>8 DEF ImplementsSettled
<1>10. QED
  BY <1>1, <1>2, <1>3, <1>6, <1>9 DEF Inheriting

LEMMA InheritingStarts ==
  ASSUME program \in DOMAIN ProgramOf, NEW c \in Types
  PROVE  Inheriting(c, <<Frame(c)>>, NoMap, NoMap, {})
<1>1. PICK f : f = Frame(c) /\ f \in FrameSet /\ f.type = c /\ f.next = 1
  BY NewFrame
<1>2. PICK r : r = <<f>> /\ r \in Seq(FrameSet) /\ Len(r) = 1 /\ r[1] = f
  <2>1. <<f>> \in Seq(FrameSet) /\ Len(<<f>>) = 1 /\ <<f>>[1] = f
    BY <1>1
  <2>2. QED
    BY <2>1
<1>3. DOMAIN NoMap = {}
  BY DEF NoMap
<1>4. c \in Ancestors(c)
  BY AncestorsAreTypes
<1>5. \A n \in 1..Len(r) : n = 1 /\ r[n] = f
  BY <1>2
<1>6. InheritChain(c, r)
  <2>1. r # << >> /\ \A n \in 1..(Len(r) - 1) : FALSE
    BY <1>2
  <2>2. \A n \in 1..Len(r) : /\ r[n].type \in Ancestors(c)
                             /\ isClass(r[n].type) => \A l \in 1..n : isClass(r[l].type)
    BY <1>1, <1>2, <1>4, <1>5
  <2>3. QED
    BY <1>1, <1>2, <2>1, <2>2 DEF InheritChain
<1>7. \A n \in 1..Len(r) : FrameGathered(r[n], NoMap, NoMap)
  BY <1>1, <1>5, NoneYetAtFirst
<1>8. ImplementsSettled(r, NoMap, {})
  BY <1>3 DEF ImplementsSettled, Settled
<1>9. QED
  BY <1>1, <1>2, <1>3, <1>6, <1>7, <1>8 DEF Inheriting

\* What each call of getInheritedMethods for the current type has come to, as
\* values: what is known of them stays known.
Gathering ==
  \E frames, abs, con, impl :
    /\ frames = stack /\ abs = abstractMethods /\ con = methods /\ impl = implements
    /\ Inheriting(current, frames, abs, con, impl)

Checking == {"acyclic", "duplicates", "inherit", "overrides"}

\* The types that have passed every check, and what is known of them.
Judged == (Types \ unchecked) \ (IF pc \in Checking THEN {current} ELSE {})

Judgement(t) ==
  /\ ~DuplicateSignatures(t) /\ ResultsAgree(t)
  /\ \A m \in Own(t) : MayReplace(t, m)
  /\ isClass(t) /\ "abstract" \notin p[t].modifiers /\ DeclaresOnce(t) => Required(t) = {}

InheritInv ==
  /\ SearchInv
  /\ pc \in Checking => current \in Types \ unchecked
  /\ pc \in {"inherit", "overrides"} => ~DuplicateSignatures(current)
  /\ pc = "inherit" => Gathering
  /\ pc = "overrides" =>
       ResultsAgree(current) /\ (DeclaresOnce(current) => Unimplemented = Required(current))
  /\ pc \notin {"refused", "cyclic", "overflow"} => \A t \in Judged : Judgement(t)
  /\ pc = "overflow" => ~Acyclic

LEMMA SameJudgement ==
  ASSUME program' = program
  PROVE  \A t : Judgement(t)' <=> Judgement(t)
<1>1. /\ p' = p
      /\ \A t : /\ isClass(t)' <=> isClass(t)
                /\ Own(t)' = Own(t)
                /\ DuplicateSignatures(t)' <=> DuplicateSignatures(t)
                /\ \A m : MayReplace(t, m)' <=> MayReplace(t, m)
  BY SameInheritance
<1>2. \A t : /\ DeclaresOnce(t)' <=> DeclaresOnce(t)
             /\ ResultsAgree(t)' <=> ResultsAgree(t)
             /\ Required(t)' = Required(t)
  BY SameRequired
<1>3. QED
  BY <1>1, <1>2 DEF Judgement

\* The steps of a check leave what is known of the other types alone.
LEMMA KeepsJudged ==
  ASSUME InheritInv, program' = program, unchecked' = unchecked, current' = current,
         pc \in Checking, pc' \in Checking
  PROVE  (\A t \in Judged : Judgement(t))' /\ current' \in Types' \ unchecked'
<1>1. Types' = Types
  BY SameInheritance
<1>2. Judged' = Judged
  BY <1>1 DEF Judged
<1>3. pc \notin {"refused", "cyclic", "overflow"}
  BY DEF Checking
<1>4. QED
  BY <1>1, <1>2, <1>3, SameJudgement DEF InheritInv

\* A step of getInheritedMethods.
LEMMA KeepsGathering ==
  ASSUME InheritInv, SearchInv', program' = program, unchecked' = unchecked,
         current' = current, pc = "inherit", pc' = "inherit",
         Inheriting(current, stack', abstractMethods', methods', implements')
  PROVE  InheritInv'
<1>1. PICK frames, abs, con, impl :
        /\ frames = stack' /\ abs = abstractMethods' /\ con = methods' /\ impl = implements'
        /\ Inheriting(current, frames, abs, con, impl)
  OBVIOUS
<1>2. Inheriting(current, frames, abs, con, impl)'
  BY <1>1, SameInheriting
<1>3. Gathering'
  BY <1>1, <1>2 DEF Gathering
<1>4. (~DuplicateSignatures(current))'
  BY SameInheritance DEF InheritInv
<1>5. (\A t \in Judged : Judgement(t))' /\ current' \in Types' \ unchecked'
  BY KeepsJudged DEF Checking
<1>6. QED
  BY <1>3, <1>4, <1>5 DEF InheritInv

\* Where the top call of getInheritedMethods is.
LEMMA TopOfChain ==
  ASSUME program \in DOMAIN ProgramOf, NEW c, NEW abs, NEW con, NEW impl,
         Inheriting(c, stack, abs, con, impl)
  PROVE  /\ Top = stack[Len(stack)] /\ (Len(stack) # 1 => Len(stack) > 1)
         /\ Top.next \in DOMAIN Candidates(Top.type) =>
              \A k \in DOMAIN p[Top.type].methods : ~(Len(Candidates(Top.type)) + k = Top.next)
         /\ \A m : AtOwnMethod(m) =>
              \E i : /\ i \in DOMAIN p[Top.type].methods /\ m = p[Top.type].methods[i]
                     /\ Len(Candidates(Top.type)) + i = Top.next
                     /\ ~(Top.next \in DOMAIN Candidates(Top.type))
                     /\ \A k \in DOMAIN p[Top.type].methods :
                          Len(Candidates(Top.type)) + k = Top.next => k = i
<1>1. InheritChain(c, stack)
  BY DEF Inheriting
<1>2. Len(stack) \in Nat \ {0} /\ Len(stack) \in 1..Len(stack) /\ Top = stack[Len(stack)]
  BY <1>1, ChainFrames DEF Top, Last
<1>3. Top.type \in Types /\ Top.next \in Nat
  BY <1>1, <1>2, ChainFrames
<1>4. /\ Len(Candidates(Top.type)) \in Nat
      /\ DOMAIN Candidates(Top.type) = 1..Len(Candidates(Top.type))
      /\ Len(p[Top.type].methods) \in Nat
      /\ DOMAIN p[Top.type].methods = 1..Len(p[Top.type].methods)
  BY <1>3, CandidatesAreTypes, MethodsAreMethods
<1>5. Len(stack) # 1 => Len(stack) > 1
  BY <1>2
<1>6. ASSUME NEW k \in DOMAIN p[Top.type].methods, Len(Candidates(Top.type)) + k = Top.next
      PROVE  /\ k = Top.next - Len(Candidates(Top.type))
             /\ ~(Top.next \in DOMAIN Candidates(Top.type))
  BY <1>3, <1>4, <1>6
<1>7. ASSUME NEW m, AtOwnMethod(m)
      PROVE  \E i : /\ i \in DOMAIN p[Top.type].methods /\ m = p[Top.type].methods[i]
                    /\ Len(Candidates(Top.type)) + i = Top.next
  <2>1. PICK i : /\ i = Top.next - Len(Candidates(Top.type))
                 /\ i \in DOMAIN p[Top.type].methods /\ m = p[Top.type].methods[i]
    BY <1>7 DEF AtOwnMethod
  <2>2. Len(Candidates(Top.type)) + i = Top.next
    BY <1>3, <1>4, <2>1
  <2>3. QED
    BY <2>1, <2>2
<1>8. \A i, k \in DOMAIN p[Top.type].methods :
        Len(Candidates(Top.type)) + i = Top.next /\ Len(Candidates(Top.type)) + k = Top.next => k = i
  BY <1>6
<1>9. QED
  BY <1>2, <1>5, <1>6, <1>7, <1>8
-----------------------------------------------------------------------------
LEMMA InitEstablishesInheritInv == Init => InheritInv
BY InitEstablishesSearchInv DEF Init, InheritInv, Judged, Checking

\* What AddOwnMethod does to the maps, as Adds says it.
LEMMA OwnMethodAdds ==
  ASSUME NEW m, ~m.constructor, ~Conflicts(m),
         IF IsAbstract(Top.type, m) THEN AddAbstract(m) ELSE AddConcrete(m)
  PROVE  /\ AgreesWith(m, abstractMethods, methods)
         /\ Adds(Top.type, m, abstractMethods, methods, implements,
                 abstractMethods', methods', implements')
<1>1. AgreesWith(m, abstractMethods, methods)
  BY DEF Conflicts, AgreesWith
<1>2. CASE IsAbstract(Top.type, m)
  BY <1>1, <1>2 DEF AddAbstract, AfterAbstract, Adds
<1>3. CASE ~IsAbstract(Top.type, m)
  BY <1>1, <1>3 DEF AddConcrete, Adds
<1>4. QED
  BY <1>2, <1>3

\* More calls of getInheritedMethods than there are types go round a cycle.
LEMMA OverflowShowsCycle ==
  ASSUME program \in DOMAIN ProgramOf, NEW c, NEW frames, InheritChain(c, frames),
         Len(frames) = Cardinality(Types),
         frames[Len(frames)].next \in DOMAIN Candidates(frames[Len(frames)].type)
  PROVE  ~Acyclic
<1> DEFINE N == Len(frames)
           up == Candidates(frames[N].type)[frames[N].next]
           f  == [n \in 1..(N + 1) |-> IF n = N + 1 THEN up ELSE frames[n].type]
<1>1. N \in Nat \ {0} /\ \A n \in 1..N : frames[n].type \in Types
  BY ChainFrames DEF InheritChain, FrameSet
<1>2. N \in 1..N /\ frames[N].type \in Types
  BY <1>1
<1>3. \A t \in Types : \A n \in DOMAIN Candidates(t) :
        Candidates(t)[n] \in Types /\ Candidates(t)[n] \in Range(Supertypes(t))
  <2> SUFFICES ASSUME NEW t \in Types, NEW n \in DOMAIN Candidates(t)
               PROVE  Candidates(t)[n] \in Types /\ Candidates(t)[n] \in Range(Supertypes(t))
    OBVIOUS
  <2>1. SuperClasses(t) \in Seq(Types) /\ SuperInterfaces(t) \in Seq(Types)
    BY SupertypesAreTypes
  <2>2. /\ Range(SuperClasses(t) \o SuperInterfaces(t))
             = Range(SuperClasses(t)) \cup Range(SuperInterfaces(t))
        /\ Range(SuperInterfaces(t) \o SuperClasses(t))
             = Range(SuperInterfaces(t)) \cup Range(SuperClasses(t))
    BY <2>1, RangeConcatenation
  <2>3. Range(Supertypes(t)) = Range(Candidates(t))
    BY <2>2 DEF Supertypes, Candidates
  <2>4. Candidates(t)[n] \in Types
    BY <2>1, ElementOfSeq DEF Candidates
  <2>5. QED
    BY <2>3, <2>4 DEF Range
<1>4. f \in [1..(N + 1) -> Types]
  BY <1>1, <1>2, <1>3
<1>5. \A n \in 1..N : f[n + 1] \in Range(Supertypes(f[n]))
  <2> SUFFICES ASSUME NEW n \in 1..N
               PROVE  f[n + 1] \in Range(Supertypes(f[n]))
    OBVIOUS
  <2>1. f[n] = frames[n].type
    BY <1>1
  <2>2. CASE n = N
    BY <1>2, <1>3, <2>1, <2>2
  <2>3. CASE n # N
    <3>1. n \in 1..(N - 1) /\ n + 1 \in 1..(N + 1) /\ n + 1 # N + 1
      BY <1>1, <2>3
    <3>2. frames[n].next \in DOMAIN Candidates(frames[n].type)
          /\ Candidates(frames[n].type)[frames[n].next] = frames[n + 1].type
      BY <3>1 DEF InheritChain
    <3>3. QED
      BY <1>1, <1>3, <2>1, <3>1, <3>2
  <2>4. QED
    BY <2>2, <2>3
<1> HIDE DEF f
<1>6. PICK i \in 1..(N + 1) : \E j \in 1..(N + 1) : i < j /\ f[i] = f[j]
  <2>1. IsFiniteSet(1..(N + 1)) /\ Cardinality(1..(N + 1)) = N + 1
    BY <1>1, FS_Interval
  <2>2. IsFiniteSet(Types) /\ Cardinality(Types) < Cardinality(1..(N + 1))
    BY <1>1, <2>1, ProgramIsWellFormed DEF IsProgram, Types
  <2>3. \E x, y \in 1..(N + 1) : x # y /\ f[x] = f[y]
    BY <1>4, <2>1, <2>2, FS_PigeonHole
  <2>4. QED
    BY <1>1, <2>3
<1>7. PICK j \in 1..(N + 1) : i < j /\ f[i] = f[j]
  BY <1>6
<1> DEFINE S == {f[n] : n \in i..(j - 1)}
<1>8. S \subseteq Types /\ f[i] \in S
  <2>1. i \in i..(j - 1) /\ i..(j - 1) \subseteq 1..(N + 1)
    BY <1>1, <1>7
  <2>2. QED
    BY <1>4, <2>1
<1>9. \A t \in S : Range(Supertypes(t)) \cap S # {}
  <2> SUFFICES ASSUME NEW n \in i..(j - 1)
               PROVE  Range(Supertypes(f[n])) \cap S # {}
    OBVIOUS
  <2>1. n \in 1..N /\ (n + 1 \in i..(j - 1) \/ n + 1 = j)
    BY <1>1, <1>7
  <2>2. f[n + 1] \in S
    BY <1>7, <1>8, <2>1
  <2>3. QED
    BY <1>5, <2>1, <2>2
<1>10. QED
  BY <1>8, <1>9 DEF Acyclic

LEMMA StepKeepsInheritInv == InheritInv /\ [Next]_vars => InheritInv'
<1> SUFFICES ASSUME InheritInv, [Next]_vars
             PROVE  InheritInv'
  OBVIOUS
<1>1. SearchInv /\ SearchInv' /\ program' = program /\ program \in DOMAIN ProgramOf
  BY StepKeepsSearchInv, ProgramIsFixed DEF InheritInv, SearchInv
<1>2. Types' = Types /\ \A t : Judgement(t)' <=> Judgement(t)
  BY <1>1, SameInheritance, SameJudgement
\* A type that getInheritedMethods is called for.
<1>3. ASSUME pc \in {"duplicates", "inherit"}
      PROVE  current \in Types /\ NoCycleAbove(current)
  BY <1>1, <1>3 DEF InheritInv, SearchInv, Passed, Checking
<1>4. ASSUME pc = "inherit"
      PROVE  Inheriting(current, stack, abstractMethods, methods, implements)
  BY <1>4 DEF InheritInv, Gathering
<1>5. ASSUME pc' \in {"refused", "cyclic", "overflow"}, pc' = "overflow" => (~Acyclic)'
      PROVE  InheritInv'
  BY <1>1, <1>5 DEF InheritInv, Checking
<1>6. CASE CheckDecl
  <2>1. PICK t \in unchecked :
          /\ unchecked' = unchecked \ {t} /\ current' = t
          /\ pc' = "acyclic" \/ pc' = "refused"
    BY <1>6 DEF CheckDecl
  <2>2. pc = "next" /\ t \in Types
    BY <1>1, <1>6 DEF CheckDecl, SearchInv
  <2>3. CASE pc' = "acyclic"
    <3>1. Judged' \subseteq Judged
      BY <1>2, <2>1, <2>2, <2>3 DEF Judged, Checking
    <3>2. \A u \in Judged : Judgement(u)
      BY <2>2 DEF InheritInv
    <3>3. current' \in Types' \ unchecked'
      BY <1>2, <2>1, <2>2
    <3>4. QED
      BY <1>1, <1>2, <2>3, <3>1, <3>2, <3>3 DEF InheritInv
  <2>4. QED
    BY <1>5, <2>1, <2>3
<1>7. CASE Accept
  <2>1. /\ pc = "next" /\ pc' = "accepted" /\ unchecked' = unchecked
    BY <1>7 DEF Accept
  <2>2. Judged' = Judged
    BY <1>2, <2>1 DEF Judged, Checking
  <2>3. QED
    BY <1>1, <1>2, <2>1, <2>2 DEF InheritInv, Checking
<1>8. CASE Descend \/ Skip \/ MeetCycle \/ EndSupertypes
  <2>1. /\ pc = "acyclic" /\ unchecked' = unchecked /\ current' = current
        /\ pc' \in {"acyclic", "duplicates", "cyclic"}
    BY <1>8 DEF Descend, Skip, MeetCycle, EndSupertypes, AtSupertype
  <2>2. CASE pc' # "cyclic"
    <3>1. (\A t \in Judged : Judgement(t))' /\ current' \in Types' \ unchecked'
      BY <1>1, <2>1, <2>2, KeepsJudged DEF Checking
    <3>2. QED
      BY <1>1, <2>1, <2>2, <3>1 DEF InheritInv
  <2>3. QED
    BY <1>5, <2>2
<1>9. CASE CheckDuplicateSignatures
  <2>1. /\ pc = "duplicates" /\ unchecked' = unchecked /\ current' = current
    BY <1>9 DEF CheckDuplicateSignatures
  <2>2. CASE DuplicateSignatures(current)
    BY <1>5, <1>9, <2>2 DEF CheckDuplicateSignatures
  <2>3. CASE ~DuplicateSignatures(current)
    <3>1. /\ pc' = "inherit" /\ stack' = <<Frame(current)>>
          /\ abstractMethods' = NoMap /\ methods' = NoMap /\ implements' = {}
      BY <1>9, <2>3 DEF CheckDuplicateSignatures
    <3>2. PICK frames, abs, con, impl :
            /\ frames = stack' /\ abs = abstractMethods' /\ con = methods' /\ impl = implements'
            /\ Inheriting(current, frames, abs, con, impl)
      BY <1>1, <1>3, <2>1, <3>1, InheritingStarts
    <3>3. Inheriting(current, frames, abs, con, impl)'
      BY <1>1, <2>1, <3>2, SameInheriting
    <3>4. Gathering'
      BY <3>2, <3>3 DEF Gathering
    <3>5. (~DuplicateSignatures(current))'
      BY <1>1, <2>1, <2>3, SameInheritance
    <3>6. (\A t \in Judged : Judgement(t))' /\ current' \in Types' \ unchecked'
      BY <1>1, <2>1, <3>1, KeepsJudged DEF Checking
    <3>7. QED
      BY <1>1, <3>1, <3>4, <3>5, <3>6 DEF InheritInv
  <2>4. QED
    BY <2>2, <2>3
<1>10. CASE PassOver
  <2>1. /\ pc = "inherit" /\ pc' = "inherit" /\ unchecked' = unchecked /\ current' = current
        /\ Top.next \in DOMAIN Candidates(Top.type) /\ ~Follows(Top.type, Top.next)
        /\ stack' = [stack EXCEPT ![Len(stack)].next = @ + 1]
        /\ abstractMethods' = abstractMethods /\ methods' = methods
        /\ implements' = implements
    BY <1>10 DEF PassOver, AtCandidate, inheritance
  <2>2. /\ Top = stack[Len(stack)]
        /\ \A k \in DOMAIN p[Top.type].methods : ~(Len(Candidates(Top.type)) + k = Top.next)
    BY <1>1, <1>4, <2>1, TopOfChain
  <2>3. Inheriting(current, [stack EXCEPT ![Len(stack)].next = @ + 1],
                   abstractMethods, methods, implements)
    BY <1>1, <1>4, <2>1, <2>2, InheritingMovesOn
  <2>4. QED
    BY <1>1, <2>1, <2>3, KeepsGathering
<1>11. CASE InheritFrom
  <2>1. /\ pc = "inherit" /\ unchecked' = unchecked /\ current' = current
        /\ Top.next \in DOMAIN Candidates(Top.type) /\ Follows(Top.type, Top.next)
        /\ \/ pc' = "overflow" /\ Len(stack) = Cardinality(Types)
           \/ /\ stack' = Append(stack, Frame(Candidates(Top.type)[Top.next]))
              /\ pc' = pc
        /\ abstractMethods' = abstractMethods /\ methods' = methods
        /\ implements' = implements
    BY <1>11 DEF InheritFrom, AtCandidate, inheritance
  <2>2. Top = stack[Len(stack)]
    BY <1>1, <1>4, <2>1, TopOfChain
  <2>3. Inheriting(current, Append(stack, Frame(Candidates(Top.type)[Top.next])),
                   abstractMethods, methods, implements)
    BY <1>1, <1>4, <2>1, <2>2, InheritingFollows
  <2>4. ASSUME pc' = "overflow"
        PROVE  (~Acyclic)'
    <3>1. Len(stack) = Cardinality(Types)
      BY <2>1, <2>4
    <3>2. ~Acyclic
      BY <1>1, <1>4, <2>1, <2>2, <3>1, OverflowShowsCycle DEF Inheriting
    <3>3. QED
      BY <1>1, <3>2, SameProgram
  <2>5. QED
    BY <1>1, <1>5, <2>1, <2>3, <2>4, KeepsGathering
<1>12. CASE AddOwnMethod
  <2>1. PICK m \in Range(p[Top.type].methods) :
          /\ AtOwnMethod(m)
          /\ IF ~m.constructor /\ Conflicts(m)
             THEN pc' = "refused" /\ UNCHANGED <<stack, inheritance>>
             ELSE /\ stack' = [stack EXCEPT ![Len(stack)].next = @ + 1]
                  /\ IF m.constructor THEN UNCHANGED inheritance
                     ELSE IF IsAbstract(Top.type, m) THEN AddAbstract(m)
                     ELSE AddConcrete(m)
                  /\ UNCHANGED pc
    BY <1>12 DEF AddOwnMethod
  <2>2. /\ pc = "inherit" /\ unchecked' = unchecked /\ current' = current
    BY <1>12 DEF AddOwnMethod
  <2>3. PICK i : /\ i \in DOMAIN p[Top.type].methods /\ m = p[Top.type].methods[i]
                 /\ Len(Candidates(Top.type)) + i = Top.next
                 /\ Top = stack[Len(stack)]
                 /\ ~(Top.next \in DOMAIN Candidates(Top.type))
                 /\ \A k \in DOMAIN p[Top.type].methods :
                      Len(Candidates(Top.type)) + k = Top.next => k = i
    BY <1>1, <1>4, <2>1, <2>2, TopOfChain
  <2>4. CASE ~m.constructor /\ Conflicts(m)
    BY <1>5, <2>1, <2>4
  <2>5. CASE m.constructor
    <3>1. /\ stack' = [stack EXCEPT ![Len(stack)].next = @ + 1] /\ pc' = pc
          /\ abstractMethods' = abstractMethods /\ methods' = methods
          /\ implements' = implements
      BY <2>1, <2>5 DEF inheritance
    <3>2. Inheriting(current, [stack EXCEPT ![Len(stack)].next = @ + 1],
                     abstractMethods, methods, implements)
      BY <1>1, <1>4, <2>2, <2>3, <2>5, InheritingMovesOn
    <3>3. QED
      BY <1>1, <2>2, <3>1, <3>2, KeepsGathering
  <2>6. CASE ~m.constructor /\ ~Conflicts(m)
    <3>1. /\ stack' = [stack EXCEPT ![Len(stack)].next = @ + 1] /\ pc' = pc
          /\ IF IsAbstract(Top.type, m) THEN AddAbstract(m) ELSE AddConcrete(m)
      BY <2>1, <2>6
    <3>2. /\ AgreesWith(m, abstractMethods, methods)
          /\ Adds(Top.type, m, abstractMethods, methods, implements,
                  abstractMethods', methods', implements')
      BY <2>6, <3>1, OwnMethodAdds
    <3>3. Inheriting(current, [stack EXCEPT ![Len(stack)].next = @ + 1],
                     abstractMethods', methods', implements')
      BY <1>1, <1>4, <2>2, <2>3, <2>6, <3>2, InheritingNotes
    <3>4. QED
      BY <1>1, <2>2, <3>1, <3>3, KeepsGathering
  <2>7. QED
    BY <2>4, <2>5, <2>6
<1>13. CASE EndInherited
  <2>1. /\ pc = "inherit" /\ unchecked' = unchecked /\ current' = current
        /\ Top.next > Len(Candidates(Top.type)) + Len(p[Top.type].methods)
        /\ stack' = Returned(stack)
        /\ pc' = IF Len(stack) = 1 THEN "overrides" ELSE pc
        /\ abstractMethods' = abstractMethods /\ methods' = methods
        /\ implements' = implements
    BY <1>13 DEF EndInherited, inheritance
  <2>2. Top = stack[Len(stack)] /\ (Len(stack) # 1 => Len(stack) > 1)
    BY <1>1, <1>4, <2>1, TopOfChain
  <2>3. CASE Len(stack) # 1
    <3>1. pc' = pc
      BY <2>1, <2>3
    <3>2. Inheriting(current, Returned(stack), abstractMethods, methods, implements)
      BY <1>1, <1>3, <1>4, <2>1, <2>2, <2>3, InheritingReturns
    <3>3. QED
      BY <1>1, <2>1, <3>1, <3>2, KeepsGathering
  <2>4. CASE Len(stack) = 1
    <3>1. /\ ResultsAgree(current)
          /\ DeclaresOnce(current) => DOMAIN abstractMethods \ implements = Required(current)
      BY <1>1, <1>3, <1>4, <2>1, <2>2, <2>4, InheritingEnds
    <3>2. pc' = "overrides"
      BY <2>1, <2>4
    <3>3. Unimplemented' = DOMAIN abstractMethods \ implements
      BY <2>1 DEF Unimplemented
    <3>4. /\ ResultsAgree(current)'
          /\ DeclaresOnce(current)' => Unimplemented' = Required(current)'
      BY <1>1, <2>1, <3>1, <3>3, SameRequired
    <3>5. (~DuplicateSignatures(current))'
      BY <1>1, <2>1, SameInheritance DEF InheritInv
    <3>6. (\A t \in Judged : Judgement(t))' /\ current' \in Types' \ unchecked'
      BY <1>1, <2>1, <3>2, KeepsJudged DEF Checking
    <3>7. QED
      BY <1>1, <3>2, <3>4, <3>5, <3>6 DEF InheritInv
  <2>5. QED
    BY <2>3, <2>4
<1>14. CASE CheckOverrides
  <2>1. /\ pc = "overrides" /\ unchecked' = unchecked
        /\ pc' = "refused" \/
             (pc' = "next" /\ ImplementsAll(current)
                /\ \A m \in Own(current) : MayReplace(current, m))
    BY <1>14 DEF CheckOverrides
  <2>2. ASSUME pc' = "next"
        PROVE  InheritInv'
    <3>1. Judgement(current)
      BY <2>1, <2>2 DEF InheritInv, Judgement, ImplementsAll
    <3>2. Judged' \subseteq Judged \cup {current}
      BY <1>2, <2>1, <2>2 DEF Judged, Checking
    <3>3. \A t \in Judged : Judgement(t)
      BY <2>1 DEF InheritInv
    <3>4. QED
      BY <1>1, <1>2, <2>2, <3>1, <3>2, <3>3 DEF InheritInv, Checking
  <2>3. QED
    BY <1>5, <2>1, <2>2
<1>15. CASE UNCHANGED vars
  <2>1. /\ unchecked' = unchecked /\ current' = current /\ pc' = pc /\ stack' = stack
        /\ abstractMethods' = abstractMethods /\ methods' = methods
        /\ implements' = implements
    BY <1>15 DEF vars
  <2>2. CASE pc = "inherit"
    BY <1>1, <1>4, <2>1, <2>2, KeepsGathering
  <2>3. CASE pc # "inherit"
    <3>1. Judged' = Judged /\ Unimplemented' = Unimplemented
      BY <1>2, <2>1 DEF Judged, Unimplemented
    <3>2. /\ DuplicateSignatures(current)' <=> DuplicateSignatures(current)
          /\ ResultsAgree(current)' <=> ResultsAgree(current)
          /\ DeclaresOnce(current)' <=> DeclaresOnce(current)
          /\ Required(current)' = Required(current)
      BY <1>1, <2>1, SameInheritance, SameRequired
    <3>3. pc' \notin {"refused", "cyclic", "overflow"} => (\A t \in Judged : Judgement(t))'
      BY <1>2, <2>1, <3>1 DEF InheritInv
    <3>4. pc' = "overrides" => ResultsAgree(current)'
                 /\ (DeclaresOnce(current)' => Unimplemented' = Required(current)')
      BY <2>1, <3>1, <3>2 DEF InheritInv
    <3>5. (pc \in Checking)' => current' \in Types' \ unchecked'
      BY <1>2, <2>1 DEF InheritInv, Checking
    <3>6. pc' \in {"inherit", "overrides"} => ~DuplicateSignatures(current)'
      BY <2>1, <3>2 DEF InheritInv
    <3>7. (pc = "overflow" => ~Acyclic)'
      BY <1>1, <2>1, SameProgram DEF InheritInv
    <3>8. QED
      BY <1>1, <2>1, <2>3, <3>3, <3>4, <3>5, <3>6, <3>7 DEF InheritInv
  <2>4. QED
    BY <2>2, <2>3
<1>16. QED
  BY <1>6, <1>7, <1>8, <1>9, <1>10, <1>11, <1>12, <1>13, <1>14, <1>15 DEF Next
-----------------------------------------------------------------------------
LEMMA InheritInvIsInvariant == Spec => []InheritInv
<1>1. Init => InheritInv
  BY InitEstablishesInheritInv
<1>2. InheritInv /\ [Next]_vars => InheritInv'
  BY StepKeepsInheritInv
<1>3. QED
  BY <1>1, <1>2, PTL DEF Spec

\* For every program and every order of its types: a type that passes
\* checkAcyclic has no cycle of its kind above it, a program whose types are
\* all accepted has no cycle at all, and a type that fails shows one, as does one
\* whose inherited methods are gathered without end.
THEOREM AcyclicityIsDecided == Spec => []DecidesAcyclicity
<1>1. Spec => []InheritInv
  BY InheritInvIsInvariant
<1>2. InheritInv => DecidesAcyclicity
  <2> SUFFICES ASSUME InheritInv
               PROVE  DecidesAcyclicity
    OBVIOUS
  <2>1. ASSUME pc = "accepted"
        PROVE  Acyclic
    <3>1. /\ program \in DOMAIN ProgramOf /\ Passed = Types
          /\ \A t \in Types : ProperExtends(t) /\ NoCycleAbove(t)
      BY <2>1 DEF InheritInv, SearchInv, Passed
    <3>2. QED
      BY <3>1, AcyclicFromKin
  <2>2. QED
    BY <2>1 DEF InheritInv, SearchInv, DecidesAcyclicity
<1>3. QED
  BY <1>1, <1>2, PTL

\* A type that is accepted keeps the results of java.lang.Object's methods.
LEMMA ObjectsResultsAreKept ==
  ASSUME program \in DOMAIN ProgramOf, NEW a \in Types, Judgement(a), Judgement(Object),
         NEW m \in Own(a), NEW n \in Own(Object),
         m.signature = n.signature, ~m.constructor, ~n.constructor
  PROVE  m.result = n.result
<1>1. MayReplace(a, m) /\ ResultsAgree(Object)
  BY DEF Judgement
<1>2. Object \in Types /\ isClass(Object)
  BY ProgramIsWellFormed DEF IsProgram, Types, isClass
<1>3. CASE a = Object
  BY <1>1, <1>2, <1>3, AncestorsAreTypes DEF ResultsAgree
<1>4. CASE isInterface(a)
  BY <1>1, <1>4 DEF MayReplace
<1>5. CASE isClass(a) /\ a # Object
  <2>1. SuperClasses(a) = Append(p[a].extends, Object) /\ p[a].extends \in Seq(Types)
    BY <1>5, ProgramIsWellFormed DEF SuperClasses, IsProgram, Types
  <2>2. Object \in Range(SuperClasses(a))
    <3>1. /\ Len(p[a].extends) + 1 \in DOMAIN Append(p[a].extends, Object)
          /\ Append(p[a].extends, Object)[Len(p[a].extends) + 1] = Object
      BY <1>2, <2>1
    <3>2. QED
      BY <2>1, <3>1 DEF Range
  <2>3. n \in Replaced(a, m)
    BY <1>2, <1>5, <2>2 DEF Replaced
  <2>4. QED
    BY <1>1, <1>5, <2>3 DEF MayReplace
<1>6. QED
  BY <1>3, <1>4, <1>5, Kinds

\* For every program and every order of its types: when getInheritedMethods
\* returns, what it has gathered and not crossed out is exactly what the type
\* must still define, and an accepted program has no concrete class that lacks
\* a method.
THEOREM UnimplementedIsFound == Spec => []FindsUnimplemented
<1>1. Spec => []InheritInv
  BY InheritInvIsInvariant
<1>2. InheritInv => FindsUnimplemented
  <2> SUFFICES ASSUME InheritInv
               PROVE  FindsUnimplemented
    OBVIOUS
  <2>1. ASSUME pc = "accepted", NEW c \in Types, isClass(c), "abstract" \notin p[c].modifiers
        PROVE  Required(c) = {}
    <3>1. \A t \in Types : Judgement(t)
      BY <2>1 DEF InheritInv, SearchInv, Judged, Checking
    <3>2. DeclaresOnce(c)
      BY <3>1, AncestorsAreTypes DEF DeclaresOnce, Judgement
    <3>3. QED
      BY <2>1, <3>1, <3>2 DEF Judgement
  <2>2. QED
    BY <2>1 DEF FindsUnimplemented, InheritInv
<1>3. QED
  BY <1>1, <1>2, PTL

\* For every program and every order of its types: in an accepted program, all
\* methods of one signature that a type inherits have one result.
THEOREM ResultsAreKept == Spec => []SameSignatureSameResult
<1>1. Spec => []InheritInv
  BY InheritInvIsInvariant
<1>2. InheritInv => SameSignatureSameResult
  <2> SUFFICES ASSUME InheritInv, pc = "accepted",
                      NEW t \in Types, NEW a \in Ancestors(t) \cup {Object},
                      NEW b \in Ancestors(t) \cup {Object},
                      NEW m \in Own(a), NEW n \in Own(b),
                      m.signature = n.signature, ~m.constructor, ~n.constructor
               PROVE  m.result = n.result
    BY DEF SameSignatureSameResult
  <2>1. program \in DOMAIN ProgramOf /\ \A u \in Types : Judgement(u)
    BY DEF InheritInv, SearchInv, Judged, Checking
  <2>2. Object \in Types
    BY <2>1, ProgramIsWellFormed DEF IsProgram, Types
  <2>3. a \in Types /\ b \in Types
    BY <2>2, AncestorsAreTypes
  <2>4. CASE a = Object
    BY <2>1, <2>2, <2>3, <2>4, ObjectsResultsAreKept
  <2>5. CASE b = Object
    BY <2>1, <2>2, <2>3, <2>5, ObjectsResultsAreKept
  <2>6. CASE a \in Ancestors(t) /\ b \in Ancestors(t)
    BY <2>1, <2>6 DEF Judgement, ResultsAgree
  <2>7. QED
    BY <2>4, <2>5, <2>6
<1>3. QED
  BY <1>1, <1>2, PTL
-----------------------------------------------------------------------------
(***************************************************************************)
(* Types.  A stack of checkAcyclicHelper holds no more calls than types    *)
(* that have been visited, and one of getInheritedMethods no more than     *)
(* there are types.                                                        *)
(***************************************************************************)
TypeInv ==
  /\ InheritInv /\ TypeOK
  /\ pc = "acyclic" => Len(stack) <= Cardinality(visited)

MapOK(map) == \A s \in DOMAIN map : map[s] \in Method /\ map[s].signature = s

LEMMA AddedMapOK ==
  ASSUME NEW map, MapOK(map), NEW m \in Method
  PROVE  MapOK(AddIfAbsent(map, m))
BY DEF MapOK, AddIfAbsent

LEMMA TypesAreFinite ==
  ASSUME program \in DOMAIN ProgramOf
  PROVE  /\ IsFiniteSet(Types) /\ Cardinality(Types) \in Nat /\ Cardinality(Types) >= 1
         /\ \A S \in SUBSET Types :
              IsFiniteSet(S) /\ Cardinality(S) \in Nat /\ Cardinality(S) <= Cardinality(Types)
         /\ \A t \in Types : Cardinality({t}) = 1
         /\ \A S \in SUBSET Types : \A t \in Types \ S :
              Cardinality(S \cup {t}) = Cardinality(S) + 1
<1>1. IsFiniteSet(Types) /\ Object \in Types
  BY ProgramIsWellFormed DEF IsProgram, Types
<1>2. Cardinality(Types) \in Nat
  BY <1>1, FS_CardinalityType
<1>3. ASSUME NEW S \in SUBSET Types
      PROVE  IsFiniteSet(S) /\ Cardinality(S) \in Nat /\ Cardinality(S) <= Cardinality(Types)
  BY <1>1, FS_Subset, FS_CardinalityType
<1>4. \A t \in Types : Cardinality({t}) = 1
  BY FS_Singleton
<1>5. Cardinality(Types) >= 1
  <2>1. Cardinality({Object}) <= Cardinality(Types) /\ Cardinality({Object}) = 1
    BY <1>1, <1>3, <1>4
  <2>2. QED
    BY <1>2, <2>1
<1>6. ASSUME NEW S \in SUBSET Types, NEW t \in Types \ S
      PROVE  Cardinality(S \cup {t}) = Cardinality(S) + 1
  <2>1. IsFiniteSet(S)
    BY <1>3
  <2>2. Cardinality(S \cup {t}) = IF t \in S THEN Cardinality(S) ELSE Cardinality(S) + 1
    BY <2>1, FS_AddElement
  <2>3. QED
    BY <2>2
<1>7. QED
  BY <1>1, <1>2, <1>3, <1>4, <1>5, <1>6

\* How long a stack is after its last call has returned.
LEMMA ReturnedLength ==
  ASSUME NEW frames \in Seq(FrameSet), frames # << >>
  PROVE  /\ Len(frames) \in Nat \ {0} /\ Len(Returned(frames)) = Len(frames) - 1
         /\ Len(frames) = 1 => Returned(frames) = << >>
<1>1. Len(frames) \in Nat \ {0}
  OBVIOUS
<1>2. CASE Len(frames) = 1
  BY <1>2 DEF Returned
<1>3. CASE Len(frames) # 1
  <2>1. Len(frames) > 1
    <3>1. \A n \in Nat \ {0} : n # 1 => n > 1
      OBVIOUS
    <3>2. QED
      BY <1>1, <1>3, <3>1
  <2>2. LET r == Returned(frames)
            k == Len(frames) - 1
        IN  /\ r \in Seq(FrameSet) /\ Len(r) = k /\ r # << >>
            /\ \A j \in 1..(k - 1) : r[j] = frames[j]
            /\ r[k].type = frames[k].type /\ r[k].next = frames[k].next + 1
    BY <2>1, ReturnedFrames DEF FrameSet
  <2>3. QED
    BY <1>1, <1>3, <2>2
<1>4. QED
  BY <1>2, <1>3

LEMMA InitEstablishesTypeInv == Init => TypeInv
<1> SUFFICES ASSUME Init
             PROVE  TypeInv
  OBVIOUS
<1>1. InheritInv /\ program \in DOMAIN ProgramOf
  BY InitEstablishesInheritInv DEF Init
<1>2. Object \in Types
  BY <1>1, ProgramIsWellFormed DEF IsProgram, Types
<1>3. stack \in Seq(FrameSet) /\ Len(stack) <= Cardinality(Types)
  <2>1. stack = << >> /\ Len(<< >>) = 0
    BY DEF Init
  <2>2. QED
    BY <1>1, <2>1, TypesAreFinite
<1>4. DOMAIN NoMap = {}
  BY DEF NoMap
<1>5. QED
  BY <1>1, <1>2, <1>3, <1>4 DEF Init, TypeInv, TypeOK

\* The stack of a search or of a gathering.
LEMMA StackIsTyped ==
  ASSUME InheritInv
  PROVE  pc \in {"acyclic", "inherit"} => stack \in Seq(FrameSet) /\ stack # << >>
BY DEF InheritInv, SearchInv, InSearch, IsCall, Gathering, Inheriting, InheritChain

LEMMA StackStaysTyped ==
  ASSUME InheritInv', program' = program
  PROVE  pc' \in {"acyclic", "inherit"} => stack' \in Seq(FrameSet) /\ stack' # << >>
<1>1. FrameSet' = FrameSet
  BY SameInheritance
<1>2. ASSUME pc' = "acyclic"
      PROVE  stack' \in Seq(FrameSet) /\ stack' # << >>
  BY <1>1, <1>2 DEF InheritInv, SearchInv, InSearch, IsCall
<1>3. ASSUME pc' = "inherit"
      PROVE  stack' \in Seq(FrameSet) /\ stack' # << >>
  BY <1>1, <1>3 DEF InheritInv, Gathering, Inheriting, InheritChain
<1>4. QED
  BY <1>2, <1>3

\* What each step does to the length of the stack.
LEMMA StepKeepsLength ==
  ASSUME TypeInv, [Next]_vars
  PROVE  /\ Len(stack') <= Cardinality(Types)
         /\ pc' = "acyclic" => Len(stack') <= Cardinality(visited')
         /\ visited' \subseteq Types /\ inStack' \subseteq visited'
<1>1. /\ InheritInv /\ program \in DOMAIN ProgramOf
      /\ stack \in Seq(FrameSet) /\ Len(stack) <= Cardinality(Types)
      /\ visited \subseteq Types /\ inStack \subseteq visited
      /\ pc = "acyclic" => Len(stack) <= Cardinality(visited)
  BY DEF TypeInv, TypeOK
<1>2. /\ Cardinality(Types) \in Nat /\ Cardinality(Types) >= 1
      /\ Cardinality(visited) \in Nat /\ Cardinality(visited) <= Cardinality(Types)
      /\ Len(stack) \in Nat /\ Len(<< >>) = 0
  BY <1>1, TypesAreFinite
<1>3. pc \in {"acyclic", "inherit"} =>
        /\ Len(stack) \in Nat \ {0}
        /\ Len(Returned(stack)) = Len(stack) - 1
  BY <1>1, StackIsTyped, ReturnedLength
<1>4. ASSUME stack' = stack, visited' = visited, inStack' = inStack,
             pc' = "acyclic" => pc = "acyclic"
      PROVE  /\ Len(stack') <= Cardinality(Types)
             /\ pc' = "acyclic" => Len(stack') <= Cardinality(visited')
             /\ visited' \subseteq Types /\ inStack' \subseteq visited'
  BY <1>1, <1>4
\* The same number of calls.
<1>5. ASSUME pc \in {"acyclic", "inherit"}, stack' = [stack EXCEPT ![Len(stack)].next = @ + 1]
      PROVE  Len(stack') = Len(stack)
  <2>1. stack # << >>
    BY <1>1, <1>5, StackIsTyped
  <2>2. LET r == [stack EXCEPT ![Len(stack)].next = @ + 1]
            k == Len(stack)
        IN  /\ r \in Seq(FrameSet) /\ Len(r) = k
            /\ \A j \in 1..(k - 1) : r[j] = stack[j]
            /\ r[k].type = stack[k].type /\ r[k].next = stack[k].next + 1
    BY <1>1, <2>1, BumpedFrames
  <2>3. QED
    BY <1>5, <2>2
<1>6. CASE CheckDecl
  <2>1. PICK t \in unchecked :
          \/ stack' = <<Frame(t)>> /\ visited' = {t} /\ inStack' = {t}
          \/ stack' = stack /\ visited' = visited /\ inStack' = inStack /\ pc' = "refused"
    BY <1>6 DEF CheckDecl, search
  <2>2. t \in Types /\ Len(<<Frame(t)>>) = 1 /\ Cardinality({t}) = 1
    BY <1>1, TypesAreFinite DEF TypeInv, TypeOK
  <2>3. CASE stack' = <<Frame(t)>> /\ visited' = {t} /\ inStack' = {t}
    BY <1>2, <2>2, <2>3
  <2>4. QED
    BY <1>4, <2>1, <2>3
<1>7. CASE Accept
  BY <1>4, <1>7 DEF Accept, search
<1>8. CASE Descend
  <2>1. /\ pc = "acyclic" /\ AtSupertype /\ Supertype \notin visited
        /\ stack' = Append(stack, Frame(Supertype))
        /\ visited' = visited \cup {Supertype} /\ inStack' = inStack \cup {Supertype}
    BY <1>8 DEF Descend, AtSupertype
  <2>2. IsCall(stack)
    BY <1>1, <2>1 DEF InheritInv, SearchInv, InSearch
  <2>3. Supertype \in Types /\ Len(Append(stack, Frame(Supertype))) = Len(stack) + 1
    BY <1>1, <2>1, <2>2, TopFrame, DescendKeepsCall
  <2>4. visited' \in SUBSET Types /\ inStack' \subseteq visited'
    BY <1>1, <2>1, <2>3
  <2>5. /\ Cardinality(visited') = Cardinality(visited) + 1
        /\ Cardinality(visited') \in Nat /\ Cardinality(visited') <= Cardinality(Types)
    BY <1>1, <2>1, <2>3, <2>4, TypesAreFinite
  <2>6. Len(stack') = Len(stack) + 1 /\ Len(stack) <= Cardinality(visited)
    BY <1>1, <2>1, <2>3
  <2>7. QED
    BY <1>2, <2>4, <2>5, <2>6
<1>9. CASE Skip
  <2>1. /\ pc = "acyclic" /\ stack' = [stack EXCEPT ![Len(stack)].next = @ + 1]
        /\ visited' = visited /\ inStack' = inStack
    BY <1>9 DEF Skip, AtSupertype, search
  <2>2. QED
    BY <1>1, <1>5, <2>1
<1>10. CASE MeetCycle
  <2>1. /\ pc = "acyclic" /\ visited' = visited /\ inStack' = inStack
    BY <1>10 DEF MeetCycle, AtSupertype, search
  <2>2. CASE stack' = stack
    BY <1>4, <2>1, <2>2
  <2>3. ASSUME NEW n \in 1..(Len(stack) - 1), stack' = Returned(SubSeq(stack, 1, n + 1))
        PROVE  Len(stack') <= Len(stack)
    <3>1. IsCall(stack)
      BY <1>1, <2>1 DEF InheritInv, SearchInv, InSearch
    <3>2. PICK s : s = SubSeq(stack, 1, n + 1) /\ IsCall(s) /\ Len(s) = n + 1
      BY <1>1, <3>1, InitialCalls
    <3>3. Len(Returned(s)) = Len(s) - 1
      BY <3>2, ReturnedLength DEF IsCall
    <3>4. QED
      BY <1>2, <2>3, <3>2, <3>3
  <2>4. stack' = stack \/ Len(stack') <= Len(stack)
    BY <1>10, <2>3 DEF MeetCycle
  <2>5. CASE Len(stack') <= Len(stack)
    <3>1. stack' # stack => pc' = "acyclic"
      BY <1>10, <2>1 DEF MeetCycle
    <3>2. stack' # stack => stack' \in Seq(FrameSet)
      BY <1>1, <3>1, StepKeepsInheritInv, StackStaysTyped, ProgramIsFixed
    <3>3. Len(stack') \in Nat
      BY <1>1, <3>2
    <3>4. QED
      BY <1>1, <1>2, <2>1, <2>5, <3>3
  <2>6. QED
    BY <2>2, <2>4, <2>5
<1>11. CASE EndSupertypes
  <2>1. /\ pc = "acyclic" /\ stack' = Returned(stack)
        /\ visited' = visited /\ inStack' \subseteq inStack
    BY <1>11 DEF EndSupertypes, LeaveStack
  <2>2. Len(stack') = Len(stack) - 1
    BY <1>3, <2>1
  <2>3. QED
    BY <1>1, <1>2, <2>1, <2>2
<1>12. CASE CheckDuplicateSignatures
  <2>1. /\ visited' = visited /\ inStack' = inStack /\ pc' # "acyclic"
        /\ stack' = stack \/ stack' = <<Frame(current)>>
    BY <1>12 DEF CheckDuplicateSignatures, search
  <2>2. Len(<<Frame(current)>>) = 1
    OBVIOUS
  <2>3. QED
    BY <1>1, <1>2, <2>1, <2>2
<1>13. CASE PassOver \/ AddOwnMethod
  <2>1. /\ pc = "inherit" /\ pc' # "acyclic" /\ visited' = visited /\ inStack' = inStack
        /\ stack' = stack \/ stack' = [stack EXCEPT ![Len(stack)].next = @ + 1]
    BY <1>13 DEF PassOver, AtCandidate, AddOwnMethod, search
  <2>2. QED
    BY <1>1, <1>5, <2>1
<1>14. CASE InheritFrom
  <2>1. /\ pc = "inherit" /\ pc' # "acyclic" /\ visited' = visited /\ inStack' = inStack
        /\ \/ stack' = stack
           \/ /\ Len(stack) # Cardinality(Types)
              /\ stack' = Append(stack, Frame(Candidates(Top.type)[Top.next]))
    BY <1>14 DEF InheritFrom, AtCandidate, search
  <2>2. Len(Append(stack, Frame(Candidates(Top.type)[Top.next]))) = Len(stack) + 1
    BY <1>1
  <2>3. QED
    BY <1>1, <1>2, <2>1, <2>2
<1>15. CASE EndInherited
  <2>1. /\ pc = "inherit" /\ pc' # "acyclic" /\ visited' = visited /\ inStack' = inStack
        /\ stack' = Returned(stack)
    BY <1>15 DEF EndInherited, search
  <2>2. Len(stack') = Len(stack) - 1
    BY <1>3, <2>1
  <2>3. QED
    BY <1>1, <1>2, <2>1, <2>2
<1>16. CASE CheckOverrides
  BY <1>4, <1>16 DEF CheckOverrides, search
<1>17. CASE UNCHANGED vars
  BY <1>4, <1>17 DEF vars
<1>18. QED
  BY <1>6, <1>7, <1>8, <1>9, <1>10, <1>11, <1>12, <1>13, <1>14, <1>15, <1>16, <1>17 DEF Next

\* What each step does to the maps.
LEMMA StepKeepsMaps ==
  ASSUME TypeInv, [Next]_vars
  PROVE  /\ MapOK(abstractMethods') /\ MapOK(methods')
         /\ implements' \subseteq DOMAIN abstractMethods'
<1>1. /\ MapOK(abstractMethods) /\ MapOK(methods) /\ implements \subseteq DOMAIN abstractMethods
      /\ program \in DOMAIN ProgramOf
  BY DEF TypeInv, TypeOK, MapOK
<1>2. CASE UNCHANGED inheritance
  BY <1>1, <1>2 DEF inheritance
<1>3. CASE CheckDuplicateSignatures
  <2>1. \/ UNCHANGED inheritance
        \/ abstractMethods' = NoMap /\ methods' = NoMap /\ implements' = {}
    BY <1>3 DEF CheckDuplicateSignatures
  <2>2. MapOK(NoMap)
    BY DEF MapOK, NoMap
  <2>3. QED
    BY <1>2, <2>1, <2>2
<1>4. CASE AddOwnMethod
  <2>1. PICK m \in Range(p[Top.type].methods) :
          UNCHANGED inheritance \/ AddAbstract(m) \/ AddConcrete(m)
    BY <1>4 DEF AddOwnMethod
  <2>2. m \in Method
    <3>1. pc = "inherit" /\ InheritInv
      BY <1>4 DEF AddOwnMethod, TypeInv
    <3>2. Inheriting(current, stack, abstractMethods, methods, implements)
      BY <3>1 DEF InheritInv, Gathering
    <3>3. InheritChain(current, stack)
      BY <3>2 DEF Inheriting
    <3>4. Len(stack) \in 1..Len(stack) /\ Top = stack[Len(stack)]
      BY <1>1, <3>3, ChainFrames DEF Top, Last
    <3>5. Top.type \in Types
      BY <1>1, <3>3, <3>4, ChainFrames
    <3>6. QED
      BY <1>1, <3>5, MethodsAreMethods DEF Own
  <2>3. CASE AddAbstract(m)
    <3>1. /\ abstractMethods' = AddIfAbsent(abstractMethods, m) /\ methods' = methods
          /\ implements' \subseteq implements
      BY <2>3 DEF AddAbstract, AfterAbstract
    <3>2. DOMAIN abstractMethods \subseteq DOMAIN AddIfAbsent(abstractMethods, m)
      BY AddedMap DEF IsAdded
    <3>3. QED
      BY <1>1, <2>2, <3>1, <3>2, AddedMapOK
  <2>4. CASE AddConcrete(m)
    <3>1. /\ methods' = AddIfAbsent(methods, m) /\ abstractMethods' = abstractMethods
          /\ implements' \subseteq DOMAIN abstractMethods
      BY <1>1, <2>4 DEF AddConcrete
    <3>2. QED
      BY <1>1, <2>2, <3>1, AddedMapOK
  <2>5. QED
    BY <1>2, <2>1, <2>3, <2>4
<1>5. QED
  BY <1>2, <1>3, <1>4 DEF Next, vars, inheritance, CheckDecl, Accept, Descend, Skip,
     MeetCycle, EndSupertypes, PassOver, InheritFrom, EndInherited, CheckOverrides

\* What each step does to the rest.
LEMMA StepKeepsControl ==
  ASSUME TypeInv, [Next]_vars
  PROVE  /\ unchecked' \subseteq Types /\ current' \in Types
         /\ pc' \in {"next", "acyclic", "duplicates", "inherit", "overrides",
                     "accepted", "refused", "cyclic", "overflow"}
         /\ pc' \notin {"acyclic", "inherit"} => stack' = stack \/ stack' = << >>
         /\ pc' = "overflow" => stack' = stack /\ pc \in {"inherit", "overflow"}
<1>1. /\ unchecked \subseteq Types /\ current \in Types
      /\ pc \in {"next", "acyclic", "duplicates", "inherit", "overrides",
                 "accepted", "refused", "cyclic", "overflow"}
  BY DEF TypeInv, TypeOK
<1>2. pc \in {"acyclic", "inherit"} => (Len(stack) = 1 => Returned(stack) = << >>)
  BY StackIsTyped, ReturnedLength DEF TypeInv
<1>3. CASE CheckDecl
  BY <1>1, <1>3 DEF CheckDecl
<1>4. CASE Accept
  BY <1>1, <1>4 DEF Accept
<1>5. CASE Descend \/ Skip \/ MeetCycle
  BY <1>1, <1>5 DEF Descend, Skip, MeetCycle, AtSupertype
<1>6. CASE EndSupertypes
  BY <1>1, <1>2, <1>6 DEF EndSupertypes
<1>7. CASE CheckDuplicateSignatures
  BY <1>1, <1>7 DEF CheckDuplicateSignatures
<1>8. CASE PassOver
  BY <1>1, <1>8 DEF PassOver, AtCandidate
<1>9. CASE InheritFrom
  BY <1>1, <1>9 DEF InheritFrom, AtCandidate
<1>10. CASE AddOwnMethod
  BY <1>1, <1>10 DEF AddOwnMethod
<1>11. CASE EndInherited
  BY <1>1, <1>2, <1>11 DEF EndInherited
<1>12. CASE CheckOverrides
  BY <1>1, <1>12 DEF CheckOverrides
<1>13. CASE UNCHANGED vars
  BY <1>1, <1>13 DEF vars
<1>14. QED
  BY <1>3, <1>4, <1>5, <1>6, <1>7, <1>8, <1>9, <1>10, <1>11, <1>12, <1>13 DEF Next

LEMMA StepKeepsTypeInv == TypeInv /\ [Next]_vars => TypeInv'
<1> SUFFICES ASSUME TypeInv, [Next]_vars
             PROVE  TypeInv'
  OBVIOUS
<1>1. InheritInv' /\ program' = program
  BY StepKeepsInheritInv, ProgramIsFixed DEF TypeInv
<1>2. p' = p /\ Types' = Types /\ FrameSet' = FrameSet
  BY <1>1, SameInheritance
<1>3. /\ Len(stack') <= Cardinality(Types)
      /\ pc' = "acyclic" => Len(stack') <= Cardinality(visited')
      /\ visited' \subseteq Types /\ inStack' \subseteq visited'
  BY StepKeepsLength
<1>4. /\ MapOK(abstractMethods') /\ MapOK(methods')
      /\ implements' \subseteq DOMAIN abstractMethods'
  BY StepKeepsMaps
<1>5. /\ unchecked' \subseteq Types /\ current' \in Types
      /\ pc' \in {"next", "acyclic", "duplicates", "inherit", "overrides",
                  "accepted", "refused", "cyclic", "overflow"}
      /\ pc' \notin {"acyclic", "inherit"} => stack' = stack \/ stack' = << >>
      /\ pc' = "overflow" => stack' = stack /\ pc \in {"inherit", "overflow"}
  BY StepKeepsControl
<1>6. pc' \in {"acyclic", "inherit"} => stack' \in Seq(FrameSet) /\ stack' # << >>
  BY <1>1, StackStaysTyped
<1>7. stack' \in Seq(FrameSet) /\ (pc' = "overflow" => stack' # << >>)
  <2>1. stack \in Seq(FrameSet) /\ (pc \in {"inherit", "overflow"} => stack # << >>)
    BY DEF TypeInv, TypeOK
  <2>2. << >> \in Seq(FrameSet)
    OBVIOUS
  <2>3. stack' \in Seq(FrameSet)
    BY <1>5, <1>6, <2>1, <2>2
  <2>4. QED
    BY <1>5, <2>1, <2>3
<1>8. program' \in DOMAIN ProgramOf
  BY <1>1 DEF TypeInv, TypeOK
<1>9. \A map \in {abstractMethods', methods'} :
        \A s \in DOMAIN map : map[s] \in Method /\ map[s].signature = s
  BY <1>4 DEF MapOK
<1>10. TypeOK'
  BY <1>2, <1>3, <1>4, <1>5, <1>6, <1>7, <1>8, <1>9 DEF TypeOK
<1>11. QED
  BY <1>1, <1>3, <1>10 DEF TypeInv

\* For every program: the state stays within its types, the two recursions are
\* never deeper than there are types, and the maps hold each method under its
\* own signature.
THEOREM HierarchyTypes == Spec => []TypeOK
<1>1. Init => TypeInv
  BY InitEstablishesTypeInv
<1>2. TypeInv /\ [Next]_vars => TypeInv'
  BY StepKeepsTypeInv
<1>3. TypeInv => TypeOK
  BY DEF TypeInv
<1>4. QED
  BY <1>1, <1>2, <1>3, PTL DEF Spec
-----------------------------------------------------------------------------
(***************************************************************************)
(* Why the checks end, getInheritedMethods among them, which remembers no  *)
(* type it has been to: its calls stand at a place of a walk that is never *)
(* come back to, and there are finitely many places.                       *)
(***************************************************************************)
\* One more than the steps of the loops in a call for t.
LastStep(t) == Len(Candidates(t)) + Len(p[t].methods) + 1

InBounds(frames) == \A n \in 1..Len(frames) : frames[n].next <= LastStep(frames[n].type)

\* The places of a walk, of which there are finitely many.
Walks == {frames \in Seq(FrameSet) : Len(frames) <= Cardinality(Types) /\ InBounds(frames)}

\* The first call where the two differ is further on in s than in r, or s goes
\* on where r has ended.
Later(s, r) ==
  \E k \in 1..Len(s) :
    /\ k \in 1..Len(r) => s[k].next > r[k].next
    /\ \A j \in 1..(k - 1) : j \in 1..Len(r) /\ s[j].next = r[j].next

LEMMA NextsAreNumbers ==
  ASSUME NEW S, NEW s \in Seq([type : S, next : Nat \ {0}])
  PROVE  Len(s) \in Nat /\ \A n \in 1..Len(s) : s[n].next \in Nat
<1>1. Len(s) \in Nat
  OBVIOUS
<1>2. \A n \in 1..Len(s) : s[n] \in [type : S, next : Nat \ {0}]
  BY ElementOfSeq
<1>3. QED
  BY <1>1, <1>2

\* Later is irreflexive and transitive.
LEMMA LaterIsAnOrder ==
  ASSUME NEW S, NEW r \in Seq([type : S, next : Nat \ {0}]),
         NEW s \in Seq([type : S, next : Nat \ {0}]), NEW t \in Seq([type : S, next : Nat \ {0}])
  PROVE  ~Later(r, r) /\ (Later(s, r) /\ Later(t, s) => Later(t, r))
<1>1. /\ Len(r) \in Nat /\ Len(s) \in Nat /\ Len(t) \in Nat
      /\ \A n \in 1..Len(r) : r[n].next \in Nat
      /\ \A n \in 1..Len(s) : s[n].next \in Nat
      /\ \A n \in 1..Len(t) : t[n].next \in Nat
  BY NextsAreNumbers
<1>2. ~Later(r, r)
  BY <1>1 DEF Later
<1>3. ASSUME Later(s, r), Later(t, s)
      PROVE  Later(t, r)
  <2>1. PICK k \in 1..Len(s) :
          /\ k \in 1..Len(r) => s[k].next > r[k].next
          /\ \A j \in 1..(k - 1) : j \in 1..Len(r) /\ s[j].next = r[j].next
    BY <1>3 DEF Later
  <2>2. PICK l \in 1..Len(t) :
          /\ l \in 1..Len(s) => t[l].next > s[l].next
          /\ \A j \in 1..(l - 1) : j \in 1..Len(s) /\ t[j].next = s[j].next
    BY <1>3 DEF Later
  <2>3. CASE k < l
    <3>1. k \in 1..(l - 1) /\ k \in 1..Len(t)
      BY <1>1, <2>1, <2>2, <2>3
    <3>2. \A j \in 1..(k - 1) : j \in 1..(l - 1) /\ j \in 1..(k - 1)
      BY <1>1, <2>1, <2>2, <2>3
    <3>3. \A j \in 1..(k - 1) : j \in 1..Len(r) /\ t[j].next = r[j].next
      BY <2>1, <2>2, <3>2
    <3>4. k \in 1..Len(r) => t[k].next > r[k].next
      BY <2>1, <2>2, <3>1
    <3>5. QED
      BY <3>1, <3>3, <3>4 DEF Later
  <2>4. CASE l <= k
    <3>1. l \in 1..Len(s) /\ \A j \in 1..(l - 1) : j \in 1..(k - 1)
      BY <1>1, <2>1, <2>2, <2>4
    <3>2. \A j \in 1..(l - 1) : j \in 1..Len(r) /\ t[j].next = r[j].next
      BY <2>1, <2>2, <3>1
    <3>3. l \in 1..Len(r) => t[l].next > r[l].next
      <4>1. CASE l = k
        <5>1. ASSUME l \in 1..Len(r)
              PROVE  /\ t[l].next > s[l].next /\ s[l].next > r[l].next
                     /\ t[l].next \in Nat /\ s[l].next \in Nat /\ r[l].next \in Nat
          BY <1>1, <2>1, <2>2, <3>1, <4>1, <5>1
        <5>2. \A a, b, c \in Nat : a > b /\ b > c => a > c
          OBVIOUS
        <5>3. QED
          BY <5>1, <5>2
      <4>2. CASE l # k
        <5>1. l \in 1..(k - 1)
          BY <2>1, <2>2, <2>4, <4>2
        <5>2. QED
          BY <2>1, <2>2, <3>1, <5>1
      <4>3. QED
        BY <4>1, <4>2
    <3>4. QED
      BY <3>2, <3>3 DEF Later
  <2>5. QED
    BY <2>1, <2>2, <2>3, <2>4
<1>4. QED
  BY <1>2, <1>3

\* A call that is moved on, made or left makes the walk later.
LEMMA BumpedIsLater ==
  ASSUME NEW s \in Seq(FrameSet), NEW r \in Seq(FrameSet), NEW k \in 1..Len(s),
         k \in 1..Len(r) => s[k].next = r[k].next + 1,
         k \notin 1..Len(r) => k = Len(r) + 1,
         \A j \in 1..(k - 1) : s[j] = r[j]
  PROVE  Later(s, r)
<1>1. Len(s) \in Nat /\ Len(r) \in Nat /\ \A n \in 1..Len(r) : r[n].next \in Nat
  BY NextsAreNumbers DEF FrameSet
<1>2. \A j \in 1..(k - 1) : j \in 1..Len(r) /\ s[j].next = r[j].next
  BY <1>1
<1>3. k \in 1..Len(r) => s[k].next > r[k].next
  BY <1>1
<1>4. QED
  BY <1>2, <1>3 DEF Later

\* A step within the loops leaves the call in bounds.
LEMMA BoundOfStep ==
  ASSUME program \in DOMAIN ProgramOf, NEW t \in Types, NEW n \in Nat \ {0}
  PROVE  /\ 1 <= LastStep(t)
         /\ \/ n \in DOMAIN Candidates(t)
            \/ n - Len(Candidates(t)) \in DOMAIN p[t].methods
            => n + 1 <= LastStep(t)
<1> DEFINE c == Len(Candidates(t))
           o == Len(p[t].methods)
<1>1. /\ c \in Nat /\ o \in Nat /\ DOMAIN Candidates(t) = 1..c
      /\ DOMAIN p[t].methods = 1..o
  BY CandidatesAreTypes, MethodsAreMethods
<1>2. LastStep(t) = c + o + 1
  BY DEF LastStep
<1> HIDE DEF c, o
<1>3. n - c \in 1..o => n + 1 <= LastStep(t)
  BY <1>1, <1>2
<1>4. n \in 1..c => n + 1 <= LastStep(t)
  BY <1>1, <1>2
<1>5. QED
  BY <1>1, <1>2, <1>3, <1>4 DEF c

\* There are finitely many places: finitely many types, and for each so many
\* steps of its loops.
LEMMA WalksAreFinite ==
  ASSUME program \in DOMAIN ProgramOf
  PROVE  IsFiniteSet(Walks)
<1> DEFINE steps == [t \in Types |-> {t} \X (1..LastStep(t))]
           all   == UNION Range(steps)
           N     == Cardinality(Types)
           places == SUBSET ((1..N) \X all)
           graph == [s \in Walks |-> {<<n, <<s[n].type, s[n].next>>>> : n \in 1..Len(s)}]
<1>1. IsFiniteSet(Types) /\ N \in Nat
  BY TypesAreFinite
<1>2. \A t \in Types : LastStep(t) \in Nat
  BY CandidatesAreTypes, MethodsAreMethods DEF LastStep
<1>3. \A t \in Types : IsFiniteSet(steps[t])
  <2> SUFFICES ASSUME NEW t \in Types
               PROVE  IsFiniteSet(steps[t])
    OBVIOUS
  <2>1. IsFiniteSet({t}) /\ IsFiniteSet(1..LastStep(t))
    <3>1. IsFiniteSet({t})
      BY FS_Singleton
    <3>2. LastStep(t) \in Int /\ 1 \in Int
      BY <1>2
    <3>3. IsFiniteSet(1..LastStep(t))
      BY <3>2, FS_Interval
    <3>4. QED
      BY <3>1, <3>3
  <2>2. IsFiniteSet({t} \X (1..LastStep(t)))
    BY ONLY <2>1, FS_Product
  <2>3. QED
    BY <2>2
<1>4. IsFiniteSet(Range(steps))
  <2>1. steps \in Surjection(Types, Range(steps))
    BY DEF Surjection, Range
  <2>2. QED
    BY <1>1, <2>1, FS_Surjection
<1>5. IsFiniteSet(all)
  BY <1>3, <1>4, FS_UNION DEF Range
<1>6. IsFiniteSet(places)
  <2> HIDE DEF all, N
  <2>1. IsFiniteSet(1..N)
    BY <1>1, FS_Interval
  <2>2. IsFiniteSet((1..N) \X all)
    BY ONLY <1>5, <2>1, FS_Product
  <2>3. QED
    BY ONLY <2>2, FS_SUBSET
<1>7. \A s \in Walks : /\ s \in Seq(FrameSet) /\ Len(s) \in Nat /\ Len(s) <= N
                      /\ \A n \in 1..Len(s) : s[n] \in FrameSet /\ s[n].next <= LastStep(s[n].type)
  BY DEF Walks, InBounds
<1>8. \A s \in Walks : graph[s] \in places
  <2>1. ASSUME NEW s \in Walks, NEW n \in 1..Len(s)
        PROVE  n \in 1..N /\ <<s[n].type, s[n].next>> \in all
    <3>1. n \in 1..N
      BY <1>1, <1>7
    <3>2. s[n].type \in Types /\ s[n].next \in Nat \ {0} /\ s[n].next <= LastStep(s[n].type)
      BY <1>7 DEF FrameSet
    <3>3. <<s[n].type, s[n].next>> \in steps[s[n].type]
      BY <1>2, <3>2
    <3>4. steps[s[n].type] \in Range(steps)
      BY <3>2 DEF Range
    <3>5. QED
      BY <3>1, <3>3, <3>4
  <2> HIDE DEF all, N
  <2>2. \A s \in Walks : graph[s] = {<<n, <<s[n].type, s[n].next>>>> : n \in 1..Len(s)}
    OBVIOUS
  <2>3. QED
    BY <2>1, <2>2
<1>9. ASSUME NEW r \in Walks, NEW s \in Walks, graph[r] = graph[s]
      PROVE  r = s
  <2> DEFINE point(t, n) == <<n, <<t[n].type, t[n].next>>>>
  <2>1. {point(r, n) : n \in 1..Len(r)} = {point(s, n) : n \in 1..Len(s)}
    BY <1>9
  <2>2. \A n \in 1..Len(r) : \E k \in 1..Len(s) : point(r, n) = point(s, k)
    BY <2>1
  <2>3. \A n \in 1..Len(s) : \E k \in 1..Len(r) : point(s, n) = point(r, k)
    BY <2>1
  <2>4. \A n \in 1..Len(r) : n \in 1..Len(s) /\ r[n].type = s[n].type /\ r[n].next = s[n].next
    BY <2>2
  <2>5. \A n \in 1..Len(s) : n \in 1..Len(r)
    BY <2>3
  <2>6. Len(r) = Len(s)
    BY <1>7, <2>4, <2>5
  <2>7. \A n \in 1..Len(r) : r[n] = s[n]
    <3>1. \A f, g \in FrameSet : f.type = g.type /\ f.next = g.next => f = g
      BY DEF FrameSet
    <3>2. QED
      BY <1>7, <2>4, <2>6, <3>1
  <2>8. QED
    BY <1>7, <2>6, <2>7
<1>10. graph \in Injection(Walks, places)
  BY <1>8, <1>9 DEF Injection, IsInjective
<1>11. QED
  BY <1>6, <1>10, FS_Injection

WalkInv == TypeInv /\ (pc = "inherit" => InBounds(stack))

\* The next place of the walk.
LEMMA StepWalksOn ==
  ASSUME WalkInv, PassOver \/ InheritFrom \/ AddOwnMethod \/ EndInherited, pc' = "inherit"
  PROVE  /\ stack' \in Seq(FrameSet) /\ InBounds(stack') /\ Later(stack', stack)
<1>1. /\ program \in DOMAIN ProgramOf /\ program' = program /\ pc = "inherit"
      /\ InheritInv /\ InBounds(stack)
  BY DEF WalkInv, TypeInv, TypeOK, PassOver, AtCandidate, InheritFrom, AddOwnMethod, EndInherited
<1>2. Inheriting(current, stack, abstractMethods, methods, implements)
  BY <1>1 DEF InheritInv, Gathering
<1>3. InheritChain(current, stack)
  BY <1>2 DEF Inheriting
<1>4. /\ Top = stack[Len(stack)] /\ Len(stack) \in Nat \ {0} /\ stack \in Seq(FrameSet)
      /\ stack # << >> /\ (Len(stack) # 1 => Len(stack) > 1)
      /\ \A n \in 1..Len(stack) : stack[n].type \in Types /\ stack[n].next \in Nat \ {0}
  BY <1>1, <1>2, <1>3, TopOfChain, ChainFrames
<1>5. \A t \in Types : \A n \in Nat \ {0} :
        /\ 1 <= LastStep(t)
        /\ n \in DOMAIN Candidates(t) => n + 1 <= LastStep(t)
        /\ n - Len(Candidates(t)) \in DOMAIN p[t].methods => n + 1 <= LastStep(t)
  BY <1>1, BoundOfStep
<1>6. Len(stack) \in 1..Len(stack) /\ Top.type \in Types /\ Top.next \in Nat \ {0}
  BY <1>4
<1>7. ASSUME Top.next + 1 <= LastStep(Top.type),
             stack' = [stack EXCEPT ![Len(stack)].next = @ + 1]
      PROVE  stack' \in Seq(FrameSet) /\ InBounds(stack') /\ Later(stack', stack)
  <2> DEFINE k == Len(stack)
  <2>1. /\ stack' \in Seq(FrameSet) /\ Len(stack') = k
        /\ \A j \in 1..(k - 1) : stack'[j] = stack[j]
        /\ stack'[k].type = stack[k].type /\ stack'[k].next = stack[k].next + 1
    BY <1>4, <1>7, BumpedFrames
  <2>2. \A n \in 1..Len(stack') : n \in 1..(k - 1) \/ n = k
    BY <1>4, <2>1
  <2>3. InBounds(stack')
    BY <1>1, <1>4, <1>7, <2>1, <2>2 DEF InBounds
  <2>4. Later(stack', stack)
    BY <1>4, <1>6, <2>1, BumpedIsLater
  <2>5. QED
    BY <2>1, <2>3, <2>4
<1>8. CASE PassOver
  <2>1. /\ Top.next \in DOMAIN Candidates(Top.type)
        /\ stack' = [stack EXCEPT ![Len(stack)].next = @ + 1]
    BY <1>8 DEF PassOver, AtCandidate
  <2>2. Top.next + 1 <= LastStep(Top.type)
    BY <1>5, <1>6, <2>1
  <2>3. QED
    BY <1>7, <2>1, <2>2
<1>9. CASE AddOwnMethod
  <2>1. PICK m : /\ AtOwnMethod(m)
                 /\ stack' = [stack EXCEPT ![Len(stack)].next = @ + 1]
    BY <1>9 DEF AddOwnMethod
  <2>2. Top.next - Len(Candidates(Top.type)) \in DOMAIN p[Top.type].methods
    BY <2>1 DEF AtOwnMethod
  <2>3. Top.next + 1 <= LastStep(Top.type)
    BY <1>5, <1>6, <2>2
  <2>4. QED
    BY <1>7, <2>1, <2>3
<1>10. CASE InheritFrom
  <2> DEFINE t == Candidates(Top.type)[Top.next]
  <2>1. /\ Top.next \in DOMAIN Candidates(Top.type)
        /\ stack' = Append(stack, Frame(t))
    BY <1>10 DEF InheritFrom, AtCandidate
  <2>2. t \in Types /\ Frame(t) \in FrameSet /\ Frame(t).type = t /\ Frame(t).next = 1
    BY <1>1, <1>6, <2>1, CandidatesAreTypes, NewFrame
  <2> HIDE DEF t
  <2>3. /\ stack' \in Seq(FrameSet) /\ Len(stack') = Len(stack) + 1
        /\ \A j \in 1..Len(stack) : stack'[j] = stack[j]
        /\ stack'[Len(stack) + 1] = Frame(t)
    BY <1>4, <2>1, <2>2
  <2>4. \A n \in 1..Len(stack') : n \in 1..Len(stack) \/ n = Len(stack) + 1
    BY <1>4, <2>3
  <2>5. 1 <= LastStep(t)
    BY <1>5, <2>2
  <2>6. InBounds(stack')
    BY <1>1, <2>2, <2>3, <2>4, <2>5 DEF InBounds
  <2>7. /\ Len(stack) + 1 \in 1..Len(stack') /\ Len(stack) + 1 \notin 1..Len(stack)
        /\ \A j \in 1..((Len(stack) + 1) - 1) : stack'[j] = stack[j]
    BY <1>4, <2>3
  <2>8. Later(stack', stack)
    BY <1>4, <2>3, <2>7, BumpedIsLater
  <2>9. QED
    BY <2>3, <2>6, <2>8
<1>11. CASE EndInherited
  <2>1. stack' = Returned(stack) /\ Len(stack) > 1
    BY <1>1, <1>4, <1>11 DEF EndInherited
  <2> DEFINE k == Len(stack) - 1
  <2>2. /\ stack' \in Seq(FrameSet) /\ Len(stack') = k
        /\ \A j \in 1..(k - 1) : stack'[j] = stack[j]
        /\ stack'[k].type = stack[k].type /\ stack'[k].next = stack[k].next + 1
    BY <1>4, <2>1, ReturnedFrames DEF FrameSet
  <2>3. k \in 1..Len(stack') /\ k \in 1..Len(stack)
        /\ \A n \in 1..Len(stack') : n = k \/ (n \in 1..(k - 1) /\ n \in 1..Len(stack))
    BY <1>4, <2>1, <2>2
  <2>4. stack[k].next \in DOMAIN Candidates(stack[k].type)
    BY <1>3, <1>4, <2>1 DEF InheritChain
  <2>5. stack[k].next + 1 <= LastStep(stack[k].type)
    BY <1>4, <1>5, <2>3, <2>4
  <2>6. InBounds(stack')
    BY <1>1, <2>2, <2>3, <2>5 DEF InBounds
  <2>7. Later(stack', stack)
    BY <1>4, <2>2, <2>3, BumpedIsLater
  <2>8. QED
    BY <2>2, <2>6, <2>7
<1>12. QED
  BY <1>8, <1>9, <1>10, <1>11

LEMMA StepKeepsWalkInv == WalkInv /\ [Next]_vars => WalkInv'
<1> SUFFICES ASSUME WalkInv, [Next]_vars
             PROVE  WalkInv'
  OBVIOUS
<1>1. TypeInv /\ TypeInv' /\ program' = program /\ program \in DOMAIN ProgramOf
  BY StepKeepsTypeInv, ProgramIsFixed DEF WalkInv, TypeInv, TypeOK
<1>2. \A frames : InBounds(frames)' <=> InBounds(frames)
  BY <1>1 DEF InBounds, LastStep, Candidates, SuperInterfaces, SuperClasses, isClass, p
<1>3. ASSUME pc' = "inherit"
      PROVE  InBounds(stack')
  <2>1. CASE PassOver \/ InheritFrom \/ AddOwnMethod \/ EndInherited
    BY <1>3, <2>1, StepWalksOn
  <2>2. CASE CheckDuplicateSignatures
    <3>1. stack' = <<Frame(current)>> /\ current \in Types
      BY <1>1, <1>3, <2>2 DEF CheckDuplicateSignatures, TypeInv, TypeOK
    <3>2. Len(stack') = 1 /\ stack'[1].type = current /\ stack'[1].next = 1
      BY <3>1, NewFrame
    <3>3. 1 <= LastStep(current)
      BY <1>1, <3>1, BoundOfStep
    <3>4. QED
      BY <3>2, <3>3 DEF InBounds
  <2>3. CASE UNCHANGED vars
    BY <1>3, <2>3 DEF WalkInv, vars
  <2>4. CASE CheckDecl \/ Accept \/ Descend \/ Skip \/ MeetCycle \/ EndSupertypes \/ CheckOverrides
    BY <1>3, <2>4 DEF CheckDecl, Accept, Descend, Skip, MeetCycle, EndSupertypes, CheckOverrides,
                      AtSupertype
  <2>5. QED
    BY <2>1, <2>2, <2>3, <2>4 DEF Next
<1>4. (pc = "inherit" => InBounds(stack))'
  BY <1>1, <1>3 DEF InBounds, LastStep, Candidates, SuperInterfaces, SuperClasses, isClass, p
<1>5. QED
  BY <1>1, <1>4 DEF WalkInv

LEMMA WalkInvIsInvariant == Spec => []WalkInv
<1>1. Init => WalkInv
  BY InitEstablishesTypeInv DEF Init, WalkInv
<1>2. QED
  BY <1>1, StepKeepsWalkInv, PTL DEF Spec

\* What a call of checkAcyclicHelper has left to look at.
LeftOf(frame) == Len(Supertypes(frame.type)) + 1 - frame.next

\* The search comes to a type it has not seen, or a call of it returns, or the
\* last call has one supertype less to look at.
SearchAdvances ==
  \/ visited \subseteq visited' /\ visited' # visited
  \/ visited' = visited /\ Len(stack') < Len(stack)
  \/ /\ visited' = visited /\ Len(stack') = Len(stack)
     /\ LeftOf(Top) \in Nat /\ LeftOf(Top)' \in Nat /\ LeftOf(Top)' < LeftOf(Top)

LEMMA StepSearchesOn ==
  ASSUME WalkInv, Descend \/ Skip \/ MeetCycle \/ EndSupertypes, pc' = "acyclic"
  PROVE  SearchAdvances
<1>1. /\ program \in DOMAIN ProgramOf /\ program' = program /\ pc = "acyclic"
      /\ InheritInv /\ IsCall(stack) /\ stack \in Seq(FrameSet) /\ stack # << >>
  BY DEF WalkInv, TypeInv, TypeOK, InheritInv, SearchInv, InSearch, Descend, Skip, MeetCycle,
         EndSupertypes, AtSupertype
<1>2. /\ Len(stack) \in Nat \ {0} /\ Top = stack[Len(stack)] /\ Top \in FrameSet
      /\ Top.type \in Types /\ Top.next \in Nat \ {0}
      /\ Supertypes(Top.type) \in Seq(Types)
  BY <1>1, TopFrame
<1>3. CASE Descend
  BY <1>3 DEF Descend, SearchAdvances
<1>4. CASE Skip
  <2> DEFINE k == Len(stack)
  <2>1. /\ visited' = visited /\ Top.next \in DOMAIN Supertypes(Top.type)
        /\ stack' = [stack EXCEPT ![Len(stack)].next = @ + 1]
    BY <1>4 DEF Skip, AtSupertype, search
  <2>2. /\ stack' \in Seq(FrameSet) /\ Len(stack') = k
        /\ stack'[k].type = stack[k].type /\ stack'[k].next = stack[k].next + 1
    BY <1>1, <2>1, BumpedFrames
  <2>3. Top' = stack'[k] /\ \A t : Supertypes(t)' = Supertypes(t)
    BY <1>1, <2>2, SameProgram DEF Top, Last
  <2> DEFINE s == Len(Supertypes(Top.type))
             n == Top.next
  <2>4. LeftOf(Top) = s + 1 - n /\ LeftOf(Top)' = s + 1 - (n + 1)
    BY <1>2, <2>2, <2>3 DEF LeftOf
  <2>5. s \in Nat /\ n \in 1..s
    BY <1>2, <2>1
  <2> HIDE DEF s, n
  <2>6. LeftOf(Top) \in Nat /\ LeftOf(Top)' \in Nat /\ LeftOf(Top)' < LeftOf(Top)
    BY <2>4, <2>5
  <2>7. QED
    BY <2>1, <2>2, <2>6 DEF SearchAdvances
<1>5. CASE MeetCycle
  <2>1. PICK n \in 1..(Len(stack) - 1) : stack' = Returned(SubSeq(stack, 1, n + 1))
    BY <1>1, <1>5 DEF MeetCycle
  <2>2. PICK s : s = SubSeq(stack, 1, n + 1) /\ IsCall(s) /\ Len(s) = n + 1
    BY <1>1, <2>1, InitialCalls
  <2>3. Len(Returned(s)) = Len(s) - 1
    BY <2>2, ReturnedLength DEF IsCall
  <2>4. Len(stack') = n /\ n < Len(stack)
    BY <1>2, <2>1, <2>2, <2>3
  <2>5. visited' = visited
    BY <1>5 DEF MeetCycle, search
  <2>6. QED
    BY <2>4, <2>5 DEF SearchAdvances
<1>6. CASE EndSupertypes
  <2>1. Len(stack') = Len(stack) - 1 /\ visited' = visited
    BY <1>1, <1>6, ReturnedLength DEF EndSupertypes
  <2>2. QED
    BY <1>2, <2>1 DEF SearchAdvances
<1>7. QED
  BY <1>3, <1>4, <1>5, <1>6

\* The stages of a type's checks.
Stage(c) ==
  IF c = "acyclic" THEN 1 ELSE IF c = "duplicates" THEN 2 ELSE IF c = "inherit" THEN 3
  ELSE IF c = "overrides" THEN 4 ELSE IF c = "next" THEN 5 ELSE 6

\* Another type is checked, or the next check of this one begins or the checks
\* end, or the search goes on, or the walk over what is inherited does.
CheckAdvances ==
  \/ unchecked' \subseteq unchecked /\ unchecked' # unchecked
  \/ unchecked' = unchecked /\ Stage(pc) < Stage(pc')
  \/ unchecked' = unchecked /\ pc = "acyclic" /\ pc' = pc /\ SearchAdvances
  \/ /\ unchecked' = unchecked /\ pc = "inherit" /\ pc' = pc
     /\ IsFiniteSet(Walks) /\ stack \in Walks /\ stack' \in Walks /\ Later(stack', stack)

\* The checks cannot go on for ever, on any program and in any order of its
\* types, cycles among them included: every step goes on to a later stage, or on
\* in a search or walk that passes each of finitely many places once.
THEOREM ChecksAdvance == Spec => [][CheckAdvances]_vars
<1>1. ASSUME WalkInv, Next
      PROVE  CheckAdvances
  <2>1. WalkInv' /\ TypeOK /\ TypeOK' /\ program' = program
    BY <1>1, StepKeepsWalkInv, ProgramIsFixed DEF WalkInv, TypeInv
  <2>2. CASE CheckDecl
    <3>1. PICK t \in unchecked : unchecked' = unchecked \ {t}
      BY <2>2 DEF CheckDecl
    <3>2. QED
      BY <3>1 DEF CheckAdvances
  <2>3. CASE Accept \/ CheckDuplicateSignatures \/ CheckOverrides
    BY <2>3 DEF Accept, CheckDuplicateSignatures, CheckOverrides, Stage, CheckAdvances
  <2>4. CASE Descend \/ Skip \/ MeetCycle \/ EndSupertypes
    <3>1. /\ unchecked' = unchecked /\ pc = "acyclic"
          /\ pc' \in {"acyclic", "duplicates", "cyclic"}
      BY <2>4 DEF Descend, Skip, MeetCycle, EndSupertypes, AtSupertype
    <3>2. CASE pc' = "acyclic"
      BY <1>1, <2>4, <3>1, <3>2, StepSearchesOn DEF CheckAdvances
    <3>3. CASE pc' # "acyclic"
      BY <3>1, <3>3 DEF Stage, CheckAdvances
    <3>4. QED
      BY <3>2, <3>3
  <2>5. CASE PassOver \/ InheritFrom \/ AddOwnMethod \/ EndInherited
    <3>1. /\ unchecked' = unchecked /\ pc = "inherit"
          /\ pc' \in {"inherit", "overrides", "refused", "overflow"}
      BY <2>5 DEF PassOver, InheritFrom, AddOwnMethod, EndInherited, AtCandidate
    <3>2. CASE pc' = "inherit"
      <4>1. stack' \in Seq(FrameSet) /\ InBounds(stack') /\ Later(stack', stack)
        BY <1>1, <2>5, <3>2, StepWalksOn
      <4>2. Len(stack') <= Cardinality(Types)
        BY <2>1, SameProgram DEF TypeOK
      <4>3. stack \in Walks /\ stack' \in Walks
        BY <1>1, <2>1, <3>1, <4>1, <4>2 DEF WalkInv, TypeOK, Walks
      <4>4. QED
        BY <2>1, <3>1, <3>2, <4>1, <4>3, WalksAreFinite DEF TypeOK, CheckAdvances
    <3>3. CASE pc' # "inherit"
      BY <3>1, <3>3 DEF Stage, CheckAdvances
    <3>4. QED
      BY <3>2, <3>3
  <2>6. QED
    BY <1>1, <2>2, <2>3, <2>4, <2>5 DEF Next
<1>2. QED
  BY <1>1, WalkInvIsInvariant, PTL DEF Spec
=============================================================================
