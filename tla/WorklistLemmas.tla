--------------------------- MODULE WorklistLemmas ---------------------------
(***************************************************************************)
(* Facts about sequences used as queues and as vectors walked by an index. *)
(***************************************************************************)
EXTENDS Naturals, Sequences, Functions, TLAPS

\* A queue of one element.
LEMMA SingletonQueue ==
  ASSUME NEW S, NEW x \in S
  PROVE  <<x>> \in Seq(S) /\ Range(<<x>>) = {x}
<1>1. <<x>> \in Seq(S)
  OBVIOUS
<1>2. Range(<<x>>) = {x}
  BY DEF Range
<1>3. QED
  BY <1>1, <1>2

\* A concatenation starts with its first part.
LEMMA Concatenation ==
  ASSUME NEW S, NEW s \in Seq(S), NEW t \in Seq(S)
  PROVE  /\ s \o t \in Seq(S)
         /\ \A k \in DOMAIN s : k \in DOMAIN (s \o t) /\ (s \o t)[k] = s[k]
OBVIOUS

\* What Append adds to the elements of a queue.
LEMMA RangeAppend ==
  ASSUME NEW S, NEW s \in Seq(S), NEW x \in S
  PROVE  /\ Append(s, x) \in Seq(S)
         /\ Range(Append(s, x)) = Range(s) \cup {x}
         /\ x \notin Range(s) /\ IsInjective(s) => IsInjective(Append(s, x))
<1> DEFINE t == Append(s, x)
<1>1. /\ t \in Seq(S)
      /\ DOMAIN s = 1..Len(s)
      /\ DOMAIN t = 1..(Len(s) + 1)
      /\ \A k \in 1..Len(s) : t[k] = s[k]
      /\ t[Len(s) + 1] = x
      /\ Len(s) \in Nat
  OBVIOUS
<1> HIDE DEF t
<1>2. Range(t) = Range(s) \cup {x}
  BY <1>1 DEF Range
<1>3. ASSUME x \notin Range(s), IsInjective(s)
      PROVE  IsInjective(t)
  BY <1>1, <1>3 DEF Range, IsInjective
<1>4. QED
  BY <1>1, <1>2, <1>3 DEF t

\* What taking the front of a queue removes from its elements.
LEMMA RangeHeadTail ==
  ASSUME NEW S, NEW s \in Seq(S), s # << >>
  PROVE  /\ Head(s) \in S
         /\ Tail(s) \in Seq(S)
         /\ Range(s) = {Head(s)} \cup Range(Tail(s))
         /\ IsInjective(s) => IsInjective(Tail(s)) /\ Head(s) \notin Range(Tail(s))
<1> DEFINE t == Tail(s)
<1>1. /\ Len(s) \in Nat \ {0}
      /\ DOMAIN s = 1..Len(s)
      /\ t \in Seq(S)
      /\ DOMAIN t = 1..(Len(s) - 1)
      /\ \A k \in 1..(Len(s) - 1) : t[k] = s[k + 1]
      /\ Head(s) = s[1]
      /\ Head(s) \in S
  OBVIOUS
<1> HIDE DEF t
<1>2. Range(s) = {Head(s)} \cup Range(t)
  <2>1. ASSUME NEW k \in 1..Len(s), k # 1
        PROVE  s[k] \in Range(t)
    <3>1. k - 1 \in 1..(Len(s) - 1) /\ t[k - 1] = s[k]
      BY <1>1, <2>1
    <3>2. QED
      BY <1>1, <3>1 DEF Range
  <2>2. ASSUME NEW k \in 1..(Len(s) - 1)
        PROVE  t[k] \in Range(s)
    <3>1. k + 1 \in 1..Len(s) /\ t[k] = s[k + 1]
      BY <1>1
    <3>2. QED
      BY <1>1, <3>1 DEF Range
  <2>3. QED
    BY <1>1, <2>1, <2>2 DEF Range
<1>3. ASSUME IsInjective(s)
      PROVE  IsInjective(t) /\ Head(s) \notin Range(t)
  <2>1. ASSUME NEW a \in 1..(Len(s) - 1), NEW b \in 1..(Len(s) - 1), t[a] = t[b]
        PROVE  a = b
    <3>1. s[a + 1] = s[b + 1] /\ a + 1 \in 1..Len(s) /\ b + 1 \in 1..Len(s)
      BY <1>1, <2>1
    <3>2. a + 1 = b + 1
      BY <1>1, <1>3, <3>1 DEF IsInjective
    <3>3. QED
      BY <3>2
  <2>2. ASSUME NEW a \in 1..(Len(s) - 1)
        PROVE  t[a] # Head(s)
    <3>1. t[a] = s[a + 1] /\ a + 1 \in 1..Len(s) /\ 1 \in 1..Len(s) /\ a + 1 # 1
      BY <1>1
    <3>2. QED
      BY <1>1, <1>3, <3>1 DEF IsInjective
  <2>3. QED
    BY <1>1, <2>1, <2>2 DEF IsInjective, Range
<1>4. QED
  BY <1>1, <1>2, <1>3 DEF t

\* The elements of a vector from index i on: all of them, one less, none.
LEMMA Remaining ==
  ASSUME NEW S, NEW s \in Seq(S), NEW i \in Nat \ {0}
  PROVE  /\ {s[k] : k \in 1..Len(s)} = Range(s)
         /\ i <= Len(s) =>
              /\ s[i] \in S
              /\ {s[k] : k \in i..Len(s)} = {s[i]} \cup {s[k] : k \in (i + 1)..Len(s)}
         /\ i > Len(s) => {s[k] : k \in i..Len(s)} = {}
<1>1. Len(s) \in Nat /\ DOMAIN s = 1..Len(s) /\ \A k \in 1..Len(s) : s[k] \in S
  OBVIOUS
<1>2. {s[k] : k \in 1..Len(s)} = Range(s)
  BY <1>1 DEF Range
<1>3. ASSUME i <= Len(s)
      PROVE  {s[k] : k \in i..Len(s)} = {s[i]} \cup {s[k] : k \in (i + 1)..Len(s)}
  <2>1. i..Len(s) = {i} \cup ((i + 1)..Len(s))
    BY <1>1, <1>3
  <2>2. QED
    BY <2>1
<1>4. ASSUME i > Len(s)
      PROVE  i..Len(s) = {}
  BY <1>1, <1>4
<1>5. QED
  BY <1>1, <1>2, <1>3, <1>4
=============================================================================
