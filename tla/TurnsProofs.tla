---------------------------- MODULE TurnsProofs ----------------------------
(* What a scan of the roster returns, for every roster. *)
EXTENDS Turns, FiniteSetTheorems, WellFoundedInduction, TLAPS

\* Every nonempty set of natural numbers has a least element.
LEMMA LeastNatural ==
    ASSUME NEW S, S \subseteq Nat, S # {}
    PROVE  \E x \in S : \A y \in S : x <= y
<1> DEFINE Below(x) == 0 .. (x - 1)
           T == {Below(x) : x \in S}
<1>1. T \subseteq FiniteSubsetsOf(Nat) /\ T # {}
  <2>1. \A x \in S : IsFiniteSet(Below(x)) /\ Below(x) \subseteq Nat
    BY FS_Interval
  <2>2. QED
    BY <2>1 DEF FiniteSubsetsOf
<1>2. PICK t \in T : \A u \in T : ~ (<<u, t>> \in StrictSubsetOrdering(Nat))
  <2> HIDE DEF T
  <2>1. IsWellFoundedOn(StrictSubsetOrdering(Nat), FiniteSubsetsOf(Nat))
    BY FS_StrictSubsetOrderingWellFounded
  <2>2. QED
    BY <1>1, <2>1, WFMin
<1>3. PICK x \in S : t = Below(x)
  OBVIOUS
<1>4. ASSUME NEW y \in S, y < x PROVE FALSE
  <2>1. Below(y) \subseteq Below(x)
    BY <1>4
  <2>2. y \in Below(x) /\ y \notin Below(y)
    BY <1>4
  <2>3. Below(y) \in SUBSET Nat /\ Below(x) \in SUBSET Nat
    OBVIOUS
  <2> HIDE DEF Below
  <2>4. <<Below(y), Below(x)>> \in StrictSubsetOrdering(Nat)
    BY <2>1, <2>2, <2>3 DEF StrictSubsetOrdering
  <2>5. QED
    BY <2>4, <1>2, <1>3
<1>5. QED
  BY <1>4

\* A scan of a nonempty set of personas stops at one of them, and at none
\* that is further from the start than another.
LEMMA FirstFromMember ==
    ASSUME NEW start \in Int, NEW candidates, candidates \subseteq Personas,
           candidates # {}
    PROVE  /\ FirstFrom(start, candidates) \in candidates
           /\ \A q \in candidates :
                 Offset(start, FirstFrom(start, candidates)) <= Offset(start, q)
<1> DEFINE S == {Offset(start, q) : q \in candidates}
<1>1. \A q \in candidates : Offset(start, q) \in Nat
  BY NAssumption DEF Offset, Personas
<1>2. S \subseteq Nat /\ S # {}
  BY <1>1
<1>3. PICK x \in S : \A y \in S : x <= y
  BY <1>2, LeastNatural
<1>4. \E p \in candidates :
         \A q \in candidates : Offset(start, p) <= Offset(start, q)
  BY <1>3
<1>5. QED
  BY <1>4 DEF FirstFrom

\* A scan returns a candidate, or Nobody.
LEMMA FirstFromType ==
    ASSUME NEW start \in Int, NEW candidates, candidates \subseteq Personas
    PROVE  FirstFrom(start, candidates) \in candidates \cup {Nobody}
<1>1. CASE candidates = {}
  BY <1>1 DEF FirstFrom
<1>2. CASE candidates # {}
  BY <1>2, FirstFromMember
<1>3. QED
  BY <1>1, <1>2

\* The place where the next scan begins is a persona.
LEMMA AfterType == ASSUME NEW p \in Int PROVE After(p) \in Personas
  BY NAssumption DEF After, Personas

\* How far a scan walks, without the remainder.
LEMMA OffsetCases ==
    ASSUME NEW a \in Personas, NEW p \in Personas
    PROVE  /\ Offset(a, p) = IF p >= a THEN p - a ELSE p - a + N
           /\ Offset(a, p) \in 0 .. (N - 1)
           /\ After(p) = IF p = N - 1 THEN 0 ELSE p + 1
           /\ After(p) \in Personas
  BY NAssumption DEF Offset, After, Personas

\* The first one after b of a set that holds a has nobody between b and
\* itself: seen from a, it is the next one, or a itself after everybody else.
LEMMA NextInOrder ==
    ASSUME NEW U, U \subseteq Personas, NEW a \in U, NEW b \in U, NEW n \in U,
           \A q \in U : Offset(After(b), n) <= Offset(After(b), q),
           NEW p \in U
    PROVE  /\ n = a => Offset(a, p) <= Offset(a, b)
           /\ n # a /\ Offset(a, p) <= Offset(a, n)
                => Offset(a, p) <= Offset(a, b) \/ p = n
<1>1. a \in Personas /\ b \in Personas /\ n \in Personas /\ p \in Personas
  OBVIOUS
<1>2. /\ After(b) = IF b = N - 1 THEN 0 ELSE b + 1
      /\ After(b) \in Personas
  BY <1>1, OffsetCases
<1>3. /\ Offset(After(b), n) <= Offset(After(b), a)
      /\ Offset(After(b), n) <= Offset(After(b), p)
  OBVIOUS
<1> DEFINE D(x, y) == IF y >= x THEN y - x ELSE y - x + N
<1>4. \A x, y \in Personas : Offset(x, y) = D(x, y)
  BY OffsetCases
<1>5. /\ D(After(b), n) <= D(After(b), a)
      /\ D(After(b), n) <= D(After(b), p)
  BY <1>1, <1>2, <1>3, <1>4
<1>6. /\ n = a => D(a, p) <= D(a, b)
      /\ n # a /\ D(a, p) <= D(a, n) => D(a, p) <= D(a, b) \/ p = n
  BY <1>1, <1>2, <1>5, NAssumption DEF Personas
<1>7. QED
  BY <1>1, <1>4, <1>6

LEMMA AfterInjective ==
    ASSUME NEW a \in Personas, NEW b \in Personas, After(a) = After(b)
    PROVE  a = b
<1>1. /\ a \in Int /\ 0 <= a /\ a <= N - 1
      /\ b \in Int /\ 0 <= b /\ b <= N - 1 /\ N \in Int
  BY NAssumption DEF Personas
<1>2. /\ a = N - 1 => After(a) = 0
      /\ a # N - 1 => After(a) = a + 1
      /\ b = N - 1 => After(b) = 0
      /\ b # N - 1 => After(b) = b + 1
  BY OffsetCases
<1>3. QED
  BY <1>1, <1>2
=============================================================================
