---------------------------- MODULE ProviderProofs ----------------------------
(***************************************************************************)
(* The cloud transport, for any number of callers, any limits and any DNS  *)
(* answers: slots are counted and none idles beside a queue, sockets stay  *)
(* within the limit, the key goes to the address the policy picks, and no  *)
(* caller that left or is late is answered with a result.                  *)
(*                                                                         *)
(* In the second half ProviderBindings, for any rooms, connections,        *)
(* profiles, models and clients and every bound on revisions: a reply is   *)
(* committed with the decision in force, an answer about a binding holds,  *)
(* and only a binding or an observation lets a silent room speak again.    *)
(***************************************************************************)
EXTENDS SecureTransport, SequenceTheorems, FiniteSetTheorems, WellFoundedInduction, TLAPS

Constants == SlotsAssumption /\ KindsAssumption

-----------------------------------------------------------------------------
(* DNS answers.                                                            *)

\* Every nonempty set of natural numbers has a least element.
LEMMA Least ==
    ASSUME NEW S, S \subseteq Nat, S # {}
    PROVE  \E x \in S : \A y \in S : x <= y
<1>1. PICK R : R = OpToRel(<, Nat)
  OBVIOUS
<1>2. \A x, y \in Nat : <<x, y>> \in R <=> x < y
  BY <1>1 DEF OpToRel
<1>3. IsWellFoundedOn(R, Nat)
  BY <1>1, NatLessThanWellFounded
<1>4. PICK x \in S : \A y \in S : ~(<<y, x>> \in R)
  BY <1>3, WFMin
<1>5. \A y \in S : x \in Nat /\ y \in Nat /\ ~(y < x)
  BY <1>2, <1>4
<1> QED BY <1>5

\* vettedAnswers picks one of the answers, the same for every order of them.
LEMMA PickedFirst ==
    ASSUME Constants, NEW answers \in Answers, Vetted(answers)
    PROVE  /\ Picked(answers) \in Range(answers) /\ Picked(answers) \in Addresses
           /\ \A b \in Range(answers) : Picked(answers) = b \/ Before(Picked(answers), b)
           /\ \A b \in Range(answers) : Public(b)
<1> DEFINE Seen == Range(answers)
           Address == [family : {4, 6}, number : Nat, declared : {4, 6}, global : BOOLEAN]
<1>1. Seen \subseteq Address /\ \A a \in Seen : Public(a)
  <2>1. answers \in Seq(Address)
    BY DEF Constants, SlotsAssumption
  <2>2. \A i \in DOMAIN answers : answers[i] \in Address /\ Public(answers[i])
    <3> HIDE DEF Address
    <3> QED BY <2>1, LenProperties, ElementOfSeq DEF Vetted
  <2> QED BY <2>2 DEF Range
<1>2. \A a \in Seen : a \in Addresses
  BY DEF Addresses
<1>3. Seen # {}
  <2>1. answers \in Seq(Address) /\ answers # <<>>
    BY DEF Constants, SlotsAssumption, Vetted
  <2>2. Len(answers) \in Nat \ {0} /\ DOMAIN answers = 1..Len(answers)
    BY <2>1, EmptySeq, LenProperties
  <2>3. 1 \in DOMAIN answers
    BY <2>2
  <2> QED BY <2>3 DEF Range
<1>4. PICK f \in {a.family : a \in Seen} : \A a \in Seen : f <= a.family
  <2> DEFINE T == {a.family : a \in Seen}
  <2>1. T \subseteq Nat /\ T # {}
    BY <1>1, <1>3
  <2>2. \E n \in T : \A m \in T : n <= m
    <3> HIDE DEF T
    <3> QED BY <2>1, Least
  <2> QED BY <2>2
<1>5. PICK n \in {a.number : a \in {a \in Seen : a.family = f}} :
          \A a \in Seen : a.family = f => n <= a.number
  <2> DEFINE T == {a.number : a \in {a \in Seen : a.family = f}}
  <2>1. T \subseteq Nat /\ T # {}
    BY <1>1, <1>4
  <2>2. \E n \in T : \A m \in T : n <= m
    <3> HIDE DEF T
    <3> QED BY <2>1, Least
  <2> QED BY <2>2
<1>6. PICK a \in Seen : a.family = f /\ a.number = n
  BY <1>5
<1>7. ASSUME NEW b \in Seen
      PROVE  a = b \/ Before(a, b)
  <2>1. a \in Address /\ b \in Address /\ Public(a) /\ Public(b) /\ f <= b.family
    BY <1>1, <1>4
  <2>2. CASE b.family # f
    BY <2>1, <2>2, <1>6 DEF Before
  <2>3. CASE b.family = f /\ b.number # n
    BY <2>1, <2>3, <1>5, <1>6 DEF Before
  <2>4. CASE b.family = f /\ b.number = n
    <3>1. /\ a = [family |-> a.family, number |-> a.number, declared |-> a.declared, global |-> a.global]
          /\ b = [family |-> b.family, number |-> b.number, declared |-> b.declared, global |-> b.global]
      BY <2>1
    <3>2. a.family = b.family /\ a.number = b.number /\ a.declared = b.declared
      BY <2>1, <2>4, <1>6 DEF Public
    <3>3. a.global = TRUE /\ b.global = TRUE
      BY <2>1 DEF Public
    <3> QED BY <3>1, <3>2, <3>3
  <2> QED BY <2>2, <2>3, <2>4
<1> DEFINE p == CHOOSE a1 \in Range(answers) : \A b \in Range(answers) : a1 = b \/ Before(a1, b)
<1>8. p \in Seen /\ \A b \in Seen : p = b \/ Before(p, b)
  BY <1>7
<1>9. Picked(answers) = p
  BY DEF Picked
<1> QED BY <1>1, <1>2, <1>8, <1>9

-----------------------------------------------------------------------------
(* The inductive invariant.  It is a predicate of the calls, the count and *)
(* the queue, so that it can be stated of what an action has written when  *)
(* it releases a slot.                                                     *)

\* What is true of one call: its socket and what comes before it have a slot,
\* and the key has gone nowhere, or to the address picked from what was heard.
Fine(r) ==
    /\ r \in Records
    /\ r.socket \in {"open", "closing"} => r.slot
    /\ r.stage \in {"granted", "dns"} => r.slot
    /\ r.stage \in {"idle", "queued"} => ~r.slot
    /\ r.stage \in {"idle", "queued", "granted", "dns"} => r.sentTo = NoAddress
    /\ r.stage = "connecting" => Vetted(r.heard) /\ r.pick = Picked(r.heard)
    /\ r.stage = "closing" => r.answer \in Outcomes
    /\ r.sentTo # NoAddress => Vetted(r.heard) /\ r.sentTo = Picked(r.heard)

Holders(calls) == {c \in Calls : calls[c].slot}

Waiting(calls, q) ==
    /\ q \in Seq(Calls) /\ Len(q) <= MaxQueued /\ IsInjective(q)
    /\ \A i \in 1..Len(q) : calls[q[i]].stage = "queued"

Counted(calls, n) ==
    IsFiniteSet(Holders(calls)) /\ Cardinality(Holders(calls)) = n /\ n \in 0..Limit

Sound(calls, n, q) ==
    /\ calls \in [Calls -> Records] /\ \A c \in Calls : Fine(calls[c])
    /\ Waiting(calls, q) /\ Counted(calls, n)
    /\ q # <<>> => n = Limit

IInv == Sound(call, active, queue)

\* One call changes: in no way that frees or takes a slot, or that leaves the
\* queue.
LEMMA Change ==
    ASSUME NEW calls, NEW n, NEW q, Sound(calls, n, q), NEW c \in Calls, NEW r,
           Fine(r), r.slot = calls[c].slot, calls[c].stage = "queued" => r.stage = "queued"
    PROVE  Sound([calls EXCEPT ![c] = r], n, q)
<1> DEFINE new == [calls EXCEPT ![c] = r]
<1>1. /\ new \in [Calls -> Records] /\ new[c] = r
      /\ \A d \in Calls : d # c => new[d] = calls[d]
  BY DEF Sound, Fine
<1> HIDE DEF new
<1>2. \A d \in Calls : Fine(new[d])
  BY <1>1 DEF Sound
<1>3. Holders(new) = Holders(calls)
  BY <1>1 DEF Holders
<1>4. Counted(new, n)
  BY <1>3 DEF Sound, Counted
<1>5. Waiting(new, q)
  <2>1. ASSUME NEW i \in 1..Len(q)
        PROVE  new[q[i]].stage = "queued"
    <3>1. q[i] \in Calls /\ calls[q[i]].stage = "queued"
      BY ElementOfSeq DEF Sound, Waiting
    <3> QED BY <1>1, <3>1
  <2> QED BY <2>1 DEF Sound, Waiting
<1> QED BY <1>1, <1>2, <1>4, <1>5 DEF Sound, new

\* A record whose slot is taken away, or that is granted one.
LEMMA SlotGiven ==
    ASSUME NEW r \in Records
    PROVE  /\ [r EXCEPT !.slot = FALSE] \in Records
           /\ [r EXCEPT !.slot = TRUE, !.stage = "granted"] \in Records
<1>1. [r EXCEPT !.slot = FALSE] \in Records
  BY DEF Records
<1>2. [r EXCEPT !.slot = TRUE, !.stage = "granted"] \in Records
  BY DEF Records, Pending
<1> QED BY <1>1, <1>2

\* A record that has heard and sent what another has, with its slot in order.
Unsent == {"idle", "queued", "granted", "dns"}

LEMMA FineLike ==
    ASSUME NEW r, NEW s \in Records, Fine(r),
           s.heard = r.heard, s.pick = r.pick, s.sentTo = r.sentTo,
           s.socket \in {"open", "closing"} => s.slot,
           s.stage \in {"granted", "dns"} => s.slot,
           s.stage \in {"idle", "queued"} => ~s.slot,
           s.stage \in Unsent => r.stage \in Unsent,
           s.stage = "connecting" => r.stage = "connecting",
           s.stage = "closing" => s.answer \in Outcomes
    PROVE  Fine(s)
BY DEF Fine, Unsent

LEMMA FineFreed ==
    ASSUME NEW r, NEW s, Fine(r), r.stage \notin {"granted", "dns"}, r.socket \notin {"open", "closing"},
           s = [r EXCEPT !.slot = FALSE]
    PROVE  Fine(s) /\ ~s.slot /\ s.stage = r.stage
<1>1. s \in Records /\ r \in Records
  BY SlotGiven DEF Fine
<1>2. /\ ~s.slot /\ s.stage = r.stage /\ s.socket = r.socket /\ s.heard = r.heard
      /\ s.pick = r.pick /\ s.sentTo = r.sentTo /\ s.answer = r.answer
  BY <1>1 DEF Records
<1>3. Fine(s)
  <2>1. /\ r.socket \in {"none", "open", "closing", "closed"}
        /\ s.stage \in Unsent => r.stage \in Unsent
        /\ s.stage = "closing" => s.answer \in Outcomes
    BY <1>1, <1>2 DEF Records, Unsent, Fine
  <2> QED BY <1>1, <1>2, <2>1, FineLike DEF Unsent
<1> QED BY <1>2, <1>3

LEMMA FineGranted ==
    ASSUME NEW r, NEW s, Fine(r), r.stage = "queued", s = [r EXCEPT !.slot = TRUE, !.stage = "granted"]
    PROVE  Fine(s) /\ s.slot /\ s.stage = "granted"
<1>1. s \in Records /\ r \in Records
  BY SlotGiven DEF Fine
<1>2. /\ s.slot /\ s.stage = "granted" /\ s.socket = r.socket /\ s.heard = r.heard
      /\ s.pick = r.pick /\ s.sentTo = r.sentTo
  BY <1>1 DEF Records
<1>3. Fine(s)
  <2>1. /\ r.socket \in {"none", "open", "closing", "closed"}
        /\ s.stage \in Unsent => r.stage \in Unsent
    BY <1>1, <1>2 DEF Records, Unsent
  <2> QED BY <1>1, <1>2, <2>1, FineLike DEF Unsent
<1> QED BY <1>2, <1>3

\* The slot of c goes to h.
Passed(calls, new, c, h) ==
    /\ new \in [Calls -> Records]
    /\ new[c] = [calls[c] EXCEPT !.slot = FALSE]
    /\ new[h] = [calls[h] EXCEPT !.slot = TRUE, !.stage = "granted"]
    /\ \A d \in Calls : d # c /\ d # h => new[d] = calls[d]

LEMMA Pass2 ==
    ASSUME NEW calls \in [Calls -> Records], NEW c \in Calls, NEW h \in Calls, h # c
    PROVE  Passed(calls, [calls EXCEPT ![c].slot = FALSE, ![h].slot = TRUE, ![h].stage = "granted"], c, h)
<1>1. PICK rc \in Records : rc = [calls[c] EXCEPT !.slot = FALSE]
  BY SlotGiven
<1>2. PICK rh \in Records : rh = [calls[h] EXCEPT !.slot = TRUE, !.stage = "granted"]
  BY SlotGiven
<1>3. [calls EXCEPT ![c].slot = FALSE, ![h].slot = TRUE, ![h].stage = "granted"]
        = [calls EXCEPT ![c] = rc, ![h] = rh]
  BY <1>1, <1>2
<1>4. PICK new : new = [calls EXCEPT ![c] = rc, ![h] = rh]
  OBVIOUS
<1>5. /\ new \in [Calls -> Records] /\ new[c] = rc /\ new[h] = rh
      /\ \A d \in Calls : d # c /\ d # h => new[d] = calls[d]
  BY <1>4
<1>6. Passed(calls, new, c, h)
  BY <1>1, <1>2, <1>5 DEF Passed
<1> QED BY <1>3, <1>4, <1>6

\* The queue loses its head, which is granted a slot.
LEMMA Grant ==
    ASSUME Constants, NEW calls, NEW n, NEW q, Sound(calls, n, q), q # <<>>, NEW c \in Calls, NEW h,
           calls[c].slot, calls[c].stage # "queued", calls[c].stage \notin {"granted", "dns"},
           calls[c].socket \notin {"open", "closing"}, h = Head(q), NEW new, Passed(calls, new, c, h)
    PROVE  /\ Sound(new, n, Tail(q))
           /\ \A d \in Calls : new[d].stage # calls[d].stage => new[d].stage = "granted"
<1>1. /\ q \in Seq(Calls) /\ Len(q) \in Nat \ {0} /\ h \in Calls /\ h = q[1]
      /\ Tail(q) \in Seq(Calls) /\ Len(Tail(q)) = Len(q) - 1
      /\ \A i \in 1..Len(q) - 1 : Tail(q)[i] = q[i + 1]
  BY HeadTailProperties, EmptySeq, LenProperties DEF Sound, Waiting
<1>2. calls[h].stage = "queued" /\ h # c
  BY <1>1 DEF Sound, Waiting
<1>3. Fine(calls[h]) /\ Fine(calls[c]) /\ ~calls[h].slot
  BY <1>1, <1>2 DEF Sound, Fine
<1>4. /\ new \in [Calls -> Records]
      /\ new[c] = [calls[c] EXCEPT !.slot = FALSE]
      /\ new[h] = [calls[h] EXCEPT !.slot = TRUE, !.stage = "granted"]
      /\ \A d \in Calls : d # c /\ d # h => new[d] = calls[d]
  BY DEF Passed
<1>5. /\ Fine(new[c]) /\ ~new[c].slot /\ new[c].stage = calls[c].stage
      /\ Fine(new[h]) /\ new[h].slot /\ new[h].stage = "granted"
  BY <1>2, <1>3, <1>4, FineFreed, FineGranted
<1>6. \A d \in Calls : Fine(new[d])
  BY <1>4, <1>5 DEF Sound
<1>7. Counted(new, n)
  <2>2. Holders(new) = (Holders(calls) \ {c}) \cup {h}
    BY <1>1, <1>4, <1>5 DEF Holders
  <2>3. IsFiniteSet(Holders(calls)) /\ Cardinality(Holders(calls)) = n /\ n \in 0..Limit /\ c \in Holders(calls)
    BY DEF Sound, Counted, Holders
  <2>4. IsFiniteSet(Holders(calls) \ {c}) /\ Cardinality(Holders(calls) \ {c}) = n - 1
    BY <2>3, FS_RemoveElement
  <2>5. h \notin Holders(calls) \ {c}
    BY <1>3 DEF Holders
  <2>6. IsFiniteSet(Holders(new)) /\ Cardinality(Holders(new)) = n - 1 + 1
    <3>1. PICK H : H = Holders(calls) \ {c}
      OBVIOUS
    <3>2. IsFiniteSet(H) /\ Cardinality(H) = n - 1 /\ h \notin H
      BY <2>4, <2>5, <3>1
    <3>3. IsFiniteSet(H \cup {h}) /\ Cardinality(H \cup {h}) = Cardinality(H) + 1
      BY <3>2, FS_AddElement
    <3> QED BY <2>2, <3>1, <3>2, <3>3
  <2>7. n \in Int
    BY <2>3
  <2> QED BY <2>3, <2>6, <2>7 DEF Counted
<1>8. Waiting(new, Tail(q))
  <2>1. ASSUME NEW i \in 1..Len(q) - 1
        PROVE  new[Tail(q)[i]].stage = "queued"
    <3>1. i + 1 \in 1..Len(q) /\ 1 \in 1..Len(q) /\ i + 1 # 1
      BY <1>1
    <3>2. q[i + 1] \in Calls /\ calls[q[i + 1]].stage = "queued"
      BY <1>1, <3>1, ElementOfSeq DEF Sound, Waiting
    <3>3. q[i + 1] # h
      BY <1>1, <3>1, LenProperties DEF Sound, Waiting, IsInjective
    <3>4. q[i + 1] # c
      BY <3>2
    <3> QED BY <1>1, <1>4, <3>2, <3>3, <3>4
  <2>2. IsInjective(Tail(q))
    <3>1. DOMAIN Tail(q) = 1..Len(q) - 1 /\ DOMAIN q = 1..Len(q)
      BY <1>1, LenProperties
    <3>2. ASSUME NEW i \in 1..Len(q) - 1, NEW j \in 1..Len(q) - 1, Tail(q)[i] = Tail(q)[j]
          PROVE  i = j
      <4>1. i + 1 \in 1..Len(q) /\ j + 1 \in 1..Len(q) /\ q[i + 1] = q[j + 1]
        BY <1>1, <3>2
      <4>2. i + 1 = j + 1
        BY <3>1, <4>1 DEF Sound, Waiting, IsInjective
      <4> QED BY <4>2
    <3> QED BY <3>1, <3>2 DEF IsInjective
  <2>3. Len(Tail(q)) <= MaxQueued
    BY <1>1 DEF Sound, Waiting, Constants, SlotsAssumption
  <2> QED BY <1>1, <2>1, <2>2, <2>3 DEF Waiting
<1>9. n = Limit
  BY DEF Sound
<1>10. \A d \in Calls : new[d].stage # calls[d].stage => new[d].stage = "granted"
  BY <1>4, <1>5
<1> QED BY <1>4, <1>6, <1>7, <1>8, <1>9, <1>10 DEF Sound

\* A slot is given back: to the head of the queue or to nobody.
LEMMA ReleaseStep ==
    ASSUME Constants, NEW calls, Sound(calls, active, queue), NEW c \in Calls,
           calls[c].stage = "done", calls[c].socket \notin {"open", "closing"}, Release(c, calls)
    PROVE  /\ IInv'
           /\ \A d \in Calls : call'[d].stage # calls[d].stage => call'[d].stage = "granted"
           /\ \E b \in BOOLEAN : call'[c] = [calls[c] EXCEPT !.slot = b]
<1>1. calls \in [Calls -> Records] /\ calls[c] \in Records /\ Fine(calls[c]) /\ calls[c].slot \in BOOLEAN
  BY DEF Sound, Records
<1>2. CASE ~calls[c].slot
  <2>1. call' = calls /\ active' = active /\ queue' = queue
    BY <1>2 DEF Release
  <2>2. calls[c] = [calls[c] EXCEPT !.slot = FALSE]
    BY <1>1, <1>2 DEF Records
  <2> QED BY <2>1, <2>2 DEF IInv
<1>3. CASE calls[c].slot /\ queue = <<>>
  <2>1. call' = [calls EXCEPT ![c].slot = FALSE] /\ active' = active - 1 /\ queue' = queue
    BY <1>3 DEF Release
  <2>2. PICK r : r = [calls[c] EXCEPT !.slot = FALSE]
    OBVIOUS
  <2>3. Fine(r) /\ ~r.slot /\ r.stage = "done"
    BY <1>1, <2>2, FineFreed
  <2>4. /\ call' \in [Calls -> Records] /\ call'[c] = r
        /\ \A d \in Calls : d # c => call'[d] = calls[d]
    BY <1>1, <2>1, <2>2, <2>3 DEF Fine
  <2>5. \A d \in Calls : Fine(call'[d])
    BY <2>3, <2>4 DEF Sound
  <2>6. Counted(call', active')
    <3>1. IsFiniteSet(Holders(calls)) /\ Cardinality(Holders(calls)) = active /\ active \in 0..Limit
      BY DEF Sound, Counted
    <3>2. c \in Holders(calls)
      BY <1>3 DEF Holders
    <3>3. Holders(call') = Holders(calls) \ {c}
      BY <2>3, <2>4 DEF Holders
    <3>4. PICK H : H = Holders(calls)
      OBVIOUS
    <3>5. IsFiniteSet(H \ {c}) /\ Cardinality(H \ {c}) = Cardinality(H) - 1
      BY <3>1, <3>2, <3>4, FS_RemoveElement
    <3>6. Cardinality(H) \in Nat
      BY <3>1, <3>4, FS_CardinalityType
    <3>7. Cardinality(H \ {c}) \in Nat
      BY <3>5, FS_CardinalityType
    <3>8. active - 1 \in 0..Limit
      BY <3>1, <3>4, <3>5, <3>6, <3>7 DEF Constants, SlotsAssumption
    <3> QED BY <2>1, <3>1, <3>3, <3>4, <3>5, <3>8 DEF Counted
  <2>7. Waiting(call', queue')
    <3>1. Len(queue) = 0
      BY <1>3
    <3> QED BY <2>1, <3>1 DEF Sound, Waiting
  <2>8. IInv'
    BY <1>3, <2>1, <2>4, <2>5, <2>6, <2>7 DEF IInv, Sound, Holders, Counted, Waiting
  <2> QED BY <2>2, <2>3, <2>4, <2>8
<1>4. CASE calls[c].slot /\ queue # <<>>
  <2>1. PICK h : h = Head(queue)
    OBVIOUS
  <2>2. /\ call' = [calls EXCEPT ![c].slot = FALSE, ![h].slot = TRUE, ![h].stage = "granted"]
        /\ queue' = Tail(queue) /\ active' = active
    BY <1>4, <2>1 DEF Release
  <2>3. h \in Calls /\ calls[h].stage = "queued"
    <3>1. queue \in Seq(Calls) /\ Len(queue) \in Nat \ {0} /\ h = queue[1] /\ h \in Calls
      BY <1>4, <2>1, HeadTailProperties, EmptySeq DEF Sound, Waiting
    <3> QED BY <3>1 DEF Sound, Waiting
  <2>4. Passed(calls, call', c, h)
    BY <1>1, <2>2, <2>3, Pass2
  <2>5. /\ Sound(call', active, Tail(queue))
        /\ \A d \in Calls : call'[d].stage # calls[d].stage => call'[d].stage = "granted"
    BY <1>4, <2>1, <2>4, Grant
  <2>6. IInv'
    BY <2>2, <2>5 DEF IInv, Sound, Holders, Counted, Waiting
  <2>7. call'[c] = [calls[c] EXCEPT !.slot = FALSE]
    BY <2>4 DEF Passed
  <2> QED BY <2>5, <2>6, <2>7
<1> QED BY <1>2, <1>3, <1>4

\* Whoever ends with a result is neither gone nor late.
TimelyEnd(calls, c) ==
    \A d \in Calls : call'[d].stage = "done" /\ call'[d].answer = "ok" =>
        \/ d # c /\ calls[d].stage = "done"
        \/ ~call'[d].aborted /\ ~call'[d].late

LEMMA AnswerStep ==
    ASSUME Constants, NEW calls, Sound(calls, active, queue), NEW c \in Calls, NEW outcome \in Outcomes,
           calls[c].stage # "queued", Answer(c, calls, outcome)
    PROVE  IInv' /\ TimelyEnd(calls, c)
<1>1. /\ calls \in [Calls -> Records] /\ calls[c] \in Records /\ Fine(calls[c])
      /\ calls[c].aborted \in BOOLEAN /\ calls[c].timedOut \in BOOLEAN /\ calls[c].late \in BOOLEAN
  BY DEF Sound, Records
<1>2. PICK a : a = IF calls[c].aborted THEN "canceled"
                   ELSE IF calls[c].timedOut \/ calls[c].late THEN "timeout" ELSE outcome
  OBVIOUS
<1>3. a \in Outcomes /\ (a = "ok" => ~calls[c].aborted /\ ~calls[c].late)
  BY <1>2 DEF Outcomes
<1>4. PICK after : after = [calls EXCEPT ![c].stage = "done", ![c].answer = a]
  OBVIOUS
<1>5. PICK r : r = [calls[c] EXCEPT !.stage = "done", !.answer = a]
  OBVIOUS
<1>6. /\ r \in Records /\ r.stage = "done" /\ r.answer = a /\ r.slot = calls[c].slot
      /\ r.socket = calls[c].socket /\ r.heard = calls[c].heard /\ r.pick = calls[c].pick
      /\ r.sentTo = calls[c].sentTo /\ r.aborted = calls[c].aborted /\ r.late = calls[c].late
  BY <1>1, <1>3, <1>5 DEF Records
<1>7. Fine(r)
  <2>1. calls[c].socket \in {"open", "closing"} => calls[c].slot
    BY <1>1 DEF Fine
  <2> QED BY <1>1, <1>6, <2>1, FineLike DEF Unsent
<1>8. after = [calls EXCEPT ![c] = r] /\ after[c] = r /\ \A d \in Calls : d # c => after[d] = calls[d]
  BY <1>1, <1>4, <1>5
<1>9. Sound(after, active, queue)
  BY <1>6, <1>7, <1>8, Change
<1>10. CASE calls[c].socket \in {"none", "closed"}
  <2>1. Release(c, after)
    BY <1>2, <1>4, <1>10 DEF Answer
  <2>2. /\ IInv'
        /\ \A d \in Calls : call'[d].stage # after[d].stage => call'[d].stage = "granted"
        /\ \E b \in BOOLEAN : call'[c] = [after[c] EXCEPT !.slot = b]
    <3>1. after[c].stage = "done" /\ after[c].socket \notin {"open", "closing"}
      BY <1>6, <1>8, <1>10
    <3> QED BY <1>9, <2>1, <3>1, ReleaseStep, Zenon
  <2>3. call'[c].answer = a /\ call'[c].aborted = calls[c].aborted /\ call'[c].late = calls[c].late
    <3>1. PICK b \in BOOLEAN : call'[c] = [r EXCEPT !.slot = b]
      BY <1>8, <2>2
    <3> QED BY <1>6, <3>1 DEF Records
  <2>4. ASSUME NEW d \in Calls, d # c, call'[d].stage = "done"
        PROVE  calls[d].stage = "done"
    BY <1>8, <2>2, <2>4
  <2>5. call'[c].answer = "ok" => ~call'[c].aborted /\ ~call'[c].late
    BY <1>3, <2>3
  <2>6. TimelyEnd(calls, c)
    BY <2>4, <2>5 DEF TimelyEnd
  <2> QED BY <2>2, <2>6
<1>11. CASE calls[c].socket \notin {"none", "closed"}
  <2>1. call' = after /\ active' = active /\ queue' = queue
    BY <1>2, <1>4, <1>11 DEF Answer
  <2>2. IInv'
    BY <1>9, <2>1 DEF IInv, Sound, Holders, Counted, Waiting
  <2>3. TimelyEnd(calls, c)
    BY <1>3, <1>6, <1>8, <2>1 DEF TimelyEnd
  <2> QED BY <2>2, <2>3
<1> QED BY <1>10, <1>11

LEMMA SettleStep ==
    ASSUME Constants, NEW calls, Sound(calls, active, queue), NEW c \in Calls, NEW outcome \in Outcomes,
           calls[c].stage \notin {"queued", "done"}, Settle(c, calls, outcome)
    PROVE  IInv' /\ TimelyEnd(calls, c)
<1>1. /\ calls \in [Calls -> Records] /\ calls[c] \in Records /\ Fine(calls[c])
      /\ calls[c].socket \in {"none", "open", "closing", "closed"}
  BY DEF Sound, Records
<1>2. PICK s : s = IF calls[c].socket = "open" THEN "closing" ELSE calls[c].socket
  OBVIOUS
<1>3. PICK r : r = [calls[c] EXCEPT !.socket = s]
  OBVIOUS
<1>4. s \in {"none", "closing", "closed"} /\ (s = "closing" => calls[c].slot)
  BY <1>1, <1>2 DEF Fine
<1>5. /\ r \in Records /\ r.stage = calls[c].stage /\ r.slot = calls[c].slot
      /\ r.socket = s /\ r.heard = calls[c].heard /\ r.pick = calls[c].pick
      /\ r.sentTo = calls[c].sentTo /\ r.answer = calls[c].answer
  BY <1>1, <1>3, <1>4 DEF Records
<1>6. Fine(r)
  <2>1. /\ calls[c].stage \in {"granted", "dns"} => calls[c].slot
        /\ calls[c].stage \in {"idle", "queued"} => ~calls[c].slot
        /\ calls[c].stage = "closing" => calls[c].answer \in Outcomes
    BY <1>1 DEF Fine
  <2> QED BY <1>1, <1>4, <1>5, <2>1, FineLike
<1>7. PICK left : left = [calls EXCEPT ![c].socket = IF @ = "open" THEN "closing" ELSE @]
  OBVIOUS
<1>8. /\ left = [calls EXCEPT ![c] = r] /\ left[c] = r
      /\ \A d \in Calls : d # c => left[d] = calls[d]
  BY <1>1, <1>2, <1>3, <1>7
<1>9. Sound(left, active, queue)
  BY <1>5, <1>6, <1>8, Change
<1> DEFINE stays == left[c].socket = "closing" /\ ~left[c].aborted /\ ~left[c].timedOut /\ ~left[c].late
<1>10. CASE stays
  <2>1. /\ call' = [left EXCEPT ![c].stage = "closing", ![c].answer = outcome]
        /\ active' = active /\ queue' = queue
    BY <1>7, <1>10 DEF Settle
  <2>2. PICK u : u = [r EXCEPT !.stage = "closing", !.answer = outcome]
    OBVIOUS
  <2>3. /\ u \in Records /\ u.stage = "closing" /\ u.slot = r.slot /\ u.socket = r.socket
        /\ u.heard = r.heard /\ u.pick = r.pick /\ u.sentTo = r.sentTo /\ u.answer = outcome
    BY <1>5, <2>2 DEF Records, Pending
  <2>4. Fine(u)
    BY <1>4, <1>5, <1>6, <2>3, FineLike DEF Unsent
  <2>5. left \in [Calls -> Records]
    BY <1>9 DEF Sound
  <2>6. call' = [left EXCEPT ![c] = u] /\ call'[c] = u /\ \A d \in Calls : d # c => call'[d] = left[d]
    BY <1>8, <2>1, <2>2, <2>5
  <2>7. Sound([left EXCEPT ![c] = u], active, queue)
    BY <1>5, <1>8, <1>9, <2>3, <2>4, Change
  <2>8. IInv'
    BY <2>1, <2>6, <2>7 DEF IInv, Sound, Holders, Counted, Waiting
  <2>9. TimelyEnd(calls, c)
    <3>1. call'[c].stage # "done" /\ \A d \in Calls : d # c => call'[d] = calls[d]
      BY <1>8, <2>3, <2>6
    <3> QED BY <3>1 DEF TimelyEnd
  <2> QED BY <2>8, <2>9
<1>11. CASE ~stays
  <2>1. Answer(c, left, outcome)
    BY <1>7, <1>11 DEF Settle
  <2>2. IInv' /\ TimelyEnd(left, c)
    BY <1>5, <1>8, <1>9, <2>1, AnswerStep
  <2> QED BY <1>8, <2>2 DEF TimelyEnd
<1> QED BY <1>10, <1>11

-----------------------------------------------------------------------------
(* The actions.                                                            *)

\* What an action wrote of its call before the call ends, or does not end.
LEMMA Edited ==
    ASSUME IInv, NEW c \in Calls, NEW r, Fine(r), r.slot = call[c].slot,
           call[c].stage = "queued" => r.stage = "queued", NEW calls, calls = [call EXCEPT ![c] = r]
    PROVE  /\ Sound(calls, active, queue) /\ calls[c] = r
           /\ \A d \in Calls : d # c => calls[d] = call[d]
<1>1. call \in [Calls -> Records]
  BY DEF IInv, Sound
<1>2. Sound(calls, active, queue)
  BY Change DEF IInv
<1> QED BY <1>1, <1>2

LEMMA Quiet ==
    ASSUME IInv, NEW c \in Calls, NEW r, Fine(r), r.slot = call[c].slot,
           call[c].stage = "queued" => r.stage = "queued", r.stage = "done" => call[c].stage = "done",
           call' = [call EXCEPT ![c] = r], UNCHANGED <<active, queue>>
    PROVE  IInv' /\ ResultInTime
<1>1. PICK calls : calls = call' /\ calls = [call EXCEPT ![c] = r]
  OBVIOUS
<1>2. /\ Sound(calls, active, queue) /\ calls[c] = r
      /\ \A d \in Calls : d # c => calls[d] = call[d]
  <2>1. call \in [Calls -> Records] /\ Sound(call, active, queue)
    BY DEF IInv, Sound
  <2>2. Sound([call EXCEPT ![c] = r], active, queue)
    BY <2>1, Change
  <2> QED BY <1>1, <2>1, <2>2
<1>3. IInv'
  BY <1>1, <1>2 DEF IInv, Sound, Holders, Counted, Waiting
<1>4. ResultInTime
  <2>1. \A d \in Calls : call'[d].stage = "done" => call[d].stage = "done"
    BY <1>1, <1>2
  <2> QED BY <2>1 DEF ResultInTime
<1> QED BY <1>3, <1>4

LEMMA Ends ==
    ASSUME NEW c \in Calls, NEW calls, TimelyEnd(calls, c),
           \A d \in Calls : d # c => calls[d] = call[d]
    PROVE  ResultInTime
BY DEF TimelyEnd, ResultInTime

\* The call of an action.
LEMMA CallType ==
    ASSUME IInv, NEW c \in Calls
    PROVE  /\ call[c] \in Records /\ Fine(call[c]) /\ call \in [Calls -> Records]
           /\ Sound(call, active, queue)
BY DEF IInv, Sound, Fine

\* FairSemaphore.acquire.
LEMMA RequestStep ==
    ASSUME Constants, IInv, NEW c \in Calls, Request(c)
    PROVE  IInv' /\ ResultInTime
<1>1. /\ call[c] \in Records /\ Fine(call[c]) /\ call \in [Calls -> Records]
      /\ Sound(call, active, queue) /\ call[c].stage = "idle" /\ ~call[c].slot
  BY CallType DEF Request, Fine
<1>2. Limit \in Nat /\ active \in 0..Limit /\ queue \in Seq(Calls) /\ Len(queue) \in Nat
  BY <1>1, LenProperties DEF Sound, Counted, Waiting, Constants, SlotsAssumption
<1>3. CASE /\ active < Limit /\ queue = <<>>
           /\ active' = active + 1
           /\ call' = [call EXCEPT ![c].stage = "granted", ![c].slot = TRUE]
           /\ UNCHANGED queue
  <2>1. PICK r : r = [call[c] EXCEPT !.stage = "granted", !.slot = TRUE]
    OBVIOUS
  <2>2. /\ r \in Records /\ r.stage = "granted" /\ r.slot /\ r.socket = call[c].socket
        /\ r.heard = call[c].heard /\ r.pick = call[c].pick /\ r.sentTo = call[c].sentTo
    BY <1>1, <2>1 DEF Records, Pending
  <2>3. Fine(r)
    BY <1>1, <2>2, FineLike DEF Unsent
  <2>4. PICK new : new = call'
    OBVIOUS
  <2>5. /\ new \in [Calls -> Records] /\ new[c] = r
        /\ \A d \in Calls : d # c => new[d] = call[d]
    BY <1>1, <1>3, <2>1, <2>2, <2>4
  <2>6. \A d \in Calls : Fine(new[d])
    BY <1>1, <2>3, <2>5 DEF Sound
  <2>7. Counted(new, active + 1)
    <3>1. PICK H : H = Holders(call)
      OBVIOUS
    <3>2. IsFiniteSet(H) /\ Cardinality(H) = active /\ c \notin H
      BY <1>1, <3>1 DEF Sound, Counted, Holders
    <3>3. Holders(new) = H \cup {c}
      BY <2>2, <2>5, <3>1 DEF Holders
    <3>4. IsFiniteSet(H \cup {c}) /\ Cardinality(H \cup {c}) = Cardinality(H) + 1
      BY <3>2, FS_AddElement
    <3>5. active + 1 \in 0..Limit
      BY <1>2, <1>3
    <3> QED BY <3>2, <3>3, <3>4, <3>5 DEF Counted
  <2>8. Waiting(new, queue)
    <3>1. Len(queue) = 0
      BY <1>3
    <3> QED BY <1>1, <3>1 DEF Sound, Waiting
  <2>9. IInv'
    BY <1>3, <2>4, <2>5, <2>6, <2>7, <2>8 DEF IInv, Sound, Holders, Counted, Waiting
  <2>10. ResultInTime
    BY <2>2, <2>4, <2>5 DEF ResultInTime
  <2> QED BY <2>9, <2>10
<1>4. CASE /\ active >= Limit /\ Len(queue) < MaxQueued
           /\ queue' = Append(queue, c)
           /\ call' = [call EXCEPT ![c].stage = "queued"]
           /\ UNCHANGED active
  <2>1. PICK r : r = [call[c] EXCEPT !.stage = "queued"]
    OBVIOUS
  <2>2. /\ r \in Records /\ r.stage = "queued" /\ r.slot = call[c].slot /\ r.socket = call[c].socket
        /\ r.heard = call[c].heard /\ r.pick = call[c].pick /\ r.sentTo = call[c].sentTo
    BY <1>1, <2>1 DEF Records, Pending
  <2>3. Fine(r)
    <3>1. r.socket \in {"open", "closing"} => r.slot
      BY <1>1, <2>2 DEF Fine
    <3> QED BY <1>1, <2>2, <3>1, FineLike DEF Unsent
  <2>4. PICK new : new = call' /\ new = [call EXCEPT ![c] = r]
    BY <1>1, <1>4, <2>1
  <2>5. /\ Sound(new, active, queue) /\ new[c] = r
        /\ \A d \in Calls : d # c => new[d] = call[d]
    BY <1>1, <2>2, <2>3, <2>4, Edited
  <2>6. PICK q : q = queue'
    OBVIOUS
  <2>7. /\ q \in Seq(Calls) /\ Len(q) = Len(queue) + 1 /\ q[Len(queue) + 1] = c
        /\ \A i \in 1..Len(queue) : q[i] = queue[i]
        /\ DOMAIN q = 1..Len(queue) + 1
    BY <1>2, <1>4, <2>6, AppendProperties, LenProperties
  <2>8. \A i \in 1..Len(queue) + 1 : i \in 1..Len(queue) \/ i = Len(queue) + 1
    BY <1>2
  <2>9. Waiting(new, q)
    <3>1. \A i \in 1..Len(q) : new[q[i]].stage = "queued"
      BY <2>2, <2>5, <2>7, <2>8 DEF Sound, Waiting
    <3>2. \A i \in 1..Len(queue) : queue[i] # c
      BY <1>1 DEF Sound, Waiting
    <3>3. DOMAIN queue = 1..Len(queue) /\ IsInjective(queue)
      BY <1>1, <1>2, LenProperties DEF Sound, Waiting
    <3>4. IsInjective(q)
      BY <2>7, <2>8, <3>2, <3>3 DEF IsInjective
    <3>5. Len(q) <= MaxQueued
      BY <1>2, <1>4, <2>7 DEF Constants, SlotsAssumption
    <3> QED BY <2>7, <3>1, <3>4, <3>5 DEF Waiting
  <2>10. active = Limit
    BY <1>2, <1>4
  <2>11. Sound(new, active, q)
    BY <2>5, <2>9, <2>10 DEF Sound
  <2>12. IInv'
    BY <1>4, <2>4, <2>6, <2>11 DEF IInv, Sound, Holders, Counted, Waiting
  <2>13. ResultInTime
    BY <2>2, <2>4, <2>5 DEF ResultInTime
  <2> QED BY <2>12, <2>13
<1>5. CASE Answer(c, call, "failed")
  <2>1. IInv' /\ TimelyEnd(call, c)
    BY <1>1, <1>5, AnswerStep DEF Outcomes
  <2> QED BY <2>1, Ends
<1> QED BY <1>3, <1>4, <1>5 DEF Request

\* A change that keeps the slot, the socket and what was heard and sent.
Alike(r, s) ==
    /\ s \in Records /\ s.slot = r.slot /\ s.socket = r.socket
    /\ s.heard = r.heard /\ s.pick = r.pick /\ s.sentTo = r.sentTo
    /\ s.answer = r.answer

LEMMA AlikeFine ==
    ASSUME NEW r, NEW s, Fine(r), Alike(r, s),
           \/ s.stage = r.stage
           \/ s.stage \notin Unsent \cup {"connecting", "closing"}
           \/ r.stage = "granted" /\ s.stage = "dns"
    PROVE  Fine(s)
<1>1. /\ r.socket \in {"open", "closing"} => r.slot
      /\ r.stage \in {"granted", "dns"} => r.slot
      /\ r.stage \in {"idle", "queued"} => ~r.slot
      /\ r.stage = "closing" => r.answer \in Outcomes
  BY DEF Fine
<1>2. /\ s.stage \in {"granted", "dns"} => s.slot
      /\ s.stage \in {"idle", "queued"} => ~s.slot
      /\ s.stage \in Unsent => r.stage \in Unsent
      /\ s.stage = "connecting" => r.stage = "connecting"
      /\ s.stage = "closing" => s.answer \in Outcomes
  BY <1>1 DEF Alike, Unsent
<1> QED BY <1>1, <1>2, FineLike DEF Alike

\* The granted caller continues.
LEMMA EnterStep ==
    ASSUME Constants, IInv, NEW c \in Calls, Enter(c)
    PROVE  IInv' /\ ResultInTime
<1>1. /\ call[c] \in Records /\ Fine(call[c]) /\ call \in [Calls -> Records]
      /\ call[c].stage = "granted" /\ call[c].late \in BOOLEAN /\ call[c].timedOut \in BOOLEAN
  BY CallType DEF Enter, Records
<1>2. CASE call[c].late \/ call[c].aborted \/ call[c].timedOut
  <2>1. PICK calls : /\ calls = [call EXCEPT ![c].timedOut = @ \/ call[c].late]
                     /\ Answer(c, calls, "failed")
    BY <1>2 DEF Enter
  <2>2. PICK b : b = (call[c].timedOut \/ call[c].late)
    OBVIOUS
  <2>3. b \in BOOLEAN
    BY <1>1, <2>2
  <2>4. PICK r : r = [call[c] EXCEPT !.timedOut = b]
    OBVIOUS
  <2>5. Alike(call[c], r) /\ r.stage = "granted"
    BY <1>1, <2>3, <2>4 DEF Alike, Records
  <2>6. Fine(r)
    BY <1>1, <2>5, AlikeFine
  <2>7. calls = [call EXCEPT ![c] = r]
    BY <1>1, <2>1, <2>2, <2>4
  <2>8. Sound(calls, active, queue) /\ calls[c] = r /\ \A d \in Calls : d # c => calls[d] = call[d]
    BY <1>1, <2>5, <2>6, <2>7, Edited DEF Alike
  <2>9. IInv' /\ TimelyEnd(calls, c)
    BY <2>1, <2>5, <2>8, AnswerStep DEF Outcomes
  <2> QED BY <2>8, <2>9, Ends
<1>3. CASE ~(call[c].late \/ call[c].aborted \/ call[c].timedOut)
  <2>1. call' = [call EXCEPT ![c].stage = "dns"] /\ UNCHANGED <<active, queue>>
    BY <1>3 DEF Enter
  <2>2. PICK r : r = [call[c] EXCEPT !.stage = "dns"]
    OBVIOUS
  <2>3. Alike(call[c], r) /\ r.stage = "dns"
    BY <1>1, <2>2 DEF Alike, Records, Pending
  <2>4. Fine(r)
    BY <1>1, <2>3, AlikeFine
  <2>5. call' = [call EXCEPT ![c] = r]
    BY <1>1, <2>1, <2>2
  <2> QED BY <1>1, <2>1, <2>3, <2>4, <2>5, Quiet DEF Alike
<1> QED BY <1>2, <1>3

\* Settling from the call as it is.
LEMMA SettleNow ==
    ASSUME Constants, IInv, NEW c \in Calls, NEW outcome \in Outcomes,
           call[c].stage \notin {"queued", "done"}, Settle(c, call, outcome)
    PROVE  IInv' /\ ResultInTime
<1>1. Sound(call, active, queue)
  BY DEF IInv
<1>2. IInv' /\ TimelyEnd(call, c)
  BY <1>1, SettleStep
<1> QED BY <1>2, Ends

\* The answers of the lookup are vetted.
LEMMA ResolveStep ==
    ASSUME Constants, IInv, NEW c \in Calls, NEW answers \in Answers, Resolve(c, answers)
    PROVE  IInv' /\ ResultInTime
<1>1. /\ call[c] \in Records /\ Fine(call[c]) /\ call \in [Calls -> Records]
      /\ call[c].stage = "dns" /\ call[c].slot /\ call[c].sentTo = NoAddress
  BY CallType DEF Resolve, Fine
<1>2. CASE Vetted(answers)
  <2>1. /\ call' = [call EXCEPT ![c].stage = "connecting", ![c].socket = "open",
                                ![c].heard = answers, ![c].pick = Picked(answers)]
        /\ UNCHANGED <<active, queue>>
    BY <1>2 DEF Resolve
  <2>2. PICK p \in Addresses : p = Picked(answers)
    BY <1>2, PickedFirst
  <2>3. PICK r : r = [call[c] EXCEPT !.stage = "connecting", !.socket = "open",
                                     !.heard = answers, !.pick = p]
    OBVIOUS
  <2>4. /\ r \in Records /\ r.stage = "connecting" /\ r.slot = call[c].slot /\ r.heard = answers
        /\ r.pick = p /\ r.sentTo = call[c].sentTo
    BY <1>1, <2>3 DEF Records, Pending, InNetwork
  <2>5. Fine(r)
    <3>1. r.slot /\ r.sentTo = NoAddress /\ r.pick = Picked(r.heard) /\ Vetted(r.heard)
      BY <1>1, <1>2, <2>2, <2>4
    <3> HIDE <2>3
    <3> QED BY <2>4, <3>1 DEF Fine
  <2>6. call' = [call EXCEPT ![c] = r]
    BY <1>1, <2>1, <2>2, <2>3
  <2> QED BY <1>1, <2>1, <2>4, <2>5, <2>6, Quiet
<1>3. CASE ~Vetted(answers)
  <2>1. PICK calls : calls = [call EXCEPT ![c].heard = answers] /\ Settle(c, calls, "failed")
    BY <1>3 DEF Resolve
  <2>2. PICK r : r = [call[c] EXCEPT !.heard = answers]
    OBVIOUS
  <2>3. /\ r \in Records /\ r.stage = "dns" /\ r.slot = call[c].slot /\ r.sentTo = NoAddress
    BY <1>1, <2>2 DEF Records
  <2>4. Fine(r)
    BY <1>1, <2>3 DEF Fine
  <2>5. calls = [call EXCEPT ![c] = r]
    BY <1>1, <2>1, <2>2
  <2>6. Sound(calls, active, queue) /\ calls[c] = r /\ \A d \in Calls : d # c => calls[d] = call[d]
    BY <1>1, <2>3, <2>4, <2>5, Edited
  <2>7. IInv' /\ TimelyEnd(calls, c)
    BY <2>1, <2>3, <2>6, SettleStep DEF Outcomes
  <2> QED BY <2>6, <2>7, Ends
<1> QED BY <1>2, <1>3

\* The connection is vetted and the request is handed its socket.
LEMMA SecureConnectStep ==
    ASSUME Constants, IInv, NEW c \in Calls, NEW peer \in Addresses, NEW authorized \in BOOLEAN,
           SecureConnect(c, peer, authorized)
    PROVE  IInv' /\ ResultInTime
<1>1. /\ call[c] \in Records /\ Fine(call[c]) /\ call \in [Calls -> Records]
      /\ call[c].stage = "connecting" /\ Vetted(call[c].heard) /\ call[c].pick = Picked(call[c].heard)
  BY CallType DEF SecureConnect, Fine
<1>2. CASE authorized /\ peer = call[c].pick
  <2>1. /\ call' = [call EXCEPT ![c].stage = "writing", ![c].sentTo = peer]
        /\ UNCHANGED <<active, queue>>
    BY <1>2 DEF SecureConnect
  <2>2. PICK r : r = [call[c] EXCEPT !.stage = "writing", !.sentTo = peer]
    OBVIOUS
  <2>3. /\ r \in Records /\ r.stage = "writing" /\ r.slot = call[c].slot /\ r.socket = call[c].socket
        /\ r.heard = call[c].heard /\ r.pick = call[c].pick /\ r.sentTo = peer
    BY <1>1, <2>2 DEF Records, Pending, InNetwork
  <2>4. Fine(r)
    <3>1. /\ r.socket \in {"open", "closing"} => r.slot
          /\ Vetted(r.heard) /\ r.sentTo = Picked(r.heard)
      BY <1>1, <1>2, <2>3 DEF Fine
    <3> QED BY <2>3, <3>1 DEF Fine
  <2>5. call' = [call EXCEPT ![c] = r]
    BY <1>1, <2>1, <2>2
  <2> QED BY <1>1, <2>1, <2>3, <2>4, <2>5, Quiet
<1>3. CASE ~(authorized /\ peer = call[c].pick)
  <2>1. Settle(c, call, "failed") /\ "failed" \in Outcomes
    BY <1>3 DEF SecureConnect, Outcomes
  <2> QED BY <1>1, <2>1, SettleNow
<1> QED BY <1>2, <1>3

\* What keeps slot, socket and peer and does not end the call.
LEMMA AlikeStep ==
    ASSUME Constants, IInv, NEW c \in Calls, NEW r, Alike(call[c], r),
           \/ r.stage = call[c].stage
           \/ r.stage \in InNetwork \ {"connecting"} /\ call[c].stage \in InNetwork,
           call' = [call EXCEPT ![c] = r], UNCHANGED <<active, queue>>
    PROVE  IInv' /\ ResultInTime
<1>1. Fine(call[c])
  BY CallType
<1>2. Fine(r)
  BY <1>1, AlikeFine DEF InNetwork, Unsent
<1>3. /\ call[c].stage = "queued" => r.stage = "queued"
      /\ r.stage = "done" => call[c].stage = "done"
      /\ r.slot = call[c].slot
  BY DEF InNetwork, Alike
<1> QED BY <1>2, <1>3, Quiet

\* The request is flushed, the response begins, a part of it arrives, it ends.
LEMMA ExchangeStep ==
    ASSUME Constants, IInv, NEW c \in Calls,
           Flushed(c) \/ Chunk(c) \/ End(c) \/ \E k \in Kinds : Respond(c, k)
    PROVE  IInv' /\ ResultInTime
<1>1. call[c] \in Records /\ call \in [Calls -> Records] /\ call[c].chunks \in 0..MaxChunks /\ MaxChunks \in Nat
  BY CallType DEF Records, Constants, SlotsAssumption
<1>2. "failed" \in Outcomes /\ "ok" \in Outcomes
  BY DEF Outcomes
<1>3. CASE Flushed(c)
  <2>1. PICK r : r = [call[c] EXCEPT !.stage = "headers"]
    OBVIOUS
  <2>2. Alike(call[c], r) /\ r.stage = "headers"
    BY <1>1, <2>1 DEF Alike, Records, Pending, InNetwork
  <2>3. /\ call' = [call EXCEPT ![c] = r] /\ UNCHANGED <<active, queue>>
        /\ call[c].stage = "writing"
    BY <1>1, <1>3, <2>1 DEF Flushed
  <2> QED BY <2>2, <2>3, AlikeStep DEF InNetwork
<1>4. CASE Chunk(c)
  <2>1. CASE call[c].chunks >= MaxChunks
    BY <1>2, <1>4, <2>1, SettleNow DEF Chunk
  <2>2. CASE ~(call[c].chunks >= MaxChunks)
    <3>1. PICK n : n = call[c].chunks + 1
      OBVIOUS
    <3>2. n \in 0..MaxChunks
      BY <1>1, <2>2, <3>1
    <3>3. PICK r : r = [call[c] EXCEPT !.chunks = n]
      OBVIOUS
    <3>4. Alike(call[c], r) /\ r.stage = call[c].stage
      BY <1>1, <3>2, <3>3 DEF Alike, Records
    <3>5. call' = [call EXCEPT ![c] = r] /\ UNCHANGED <<active, queue>>
      BY <1>1, <1>4, <2>2, <3>1, <3>3 DEF Chunk
    <3> QED BY <3>4, <3>5, AlikeStep
  <2> QED BY <2>1, <2>2
<1>5. CASE End(c)
  BY <1>2, <1>5, SettleNow DEF End
<1>6. ASSUME NEW k \in Kinds, Respond(c, k)
      PROVE  IInv' /\ ResultInTime
  <2>1. call[c].stage \in {"writing", "headers"}
    BY <1>6 DEF Respond
  <2>2. CASE k \in Refused
    <3>1. Settle(c, call, "failed")
      BY <1>6, <2>2 DEF Respond
    <3> QED BY <1>2, <2>1, <3>1, SettleNow
  <2>3. CASE k \notin Refused
    <3>1. PICK r : r = [call[c] EXCEPT !.stage = "body", !.response = k]
      OBVIOUS
    <3>2. Alike(call[c], r) /\ r.stage = "body"
      BY <1>1, <3>1 DEF Alike, Records, Pending, InNetwork
    <3>3. call' = [call EXCEPT ![c] = r] /\ UNCHANGED <<active, queue>>
      BY <1>1, <1>6, <2>3, <3>1 DEF Respond
    <3> QED BY <2>1, <3>2, <3>3, AlikeStep DEF InNetwork
  <2> QED BY <2>2, <2>3
<1> QED BY <1>3, <1>4, <1>5, <1>6

LEMMA BreakStep ==
    ASSUME Constants, IInv, NEW c \in Calls, Break(c) \/ PhaseTimeout(c)
    PROVE  IInv' /\ ResultInTime
<1>1. "failed" \in Outcomes /\ "timeout" \in Outcomes
  BY DEF Outcomes
<1>2. call[c].stage \notin {"queued", "done"}
  BY DEF Break, PhaseTimeout, InNetwork
<1> QED BY <1>1, <1>2, SettleNow DEF Break, PhaseTimeout

\* The socket is closed: of a call that waits for it, of one that is over, or
\* under one that is not.
LEMMA SocketCloseStep ==
    ASSUME Constants, IInv, NEW c \in Calls, SocketClose(c)
    PROVE  IInv' /\ ResultInTime
<1>1. /\ call[c] \in Records /\ Fine(call[c]) /\ call \in [Calls -> Records]
      /\ call[c].socket \in {"open", "closing"} /\ call[c].slot
      /\ call[c].answer \in Outcomes \cup {"none"}
  BY CallType DEF SocketClose, Fine, Records
<1>2. call[c].stage \notin {"idle", "queued"}
  BY <1>1 DEF Fine
<1>3. PICK closed : closed = [call EXCEPT ![c].socket = "closed"]
  OBVIOUS
<1>4. PICK r : r = [call[c] EXCEPT !.socket = "closed"]
  OBVIOUS
<1>5. /\ r \in Records /\ r.stage = call[c].stage /\ r.slot = call[c].slot /\ r.socket = "closed"
      /\ r.heard = call[c].heard /\ r.pick = call[c].pick /\ r.sentTo = call[c].sentTo
      /\ r.answer = call[c].answer
  BY <1>1, <1>4 DEF Records
<1>6. Fine(r)
  <2>1. /\ r.stage \in {"granted", "dns"} => r.slot
        /\ r.stage \in {"idle", "queued"} => ~r.slot
        /\ r.stage = "closing" => r.answer \in Outcomes
    BY <1>1, <1>2, <1>5 DEF Fine
  <2> QED BY <1>1, <1>5, <2>1, FineLike
<1>7. closed = [call EXCEPT ![c] = r]
  BY <1>1, <1>3, <1>4
<1>8. Sound(closed, active, queue) /\ closed[c] = r /\ \A d \in Calls : d # c => closed[d] = call[d]
  <2>1. r.slot = call[c].slot /\ (call[c].stage = "queued" => r.stage = "queued")
    BY <1>5
  <2>2. Sound([call EXCEPT ![c] = r], active, queue)
    BY <1>6, <2>1, Change DEF IInv
  <2> QED BY <1>1, <1>7, <2>2
<1>9. CASE call[c].stage = "closing"
  <2>1. Answer(c, closed, call[c].answer)
    BY <1>3, <1>9 DEF SocketClose
  <2>2. call[c].answer \in Outcomes
    BY <1>1, <1>9 DEF Fine
  <2>3. IInv' /\ TimelyEnd(closed, c)
    BY <1>5, <1>8, <1>9, <2>1, <2>2, AnswerStep
  <2> QED BY <1>8, <2>3, Ends
<1>10. CASE call[c].stage = "done"
  <2>1. Release(c, closed)
    BY <1>3, <1>10 DEF SocketClose
  <2>2. /\ IInv'
        /\ \A d \in Calls : call'[d].stage # closed[d].stage => call'[d].stage = "granted"
    <3>1. closed[c].stage = "done" /\ closed[c].socket \notin {"open", "closing"}
      BY <1>5, <1>8, <1>10
    <3> QED BY <1>8, <2>1, <3>1, ReleaseStep, Zenon
  <2>3. \A d \in Calls : call'[d].stage = "done" => call[d].stage = "done"
    BY <1>5, <1>8, <1>10, <2>2
  <2> QED BY <2>2, <2>3 DEF ResultInTime
<1>11. CASE call[c].stage \notin {"closing", "done"}
  <2>1. Settle(c, closed, "failed")
    BY <1>3, <1>11 DEF SocketClose
  <2>2. IInv' /\ TimelyEnd(closed, c)
    BY <1>2, <1>5, <1>8, <1>11, <2>1, SettleStep DEF Outcomes
  <2> QED BY <1>8, <2>2, Ends
<1> QED BY <1>9, <1>10, <1>11

\* The queue without one of its positions.
LEMMA WithoutProperties ==
    ASSUME NEW S, NEW s \in Seq(S), NEW i \in 1..Len(s)
    PROVE  /\ Without(s, i) \in Seq(S) /\ Len(Without(s, i)) = Len(s) - 1
           /\ \A j \in 1..Len(s) - 1 :
                 Without(s, i)[j] = IF j < i THEN s[j] ELSE s[j + 1]
<1> DEFINE a == SubSeq(s, 1, i - 1)
           b == SubSeq(s, i + 1, Len(s))
<1>1. Len(s) \in Nat /\ \A j \in 1..Len(s) : s[j] \in S
  BY LenProperties, ElementOfSeq
<1>2. /\ a \in Seq(S) /\ Len(a) = i - 1
      /\ \A j \in 1..i - 1 : a[j] = s[j]
  BY <1>1, SubSeqProperties
<1>3. /\ b \in Seq(S) /\ Len(b) = Len(s) - i
      /\ \A j \in 1..Len(s) - i : b[j] = s[i + j]
  BY <1>1, SubSeqProperties
<1> HIDE DEF a, b
<1>4. /\ a \o b \in Seq(S) /\ Len(a \o b) = Len(a) + Len(b)
      /\ \A j \in 1..Len(a) + Len(b) :
            (a \o b)[j] = IF j <= Len(a) THEN a[j] ELSE b[j - Len(a)]
  BY <1>2, <1>3, ConcatProperties, Zenon
<1> DEFINE c == a \o b
<1>5. /\ c \in Seq(S) /\ Len(c) = Len(s) - 1
      /\ \A j \in 1..Len(s) - 1 : c[j] = IF j <= i - 1 THEN a[j] ELSE b[j - (i - 1)]
  BY <1>1, <1>2, <1>3, <1>4
<1>6. c = Without(s, i)
  BY DEF Without, a, b
<1> HIDE DEF c
<1>7. ASSUME NEW j \in 1..Len(s) - 1
      PROVE  c[j] = IF j < i THEN s[j] ELSE s[j + 1]
  <2>1. CASE j < i
    BY <2>1, <1>1, <1>2, <1>5
  <2>2. CASE ~(j < i)
    <3>0. ~(j <= i - 1)
      BY <2>2
    <3>1. c[j] = b[j - (i - 1)]
      <4>1. c[j] = IF j <= i - 1 THEN a[j] ELSE b[j - (i - 1)]
        BY <1>5
      <4> QED BY <3>0, <4>1, Zenon
    <3>2. j - (i - 1) \in 1..Len(s) - i /\ i + (j - (i - 1)) = j + 1
      BY <2>2, <1>1
    <3>3. b[j - (i - 1)] = s[i + (j - (i - 1))]
      BY <3>2, <1>3
    <3> QED BY <2>2, <3>1, <3>2, <3>3
  <2> QED BY <2>1, <2>2
<1>8. \A j \in 1..Len(s) - 1 : c[j] = IF j < i THEN s[j] ELSE s[j + 1]
  BY <1>7
<1> QED BY <1>5, <1>6, <1>8, Zenon

\* A caller leaves the queue: the others keep their places in it.
Leave(calls, q, i, w) ==
    /\ w \in Seq(Calls) /\ Len(w) <= MaxQueued /\ IsInjective(w)
    /\ w # <<>> => q # <<>>
    /\ \A j \in 1..Len(w) : calls[w[j]].stage = "queued" /\ w[j] # q[i] /\ w[j] \in Calls

LEMMA Leaves ==
    ASSUME Constants, NEW calls, NEW q, Waiting(calls, q), NEW i \in 1..Len(q), NEW w, w = Without(q, i)
    PROVE  Leave(calls, q, i, w)
<1>1. /\ q \in Seq(Calls) /\ Len(q) \in Nat /\ DOMAIN q = 1..Len(q) /\ Len(q) <= MaxQueued /\ MaxQueued \in Nat
      /\ \A j \in 1..Len(q) : q[j] \in Calls /\ calls[q[j]].stage = "queued"
      /\ \A j, k \in 1..Len(q) : q[j] = q[k] => j = k
  BY LenProperties, ElementOfSeq DEF Waiting, IsInjective, Constants, SlotsAssumption
<1>2. PICK n \in Nat : n = Len(q)
  BY <1>1
<1>3. /\ w \in Seq(Calls) /\ Len(w) = n - 1
      /\ \A j \in 1..n - 1 : w[j] = IF j < i THEN q[j] ELSE q[j + 1]
  BY <1>1, <1>2, WithoutProperties
<1>4. i \in 1..n /\ 1..n = 1..Len(q) /\ DOMAIN w = 1..n - 1
  BY <1>2, <1>3, LenProperties
<1> DEFINE at(j) == IF j < i THEN j ELSE j + 1
<1>5. ASSUME NEW j \in 1..n - 1
      PROVE  at(j) \in 1..n /\ at(j) # i /\ w[j] = q[at(j)]
  <2>1. CASE j < i
    BY <2>1, <1>3, <1>4
  <2>2. CASE ~(j < i)
    BY <2>2, <1>3, <1>4
  <2> QED BY <2>1, <2>2
<1>6. ASSUME NEW j \in 1..n - 1, NEW k \in 1..n - 1, at(j) = at(k)
      PROVE  j = k
  BY <1>4, <1>6
<1> HIDE DEF at
<1>7. IsInjective(w)
  <2>1. ASSUME NEW j \in 1..n - 1, NEW k \in 1..n - 1, w[j] = w[k]
        PROVE  j = k
    <3>1. /\ at(j) \in 1..Len(q) /\ at(k) \in 1..Len(q)
          /\ w[j] = q[at(j)] /\ w[k] = q[at(k)]
      BY <1>4, <1>5
    <3>2. at(j) = at(k)
      BY <1>1, <2>1, <3>1
    <3> QED BY <1>6, <3>2
  <2> QED BY <2>1, <1>4 DEF IsInjective
<1>8. \A j \in 1..Len(w) : calls[w[j]].stage = "queued" /\ w[j] # q[i] /\ w[j] \in Calls
  <2> TAKE j \in 1..Len(w)
  <2>1. at(j) \in 1..Len(q) /\ at(j) # i /\ w[j] = q[at(j)]
    BY <1>3, <1>4, <1>5
  <2> QED BY <1>1, <2>1
<1>9. w # <<>> => q # <<>>
  BY <1>2, <1>4
<1>10. Len(w) <= MaxQueued
  BY <1>1, <1>2, <1>3
<1> QED BY <1>3, <1>7, <1>8, <1>9, <1>10 DEF Leave

\* What the signal does to a caller in the queue.
Departs(c) == \E i \in DOMAIN queue : queue[i] = c /\ queue' = Without(queue, i)

GoesUnserved(c, calls) ==
    /\ \E a \in Outcomes \ {"ok"} : call' = [calls EXCEPT ![c].stage = "done", ![c].answer = a]
    /\ active' = active

LEMMA SignalQueued ==
    ASSUME NEW c, NEW calls, Signal(c, calls), call[c].stage = "queued"
    PROVE  Departs(c) /\ GoesUnserved(c, calls)
<1> DEFINE a == IF calls[c].aborted THEN "canceled" ELSE "timeout"
           Left == /\ Departs(c)
                   /\ call' = [calls EXCEPT ![c].stage = "done", ![c].answer = a]
                   /\ UNCHANGED active
           Other == CASE call[c].stage = "queued" -> Left
                      [] call[c].stage \in {"dns"} \cup InNetwork -> Settle(c, calls, "failed")
                      [] call[c].stage = "closing" -> Answer(c, calls, call[c].answer)
                      [] OTHER -> call' = calls /\ UNCHANGED <<active, queue>>
<1>1. Other
  BY DEF Signal, Departs
<1>2. a \in Outcomes \ {"ok"}
  BY DEF Outcomes
<1>3. Left
  <2> HIDE DEF Left
  <2> QED BY <1>1 DEF InNetwork
<1> HIDE DEF a
<1> QED BY <1>2, <1>3 DEF GoesUnserved

\* The signal reaches a caller in the queue, in the network or waiting for its
\* socket.
LEMMA SignalStep ==
    ASSUME Constants, IInv, NEW c \in Calls, NEW r, Fine(r), r.slot = call[c].slot,
           r.stage = call[c].stage, call[c].stage # "idle",
           NEW calls, calls = [call EXCEPT ![c] = r], Signal(c, calls)
    PROVE  IInv' /\ ResultInTime
<1>1. /\ call[c] \in Records /\ Fine(call[c]) /\ call \in [Calls -> Records]
      /\ call[c].stage \in Pending \cup {"idle", "done"} /\ Sound(call, active, queue)
  BY CallType DEF Records
<1>2. Sound(calls, active, queue) /\ calls[c] = r /\ \A d \in Calls : d # c => calls[d] = call[d]
  <2>1. Sound([call EXCEPT ![c] = r], active, queue)
    BY <1>1, Change
  <2> QED BY <1>1, <2>1
<1>3. CASE call[c].stage = "queued"
  <2>0. Departs(c) /\ GoesUnserved(c, calls)
    BY <1>3, SignalQueued
  <2>1. PICK i \in DOMAIN queue : queue[i] = c /\ queue' = Without(queue, i)
    BY <2>0 DEF Departs
  <2>2. /\ active' = active
        /\ \E b \in Outcomes \ {"ok"} : call' = [calls EXCEPT ![c].stage = "done", ![c].answer = b]
    BY <2>0 DEF GoesUnserved
  <2> PICK a \in Outcomes \ {"ok"} : call' = [calls EXCEPT ![c].stage = "done", ![c].answer = a]
    BY <2>2
  <2>3. PICK u : u = [r EXCEPT !.stage = "done", !.answer = a]
    OBVIOUS
  <2>4. r \in Records /\ ~r.slot /\ r.socket \notin {"open", "closing"}
    BY <1>3 DEF Fine
  <2>5. /\ u \in Records /\ u.stage = "done" /\ u.answer = a /\ u.slot = r.slot /\ u.socket = r.socket
        /\ u.heard = r.heard /\ u.pick = r.pick /\ u.sentTo = r.sentTo
    BY <2>3, <2>4 DEF Records
  <2>6. Fine(u)
    <3>1. u.socket \notin {"open", "closing"}
      BY <2>4, <2>5
    <3> QED BY <2>5, <3>1, FineLike DEF Unsent
  <2>7. PICK new : new = call' /\ new = [calls EXCEPT ![c].stage = "done", ![c].answer = a]
    BY <2>2
  <2>8. calls \in [Calls -> Records]
    BY <1>2 DEF Sound
  <2>9. /\ new \in [Calls -> Records] /\ new[c] = u
        /\ \A d \in Calls : d # c => new[d] = calls[d]
    <3>1. new = [calls EXCEPT ![c] = u]
      BY <1>2, <2>3, <2>7, <2>8
    <3> QED BY <2>5, <2>8, <3>1
  <2>10. \A d \in Calls : Fine(new[d])
    BY <1>2, <2>6, <2>9 DEF Sound
  <2>11. Holders(new) = Holders(calls)
    BY <1>2, <2>5, <2>9 DEF Holders
  <2>12. PICK w : w = queue' /\ w = Without(queue, i)
    BY <2>1
  <2>13. i \in 1..Len(queue)
    BY <1>1, LenProperties DEF Sound, Waiting
  <2>14. /\ w \in Seq(Calls) /\ Len(w) <= MaxQueued /\ IsInjective(w)
         /\ w # <<>> => queue # <<>>
         /\ \A j \in 1..Len(w) : calls[w[j]].stage = "queued" /\ w[j] # queue[i] /\ w[j] \in Calls
    <3>1. Waiting(calls, queue)
      BY <1>2 DEF Sound
    <3>2. w = Without(queue, i)
      BY <2>12
    <3>3. Leave(calls, queue, i, w)
      BY <2>13, <3>1, <3>2, Leaves
    <3> QED BY <3>3 DEF Leave
  <2>15. Waiting(new, w)
    BY <2>1, <2>9, <2>14 DEF Waiting
  <2>16. Sound(new, active, w)
    BY <1>2, <2>9, <2>10, <2>11, <2>14, <2>15 DEF Sound, Counted
  <2>17. IInv'
    BY <2>2, <2>7, <2>12, <2>16 DEF IInv, Sound, Holders, Counted, Waiting
  <2>18. ResultInTime
    <3>1. call'[c].answer # "ok" /\ \A d \in Calls : d # c => call'[d] = call[d]
      BY <1>2, <2>5, <2>7, <2>9
    <3> QED BY <3>1 DEF ResultInTime
  <2> QED BY <2>17, <2>18
<1>4. CASE call[c].stage \in {"dns"} \cup InNetwork
  <2>1. Settle(c, calls, "failed") /\ "failed" \in Outcomes
    BY <1>4 DEF Signal, InNetwork, Outcomes
  <2>2. calls[c].stage \notin {"queued", "done"}
    BY <1>2, <1>4 DEF InNetwork
  <2>3. IInv' /\ TimelyEnd(calls, c)
    BY <1>2, <2>1, <2>2, SettleStep
  <2> QED BY <1>2, <2>3, Ends
<1>5. CASE call[c].stage = "closing"
  <2>1. Answer(c, calls, call[c].answer) /\ call[c].answer \in Outcomes
    BY <1>1, <1>5 DEF Signal, InNetwork, Fine
  <2>2. IInv' /\ TimelyEnd(calls, c)
    BY <1>2, <1>5, <2>1, AnswerStep
  <2> QED BY <1>2, <2>2, Ends
<1>6. CASE call[c].stage \in {"granted", "done"}
  <2>1. call' = calls /\ UNCHANGED <<active, queue>>
    BY <1>6 DEF Signal, InNetwork
  <2> QED BY <2>1, Quiet
<1> QED BY <1>1, <1>3, <1>4, <1>5, <1>6 DEF Pending

\* The caller aborts, the clock passes the deadline, its timer runs.
LEMMA TimeStep ==
    ASSUME Constants, IInv, NEW c \in Calls, Abort(c) \/ Pass(c) \/ Deadline(c)
    PROVE  IInv' /\ ResultInTime
<1>1. /\ call[c] \in Records /\ Fine(call[c]) /\ call \in [Calls -> Records]
      /\ call[c].stage # "idle"
  BY CallType DEF Abort, Pass, Deadline, Pending, InNetwork
<1>2. ASSUME NEW r, r \in { [call[c] EXCEPT !.aborted = TRUE],
                            [call[c] EXCEPT !.timedOut = TRUE], [call[c] EXCEPT !.late = TRUE] }
      PROVE  Alike(call[c], r) /\ r.stage = call[c].stage /\ r.slot = call[c].slot /\ Fine(r)
  <2>1. r = [call[c] EXCEPT !.aborted = TRUE] => Alike(call[c], r) /\ r.stage = call[c].stage
    BY <1>1 DEF Alike, Records
  <2>2. r = [call[c] EXCEPT !.timedOut = TRUE] => Alike(call[c], r) /\ r.stage = call[c].stage
    BY <1>1 DEF Alike, Records
  <2>3. r = [call[c] EXCEPT !.late = TRUE] => Alike(call[c], r) /\ r.stage = call[c].stage
    BY <1>1 DEF Alike, Records
  <2>4. Alike(call[c], r) /\ r.stage = call[c].stage
    BY <1>2, <2>1, <2>2, <2>3
  <2> QED BY <1>1, <2>4, AlikeFine DEF Alike
<1>3. CASE Abort(c)
  <2>1. PICK calls : calls = [call EXCEPT ![c].aborted = TRUE] /\ Signal(c, calls)
    BY <1>3 DEF Abort
  <2>2. PICK r : r = [call[c] EXCEPT !.aborted = TRUE]
    OBVIOUS
  <2>3. calls = [call EXCEPT ![c] = r]
    BY <1>1, <2>1, <2>2
  <2>4. Fine(r) /\ r.stage = call[c].stage /\ r.slot = call[c].slot
    BY <1>2, <2>2
  <2> QED BY <1>1, <2>1, <2>3, <2>4, SignalStep
<1>4. CASE Deadline(c)
  <2>1. PICK calls : calls = [call EXCEPT ![c].timedOut = TRUE] /\ Signal(c, calls)
    BY <1>4 DEF Deadline
  <2>2. PICK r : r = [call[c] EXCEPT !.timedOut = TRUE]
    OBVIOUS
  <2>3. calls = [call EXCEPT ![c] = r]
    BY <1>1, <2>1, <2>2
  <2>4. Fine(r) /\ r.stage = call[c].stage /\ r.slot = call[c].slot
    BY <1>2, <2>2
  <2> QED BY <1>1, <2>1, <2>3, <2>4, SignalStep
<1>5. CASE Pass(c)
  <2>1. PICK r : r = [call[c] EXCEPT !.late = TRUE]
    OBVIOUS
  <2>2. call' = [call EXCEPT ![c] = r] /\ UNCHANGED <<active, queue>>
    BY <1>1, <1>5, <2>1 DEF Pass
  <2>3. Alike(call[c], r) /\ r.stage = call[c].stage
    BY <1>2, <2>1
  <2> QED BY <2>2, <2>3, AlikeStep
<1> QED BY <1>3, <1>4, <1>5

\* The adapter tells the room.
LEMMA TellStep ==
    ASSUME Constants, IInv, NEW c \in Calls, Tell(c)
    PROVE  IInv' /\ ResultInTime
<1>1. call[c] \in Records /\ call \in [Calls -> Records]
  BY CallType
<1>2. PICK v \in Verdicts : v = Verdict(call[c])
  BY DEF Verdict, Verdicts
<1>3. PICK r : r = [call[c] EXCEPT !.said = v]
  OBVIOUS
<1>4. call' = [call EXCEPT ![c] = r] /\ UNCHANGED <<active, queue>>
  BY <1>1, <1>2, <1>3 DEF Tell
<1>5. Alike(call[c], r) /\ r.stage = call[c].stage
  BY <1>1, <1>3 DEF Alike, Records
<1> QED BY <1>4, <1>5, AlikeStep

LEMMA InvInit ==
    ASSUME Constants, Init
    PROVE  IInv
<1>1. PICK r : r = Fresh
  OBVIOUS
<1>2. /\ r \in Records /\ r.stage = "idle" /\ ~r.slot /\ r.socket = "none" /\ r.sentTo = NoAddress
  <2>1. 0 \in 0..MaxChunks
    BY DEF Constants, SlotsAssumption
  <2>2. Fresh \in Records /\ Fresh.stage = "idle" /\ ~Fresh.slot /\ Fresh.socket = "none" /\ Fresh.sentTo = NoAddress
    BY <2>1 DEF Fresh, Records
  <2> QED BY <1>1, <2>2
<1>3. Fine(r)
  BY <1>2 DEF Fine
<1>4. call = [c \in Calls |-> r] /\ active = 0 /\ queue = <<>>
  BY <1>1 DEF Init
<1>5. Holders(call) = {}
  BY <1>2, <1>4 DEF Holders
<1>6. Counted(call, 0)
  BY <1>5, FS_EmptySet DEF Counted, Constants, SlotsAssumption
<1>7. Waiting(call, <<>>)
  BY DEF Waiting, IsInjective, Constants, SlotsAssumption
<1> QED BY <1>2, <1>3, <1>4, <1>6, <1>7 DEF IInv, Sound

LEMMA InvStep ==
    ASSUME Constants, IInv, [Next]_vars
    PROVE  IInv' /\ [ResultInTime]_vars
<1>1. CASE UNCHANGED vars
  BY <1>1 DEF vars, IInv, Sound, Waiting, Counted, Holders
<1>2. CASE Next
  <2>1. PICK c \in Calls :
          \/ Request(c) \/ Enter(c)
          \/ \E a \in Answers : Resolve(c, a)
          \/ \E peer \in Addresses, authorized \in BOOLEAN : SecureConnect(c, peer, authorized)
          \/ Flushed(c) \/ Chunk(c) \/ End(c) \/ Break(c) \/ PhaseTimeout(c)
          \/ \E r \in Kinds : Respond(c, r)
          \/ SocketClose(c) \/ Abort(c) \/ Pass(c) \/ Deadline(c) \/ Tell(c)
    BY <1>2 DEF Next
  <2>2. CASE Request(c)
    BY <2>2, RequestStep
  <2>3. CASE Enter(c)
    BY <2>3, EnterStep
  <2>4. CASE \E a \in Answers : Resolve(c, a)
    BY <2>4, ResolveStep
  <2>5. CASE \E peer \in Addresses, authorized \in BOOLEAN : SecureConnect(c, peer, authorized)
    BY <2>5, SecureConnectStep
  <2>6. CASE Flushed(c) \/ Chunk(c) \/ End(c) \/ \E r \in Kinds : Respond(c, r)
    BY <2>6, ExchangeStep
  <2>7. CASE Break(c) \/ PhaseTimeout(c)
    BY <2>7, BreakStep
  <2>8. CASE SocketClose(c)
    BY <2>8, SocketCloseStep
  <2>9. CASE Abort(c) \/ Pass(c) \/ Deadline(c)
    BY <2>9, TimeStep
  <2>10. CASE Tell(c)
    BY <2>10, TellStep
  <2> QED BY <2>1, <2>2, <2>3, <2>4, <2>5, <2>6, <2>7, <2>8, <2>9, <2>10
<1> QED BY <1>1, <1>2

-----------------------------------------------------------------------------
(* What follows from the invariant.                                        *)

LEMMA InvType ==
    ASSUME Constants, IInv
    PROVE  TypeOK
<1>1. active \in 0..Limit /\ call \in [Calls -> Records] /\ Waiting(call, queue)
  BY DEF IInv, Sound, Counted
<1>2. DOMAIN queue = 1..Len(queue)
  BY <1>1, LenProperties DEF Waiting
<1> QED BY <1>1, <1>2 DEF TypeOK, Waiting

LEMMA InvSockets ==
    ASSUME Constants, IInv
    PROVE  SocketsWithinLimit
<1>1. PICK S, H : S = {c \in Calls : call[c].socket \in {"open", "closing"}} /\ H = Holders(call)
  OBVIOUS
<1>2. S \subseteq H
  BY <1>1 DEF IInv, Sound, Fine, Holders
<1>3. IsFiniteSet(H) /\ Cardinality(H) <= Limit
  BY <1>1 DEF IInv, Sound, Counted, Constants, SlotsAssumption
<1>4. Cardinality(S) <= Cardinality(H) /\ Cardinality(S) \in Nat /\ Cardinality(H) \in Nat
  BY <1>2, <1>3, FS_Subset, FS_CardinalityType
<1>5. Cardinality(S) <= Limit
  BY <1>3, <1>4 DEF Constants, SlotsAssumption
<1> QED BY <1>1, <1>5 DEF SocketsWithinLimit

LEMMA InvSlots ==
    ASSUME Constants, IInv
    PROVE  NoIdleSlot
BY DEF IInv, Sound, Counted, Holders, NoIdleSlot

LEMMA InvPeer ==
    ASSUME Constants, IInv
    PROVE  KeyGoesToVettedPeer
<1>1. ASSUME NEW c \in Calls, call[c].sentTo # NoAddress
      PROVE  /\ \A a \in Range(call[c].heard) : Public(a)
             /\ call[c].sentTo \in Range(call[c].heard)
             /\ \A a \in Range(call[c].heard) : a = call[c].sentTo \/ Before(call[c].sentTo, a)
  <2>1. call[c] \in Records /\ Fine(call[c])
    BY CallType
  <2>2. PICK heard, p : heard = call[c].heard /\ p = call[c].sentTo
    OBVIOUS
  <2>3. Vetted(heard) /\ p = Picked(heard) /\ heard \in Answers \cup {<<>>}
    BY <1>1, <2>1, <2>2 DEF Fine, Records
  <2>4. heard \in Answers
    BY <2>3 DEF Vetted
  <2>5. /\ Picked(heard) \in Range(heard)
        /\ \A b \in Range(heard) : Picked(heard) = b \/ Before(Picked(heard), b)
        /\ \A b \in Range(heard) : Public(b)
    BY <2>3, <2>4, PickedFirst
  <2> QED BY <2>2, <2>3, <2>5
<1> QED BY <1>1 DEF KeyGoesToVettedPeer

-----------------------------------------------------------------------------
(* Theorems.                                                               *)

LEMMA InvAlways ==
    ASSUME Constants
    PROVE  Spec => []IInv
<1>1. Init => IInv
  BY InvInit
<1>2. IInv /\ [Next]_vars => IInv'
  BY InvStep
<1> QED BY <1>1, <1>2, PTL DEF Spec

\* Every record of a call keeps its type, and the queue holds callers that are
\* queued, no more of them than it may.
THEOREM TransportTypes ==
    ASSUME Constants
    PROVE  Spec => []TypeOK
<1>1. IInv => TypeOK
  BY InvType
<1> QED BY <1>1, InvAlways, PTL

\* Sockets that are not closed yet, those of callers long answered included,
\* never exceed the concurrency limit.
THEOREM SocketsAreBounded ==
    ASSUME Constants
    PROVE  Spec => []SocketsWithinLimit
<1>1. IInv => SocketsWithinLimit
  BY InvSockets
<1> QED BY <1>1, InvAlways, PTL

\* The semaphore counts the holders of its slots, whatever mix of aborts,
\* deadlines, failures and late closes frees them, and nobody queues beside a
\* free slot.
THEOREM SlotsAreCounted ==
    ASSUME Constants
    PROVE  Spec => []NoIdleSlot
<1>1. IInv => NoIdleSlot
  BY InvSlots
<1> QED BY <1>1, InvAlways, PTL

\* The key leaves the server for the first in the order of the policy of
\* answers that are all public, and for no other address.
THEOREM KeyGoesWhereVetted ==
    ASSUME Constants
    PROVE  Spec => []KeyGoesToVettedPeer
<1>1. IInv => KeyGoesToVettedPeer
  BY InvPeer
<1> QED BY <1>1, InvAlways, PTL

\* The four together: what the transport promises of every state.
THEOREM TransportStaysSound ==
    ASSUME Constants
    PROVE  Spec => []TransportSound
<1>1. IInv => TransportSound
  BY InvType, InvSockets, InvSlots, InvPeer DEF TransportSound
<1> QED BY <1>1, InvAlways, PTL

\* A caller that gave up, or whose deadline has passed, is never answered with
\* a result.
THEOREM ResultsComeInTime ==
    ASSUME Constants
    PROVE  Spec => NoResultAfterTheEnd
<1>1. IInv /\ [Next]_vars => [ResultInTime]_vars
  BY InvStep
<1> QED BY <1>1, InvAlways, PTL DEF Spec, NoResultAfterTheEnd

-----------------------------------------------------------------------------
(* Bindings: the chain from a connection to a persona's reply.             *)

CONSTANTS Rooms, Clouds, Profiles, Names, Clients, OwnIds, MaxRevision, None
VARIABLES conn, model, seen, binding, pinned, asked, snapshot, told, request, lmStudio

Bindings == INSTANCE ProviderBindings

\* What a client waits for.
Requests ==
    {Bindings!Idle}
      \cup [kind : {"test"}, conn : Bindings!Connections, at : Bindings!Revisions, name : Names]
      \cup [kind : {"local"}, room : Rooms, expected : 0..MaxRevision]

\* The references of the chain: a model revision names a revision there is of
\* its connection, a binding one of its model.
Referring ==
    /\ \A m \in Bindings!Models : \A n \in 1..Len(model[m]) :
          model[m][n].at \in 1..Len(conn[model[m][n].conn])
    /\ \A r \in Rooms : \A n \in 1..Len(binding[r]) :
          binding[r][n].at \in 1..Len(model[binding[r][n].model])

\* A pinned decision is one the chain has, for its revisions never change.
Pinning ==
    \A r \in Rooms : pinned[r] # None =>
        LET b == pinned[r].binding IN
        b.at \in 1..Len(model[b.model]) /\ pinned[r].model = model[b.model][b.at]

\* The model that is called is the one of the decision it is called for.
Asking ==
    \A r \in Rooms : asked[r] # None => pinned[r] # None /\ asked[r] = pinned[r].model.name

\* Each answer is the binding revision it was the answer to.
Telling ==
    \A r \in Rooms :
        /\ Len(told[r]) = Len(binding[r])
        /\ \A i \in 1..Len(told[r]) : told[r][i][1] = i /\ told[r][i][2] = binding[r][i]

\* LM Studio's connection of a room begins enabled; its model was observed there
\* at revision 1 and nowhere else, and is bound at its newest revision.
Locals ==
    OwnIds => \A r \in Rooms :
        LET c == conn[Bindings!Local(r)]
            m == model[Bindings!LocalModel(r)]
            b == binding[r][Len(binding[r])] IN
        /\ c # <<>> => c[1] = "enabled"
        /\ \A n \in 2..Len(c) : c[n] # "enabled"
        /\ m # <<>> => seen[Bindings!Local(r)][1] # None
        /\ \A n \in 1..Len(m) : m[n].conn = Bindings!Local(r) /\ m[n].at = 1
        /\ binding[r] # <<>> /\ b.model = Bindings!LocalModel(r) => b.at = Len(m)

\* The inductive invariant.
BindingsInv ==
    /\ Bindings!TypeOK /\ request \in [Clients -> Requests]
    /\ Referring /\ Pinning /\ Asking /\ Telling /\ Locals /\ Bindings!CommitsInForce

\* A sequence that has grown at its end, if at all.
Longer(s, t) == Len(s) <= Len(t) /\ \A i \in 1..Len(s) : t[i] = s[i]

\* Every chain of revisions only grows.
Grows ==
    /\ \A c \in Bindings!Connections : Longer(conn[c], conn'[c])
    /\ \A m \in Bindings!Models : Longer(model[m], model'[m])
    /\ \A r \in Rooms : Longer(binding[r], binding'[r])

\* States of a connection, answers to clients, and the types of the module.
States == {"enabled", "disabled", "deleted"}
Tellings == Bindings!Revisions \X Bindings!BindingRevisions \X {"lmstudio", "cloud"}

Typed == Bindings!TypeOK /\ request \in [Clients -> Requests]

\* One of the sequences f has x at its end in g.
OneMore(I, S, f, g, i, x) ==
    /\ g \in [I -> Seq(S)] /\ Len(f[i]) \in Nat /\ Len(g[i]) = Len(f[i]) + 1
    /\ g[i][Len(f[i]) + 1] = x /\ g[i] # <<>>
    /\ \A j \in I : Longer(f[j], g[j]) /\ (j # i => g[j] = f[j])

\* Append makes one sequence longer and leaves the others.
LEMMA Appended ==
    ASSUME NEW I, NEW S, NEW f \in [I -> Seq(S)], NEW i \in I, NEW x \in S
    PROVE  OneMore(I, S, f, [f EXCEPT ![i] = Append(f[i], x)], i, x)
<1> DEFINE s == f[i]
           t == Append(s, x)
           g == [f EXCEPT ![i] = Append(f[i], x)]
<1>1. s \in Seq(S) /\ g[i] = t /\ (\A j \in I : j # i => g[j] = f[j]) /\ f[i] = s
  OBVIOUS
<1>2. \A j \in I : f[j] \in Seq(S)
  OBVIOUS
<1>3. g = [f EXCEPT ![i] = t]
  OBVIOUS
<1> HIDE DEF s, g
<1>4. t \in Seq(S) /\ Len(t) = Len(s) + 1 /\ t[Len(s) + 1] = x /\ t # <<>> /\ Len(s) \in Nat
      /\ (\A n \in 1..Len(s) : t[n] = s[n])
  BY <1>1
<1> HIDE DEF t
<1>5. Longer(s, t)
  BY <1>4 DEF Longer
<1>6. \A j \in I : Longer(f[j], f[j])
  BY <1>2 DEF Longer
<1>7. g \in [I -> Seq(S)]
  BY <1>3, <1>4
<1>8. \A j \in I : Longer(f[j], g[j])
  BY <1>1, <1>5, <1>6
<1>9. Len(f[i]) \in Nat /\ Len(g[i]) = Len(f[i]) + 1 /\ g[i][Len(f[i]) + 1] = x /\ g[i] # <<>>
  BY <1>1, <1>4
<1>10. OneMore(I, S, f, g, i, x)
  BY <1>1, <1>7, <1>8, <1>9 DEF OneMore
<1> QED BY <1>10 DEF g

\* What the type says of the revisions there are.
LEMMA ChainTypes ==
    ASSUME Typed, Bindings!ProviderBindingsConstants
    PROVE  /\ MaxRevision \in Nat
           /\ conn \in [Bindings!Connections -> Seq(States)]
           /\ model \in [Bindings!Models -> Seq(Bindings!ModelRevisions)]
           /\ binding \in [Rooms -> Seq(Bindings!BindingRevisions)]
           /\ told \in [Rooms -> Seq(Tellings)]
           /\ \A c \in Bindings!Connections :
                 /\ Len(conn[c]) \in 0..MaxRevision /\ (conn[c] = <<>> <=> Len(conn[c]) = 0)
                 /\ \A n \in 1..Len(conn[c]) : conn[c][n] \in States /\ n \in Bindings!Revisions
           /\ \A m \in Bindings!Models :
                 /\ Len(model[m]) \in 0..MaxRevision /\ (model[m] = <<>> <=> Len(model[m]) = 0)
                 /\ \A n \in 1..Len(model[m]) : /\ model[m][n] \in Bindings!ModelRevisions
                                                /\ n \in Bindings!Revisions
                                                /\ model[m][n].conn \in Bindings!Connections
           /\ \A r \in Rooms :
                 /\ Len(binding[r]) \in 0..MaxRevision /\ (binding[r] = <<>> <=> Len(binding[r]) = 0)
                 /\ \A n \in 1..Len(binding[r]) : /\ binding[r][n] \in Bindings!BindingRevisions
                                                  /\ binding[r][n].model \in Bindings!Models
                                                  /\ n \in Bindings!Revisions
                 /\ Bindings!Local(r) \in Bindings!Connections /\ Bindings!LocalModel(r) \in Bindings!Models
<1>1. /\ MaxRevision \in Nat
      /\ conn \in [Bindings!Connections -> Seq(States)]
      /\ model \in [Bindings!Models -> Seq(Bindings!ModelRevisions)]
      /\ binding \in [Rooms -> Seq(Bindings!BindingRevisions)]
      /\ told \in [Rooms -> Seq(Tellings)]
      /\ \A c \in Bindings!Connections : Len(conn[c]) <= MaxRevision
      /\ \A m \in Bindings!Models : Len(model[m]) <= MaxRevision
      /\ \A r \in Rooms : Len(binding[r]) <= MaxRevision
  BY DEF Typed, Bindings!TypeOK, Bindings!ProviderBindingsConstants, States, Tellings
<1>2. ASSUME NEW S, NEW s \in Seq(S)
      PROVE  Len(s) \in Nat /\ (s = <<>> <=> Len(s) = 0) /\ \A n \in 1..Len(s) : s[n] \in S
  BY <1>2
<1>3. \A n \in Nat \ {0} : n <= MaxRevision => n \in Bindings!Revisions
  BY <1>1 DEF Bindings!Revisions
<1>4. ASSUME NEW c \in Bindings!Connections
      PROVE  /\ Len(conn[c]) \in 0..MaxRevision /\ (conn[c] = <<>> <=> Len(conn[c]) = 0)
             /\ \A n \in 1..Len(conn[c]) : conn[c][n] \in States /\ n \in Bindings!Revisions
  <2>1. conn[c] \in Seq(States) /\ Len(conn[c]) <= MaxRevision
    BY <1>1
  <2>2. Len(conn[c]) \in Nat /\ (conn[c] = <<>> <=> Len(conn[c]) = 0) /\ \A n \in 1..Len(conn[c]) : conn[c][n] \in States
    BY <1>2, <2>1
  <2> QED BY <1>1, <1>3, <2>1, <2>2
<1>5. ASSUME NEW m \in Bindings!Models
      PROVE  /\ Len(model[m]) \in 0..MaxRevision /\ (model[m] = <<>> <=> Len(model[m]) = 0)
             /\ \A n \in 1..Len(model[m]) : /\ model[m][n] \in Bindings!ModelRevisions
                                            /\ n \in Bindings!Revisions
                                            /\ model[m][n].conn \in Bindings!Connections
  <2>1. model[m] \in Seq(Bindings!ModelRevisions) /\ Len(model[m]) <= MaxRevision
    BY <1>1
  <2>2. Len(model[m]) \in Nat /\ (model[m] = <<>> <=> Len(model[m]) = 0)
        /\ \A n \in 1..Len(model[m]) : model[m][n] \in Bindings!ModelRevisions
    BY <1>2, <2>1
  <2>3. \A v \in Bindings!ModelRevisions : v.conn \in Bindings!Connections
    BY DEF Bindings!ModelRevisions
  <2> QED BY <1>1, <1>3, <2>1, <2>2, <2>3
<1>6. ASSUME NEW r \in Rooms
      PROVE  /\ Len(binding[r]) \in 0..MaxRevision /\ (binding[r] = <<>> <=> Len(binding[r]) = 0)
             /\ \A n \in 1..Len(binding[r]) : /\ binding[r][n] \in Bindings!BindingRevisions
                                              /\ binding[r][n].model \in Bindings!Models
                                              /\ n \in Bindings!Revisions
  <2>1. binding[r] \in Seq(Bindings!BindingRevisions) /\ Len(binding[r]) <= MaxRevision
    BY <1>1
  <2>2. Len(binding[r]) \in Nat /\ (binding[r] = <<>> <=> Len(binding[r]) = 0)
        /\ \A n \in 1..Len(binding[r]) : binding[r][n] \in Bindings!BindingRevisions
    BY <1>2, <2>1
  <2>3. \A v \in Bindings!BindingRevisions : v.model \in Bindings!Models
    BY DEF Bindings!BindingRevisions
  <2> QED BY <1>1, <1>3, <2>1, <2>2, <2>3
<1>7. \A r \in Rooms : Bindings!Local(r) \in Bindings!Connections /\ Bindings!LocalModel(r) \in Bindings!Models
  BY DEF Bindings!Connections, Bindings!Models
<1> QED BY <1>1, <1>4, <1>5, <1>6, <1>7

\* Create, Replace and Retire: a connection has a revision more, and only a
\* cloud connection an enabled one.
ConnectionMoves(c, s) ==
    /\ conn' = [conn EXCEPT ![c] = Append(conn[c], s)] /\ Len(conn[c]) < MaxRevision
    /\ s = "enabled" => c \in Clouds
    /\ c \notin Clouds => conn[c] # <<>>
    /\ UNCHANGED <<model, seen, binding, pinned, asked, snapshot, told, request, lmStudio>>

\* A client waits or gives up; the server restarts, and asks nobody then.
Waits ==
    /\ UNCHANGED <<conn, model, seen, binding, pinned, snapshot, told>>
    /\ asked' = asked \/ asked' = [r \in Rooms |-> None]
    /\ request' \in [Clients -> Requests] /\ lmStudio' \in Names

\* The steps of a turn, which change no chain.
Turning(r) == Bindings!Ask(r) \/ Bindings!GiveUp(r) \/ Bindings!AskFails(r) \/ Bindings!Complete(r)

\* What the steps are.
LEMMA BindingSteps ==
    ASSUME Typed, Bindings!ProviderBindingsConstants, Bindings!Next
    PROVE  \/ \E c \in Bindings!Connections, s \in States : ConnectionMoves(c, s)
           \/ Waits
           \/ \E k \in Clients : Bindings!EndTest(k)
           \/ \E m \in Bindings!Models, c \in Bindings!Connections, name \in Names :
                 Bindings!SaveModel(m, c, name)
           \/ \E r \in Rooms : \/ Turning(r)
                               \/ \E m \in Bindings!Models : Bindings!BindCloud(r, m)
                               \/ \E k \in Clients : Bindings!BindLocal(k, r)
<1> USE ChainTypes
<1>1. request \in [Clients -> Requests] /\ lmStudio \in Names /\ Bindings!Idle \in Requests
  BY DEF Typed, Bindings!TypeOK, Requests
<1>2. ASSUME NEW c \in Bindings!Connections, Bindings!Create(c) PROVE ConnectionMoves(c, "enabled")
  <2>1. <<"enabled">> = Append(conn[c], "enabled")
    BY <1>2 DEF Bindings!Create
  <2> QED BY <1>2, <2>1 DEF Bindings!Create, ConnectionMoves, Bindings!IsCloud
<1>3. ASSUME NEW c \in Bindings!Connections, Bindings!Replace(c) PROVE ConnectionMoves(c, "enabled")
  BY <1>3 DEF Bindings!Replace, ConnectionMoves, Bindings!IsCloud
<1>4. ASSUME NEW c \in Bindings!Connections, NEW s \in {"disabled", "deleted"}, Bindings!Retire(c, s)
      PROVE  ConnectionMoves(c, s)
  BY <1>4 DEF Bindings!Retire, ConnectionMoves
<1>5. ASSUME NEW k \in Clients, NEW c \in Bindings!Connections, NEW name \in Names,
             Bindings!BeginTest(k, c, name)
      PROVE  Waits
  <2>1. Len(conn[c]) \in Bindings!Revisions
    BY <1>5 DEF Bindings!BeginTest, Bindings!Enabled, Bindings!Revisions
  <2>2. [kind |-> "test", conn |-> c, at |-> Len(conn[c]), name |-> name] \in Requests
    BY <2>1 DEF Requests
  <2>3. /\ request' = [request EXCEPT ![k] = [kind |-> "test", conn |-> c, at |-> Len(conn[c]), name |-> name]]
        /\ UNCHANGED <<conn, model, seen, binding, pinned, asked, snapshot, told, lmStudio>>
    BY <1>5 DEF Bindings!BeginTest
  <2> HIDE DEF Requests
  <2> QED BY <1>1, <2>2, <2>3 DEF Waits
<1>6. ASSUME NEW k \in Clients, Bindings!Fails(k) PROVE Waits
  BY <1>1, <1>6 DEF Bindings!Fails, Waits
<1>7. ASSUME NEW k \in Clients, NEW r \in Rooms, Bindings!Probe(k, r) PROVE Waits
  <2>1. [kind |-> "local", room |-> r, expected |-> Len(binding[r])] \in Requests
    BY DEF Requests
  <2>2. /\ request' = [request EXCEPT ![k] = [kind |-> "local", room |-> r, expected |-> Len(binding[r])]]
        /\ UNCHANGED <<conn, model, seen, binding, pinned, asked, snapshot, told, lmStudio>>
    BY <1>7 DEF Bindings!Probe
  <2> QED BY <1>1, <2>1, <2>2 DEF Waits
<1>8. ASSUME NEW name \in Names, Bindings!Restart(name) PROVE Waits
  BY <1>1, <1>8 DEF Bindings!Restart, Waits
<1>9. "enabled" \in States /\ {"disabled", "deleted"} \subseteq States
  BY DEF States
<1> HIDE ChainTypes
<1> QED BY <1>2, <1>3, <1>4, <1>5, <1>6, <1>7, <1>8, <1>9 DEF Bindings!Next, Turning

\* What the steps of a turn leave alone, and what they may change.
LEMMA TurningFacts ==
    ASSUME NEW r \in Rooms, Turning(r)
    PROVE  UNCHANGED <<conn, model, seen, binding, told, request, lmStudio>>
  BY DEF Turning, Bindings!Ask, Bindings!GiveUp, Bindings!AskFails, Bindings!Complete

\* What a room's LM Studio connection and model become.
LEMMA LocalFacts ==
    ASSUME Typed, Referring, Bindings!ProviderBindingsConstants, NEW k \in Clients, NEW r \in Rooms,
           Bindings!Probed(k, r)
    PROVE  LET l == Bindings!Local(r)
               c == Bindings!LocalConnection(r)
               p == Bindings!LocalProfile(r)
               m == model[Bindings!LocalModel(r)] IN
           /\ c \in Seq(States) /\ Len(c) \in Bindings!Revisions /\ Longer(conn[l], c)
           /\ c = conn[l] \/ (conn[l] = <<>> /\ c = <<"enabled">>)
           /\ c[Len(c)] = "enabled" /\ p[Len(p)].name = lmStudio
           /\ p \in Seq(Bindings!ModelRevisions) /\ Len(p) \in Bindings!Revisions /\ Longer(m, p)
           /\ \A n \in 1..Len(p) :
                 \/ n \in 1..Len(m) /\ p[n] = m[n]
                 \/ m = <<>> /\ p[n].conn = l /\ p[n].at = Len(c)
                 \/ /\ m # <<>> /\ p[n].conn = m[Len(m)].conn /\ p[n].at = m[Len(m)].at
<1> DEFINE l == Bindings!Local(r)
           c == Bindings!LocalConnection(r)
           p == Bindings!LocalProfile(r)
           m == model[Bindings!LocalModel(r)]
           d == conn[l]
<1>1. /\ l \in Bindings!Connections /\ d \in Seq(States) /\ Len(d) \in 0..MaxRevision /\ (d = <<>> <=> Len(d) = 0)
      /\ m \in Seq(Bindings!ModelRevisions) /\ Len(m) \in 0..MaxRevision /\ (m = <<>> <=> Len(m) = 0)
      /\ MaxRevision \in Nat
      /\ \A n \in 1..Len(m) : m[n] \in Bindings!ModelRevisions
  BY ChainTypes
<1>2. c[Len(c)] = "enabled" /\ Len(p) <= MaxRevision
  BY DEF Bindings!Probed
<1>3. c = IF d = <<>> THEN <<"enabled">> ELSE d
  BY DEF Bindings!LocalConnection
<1>4. p = IF m = <<>> THEN <<[name |-> lmStudio, conn |-> l, at |-> Len(c)]>>
          ELSE IF m[Len(m)].name # lmStudio THEN Append(m, [m[Len(m)] EXCEPT !.name = lmStudio])
          ELSE m
  BY DEF Bindings!LocalProfile
<1>5. lmStudio \in Names
  BY DEF Typed, Bindings!TypeOK
<1> HIDE DEF l, c, p, m, d
<1>6. Len(p) >= 1
  <2>1. CASE m = <<>>
    BY <1>4, <2>1
  <2>2. CASE m # <<>> /\ m[Len(m)].name # lmStudio
    <3> DEFINE x == [m[Len(m)] EXCEPT !.name = lmStudio]
    <3>1. p = Append(m, x)
      BY <1>4, <2>2
    <3> HIDE DEF x
    <3> QED BY <1>1, <3>1
  <2>3. CASE m # <<>> /\ m[Len(m)].name = lmStudio
    BY <1>1, <1>4, <2>3
  <2> QED BY <2>1, <2>2, <2>3
<1>7. Len(p) \in Nat /\ MaxRevision >= 1
  <2>1. CASE m = <<>>
    BY <1>1, <1>2, <1>4, <2>1
  <2>2. CASE m # <<>>
    <3>1. Len(m) >= 1
      BY <1>1, <2>2
    <3> DEFINE x == [m[Len(m)] EXCEPT !.name = lmStudio]
    <3>2. p = Append(m, x) \/ p = m
      BY <1>4, <2>2
    <3> HIDE DEF x
    <3> QED BY <1>1, <3>1, <3>2
  <2> QED BY <2>1, <2>2
<1>8. c \in Seq(States) /\ Len(c) \in Bindings!Revisions /\ Longer(d, c)
      /\ (c = d \/ (d = <<>> /\ c = <<"enabled">>))
  <2>1. CASE d = <<>>
    <3>1. c = <<"enabled">> /\ "enabled" \in States
      BY <1>3, <2>1 DEF States
    <3> QED BY <1>1, <1>7, <2>1, <3>1 DEF Longer, Bindings!Revisions
  <2>2. CASE d # <<>>
    BY <1>1, <1>3, <2>2 DEF Longer, Bindings!Revisions
  <2> QED BY <2>1, <2>2
<1>9. /\ p \in Seq(Bindings!ModelRevisions) /\ Longer(m, p) /\ p[Len(p)].name = lmStudio
      /\ \A n \in 1..Len(p) :
            \/ n \in 1..Len(m) /\ p[n] = m[n]
            \/ m = <<>> /\ p[n].conn = l /\ p[n].at = Len(c)
            \/ m # <<>> /\ p[n].conn = m[Len(m)].conn /\ p[n].at = m[Len(m)].at
  <2>1. CASE m = <<>>
    <3> DEFINE x == [name |-> lmStudio, conn |-> l, at |-> Len(c)]
    <3>1. p = <<x>> /\ x \in Bindings!ModelRevisions /\ x.conn = l /\ x.at = Len(c) /\ x.name = lmStudio
      BY <1>1, <1>4, <1>5, <1>8, <2>1 DEF Bindings!ModelRevisions
    <3> HIDE DEF x
    <3> QED BY <1>1, <2>1, <3>1 DEF Longer
  <2>2. CASE m # <<>> /\ m[Len(m)].name # lmStudio
    <3> DEFINE v == m[Len(m)]
               x == [v EXCEPT !.name = lmStudio]
    <3>1. v \in Bindings!ModelRevisions
      BY <1>1, <2>2
    <3>2. p = Append(m, x) /\ x \in Bindings!ModelRevisions /\ x.conn = v.conn /\ x.at = v.at /\ x.name = lmStudio
      BY <1>4, <1>5, <2>2, <3>1 DEF Bindings!ModelRevisions
    <3> HIDE DEF x
    <3>3. p \in Seq(Bindings!ModelRevisions) /\ Len(p) = Len(m) + 1 /\ p[Len(m) + 1] = x
          /\ \A n \in 1..Len(m) : p[n] = m[n]
      BY <1>1, <3>2
    <3> QED BY <1>1, <2>2, <3>2, <3>3 DEF Longer
  <2>3. CASE m # <<>> /\ m[Len(m)].name = lmStudio
    BY <1>1, <1>4, <2>3 DEF Longer
  <2> QED BY <2>1, <2>2, <2>3
<1>10. Len(p) \in Bindings!Revisions
  BY <1>1, <1>2, <1>6, <1>7 DEF Bindings!Revisions
<1> QED BY <1>2, <1>8, <1>9, <1>10 DEF l, c, p, m, d

\* What a bound revision makes of bindings and answers.
LEMMA BindFacts ==
    ASSUME Typed, Bindings!ProviderBindingsConstants, NEW r \in Rooms, NEW m \in Bindings!Models,
           NEW n \in Bindings!Revisions, NEW e \in {"lmstudio", "cloud"}, NEW x, Bindings!Bind(r, x, m, n, e)
    PROVE  /\ x = Len(binding[r]) /\ x < MaxRevision
           /\ [model |-> m, at |-> n] \in Bindings!BindingRevisions
           /\ binding' = [binding EXCEPT ![r] = Append(binding[r], [model |-> m, at |-> n])]
           /\ <<x + 1, [model |-> m, at |-> n], e>> \in Tellings
           /\ told' = [told EXCEPT ![r] = Append(told[r], <<x + 1, [model |-> m, at |-> n], e>>)]
<1>1. x = Len(binding[r]) /\ x < MaxRevision /\ x \in Nat /\ MaxRevision \in Nat
  BY ChainTypes DEF Bindings!Bind
<1>2. [model |-> m, at |-> n] \in Bindings!BindingRevisions /\ x + 1 \in Bindings!Revisions
  BY <1>1 DEF Bindings!BindingRevisions, Bindings!Revisions
<1>3. <<x + 1, [model |-> m, at |-> n], e>> \in Tellings
  BY <1>2 DEF Tellings
<1> QED BY <1>1, <1>2, <1>3 DEF Bindings!Bind

\* What BindLocal does, in terms of LocalFacts.
LEMMA BindLocalFacts ==
    ASSUME Typed, Referring, Bindings!ProviderBindingsConstants, NEW k \in Clients, NEW r \in Rooms,
           Bindings!BindLocal(k, r)
    PROVE  LET c == Bindings!LocalConnection(r)
               p == Bindings!LocalProfile(r)
               b == [model |-> Bindings!LocalModel(r), at |-> Len(p)]
               n == Len(binding[r]) IN
           /\ conn' = [conn EXCEPT ![Bindings!Local(r)] = c]
           /\ model' = [model EXCEPT ![Bindings!LocalModel(r)] = p]
           /\ seen' = [seen EXCEPT ![Bindings!Local(r)][Len(c)] = lmStudio]
           /\ binding' = [binding EXCEPT ![r] = Append(binding[r], b)]
           /\ told' = [told EXCEPT ![r] = Append(told[r], <<n + 1, b, "lmstudio">>)]
           /\ n < MaxRevision /\ b \in Bindings!BindingRevisions /\ <<n + 1, b, "lmstudio">> \in Tellings
           /\ request' = [request EXCEPT ![k] = Bindings!Idle]
           /\ UNCHANGED <<pinned, asked, snapshot, lmStudio>>
<1>1. Bindings!Probed(k, r)
  BY DEF Bindings!BindLocal
<1>2. Len(Bindings!LocalProfile(r)) \in Bindings!Revisions /\ Bindings!LocalModel(r) \in Bindings!Models
  BY <1>1, LocalFacts, ChainTypes
<1>3. Bindings!Bind(r, request[k].expected, Bindings!LocalModel(r), Len(Bindings!LocalProfile(r)), "lmstudio")
  BY DEF Bindings!BindLocal
<1>4. /\ request[k].expected = Len(binding[r]) /\ request[k].expected < MaxRevision
      /\ LET b == [model |-> Bindings!LocalModel(r), at |-> Len(Bindings!LocalProfile(r))] IN
         /\ b \in Bindings!BindingRevisions
         /\ binding' = [binding EXCEPT ![r] = Append(binding[r], b)]
         /\ <<request[k].expected + 1, b, "lmstudio">> \in Tellings
         /\ told' = [told EXCEPT ![r] = Append(told[r], <<request[k].expected + 1, b, "lmstudio">>)]
  <2> DEFINE lm == Bindings!LocalModel(r)
             lp == Len(Bindings!LocalProfile(r))
             x == request[k].expected
  <2>1. lm \in Bindings!Models /\ lp \in Bindings!Revisions /\ "lmstudio" \in {"lmstudio", "cloud"}
        /\ Bindings!Bind(r, x, lm, lp, "lmstudio")
    BY <1>2, <1>3
  <2> HIDE DEF lm, lp, x
  <2>2. /\ x = Len(binding[r]) /\ x < MaxRevision
        /\ [model |-> lm, at |-> lp] \in Bindings!BindingRevisions
        /\ binding' = [binding EXCEPT ![r] = Append(binding[r], [model |-> lm, at |-> lp])]
        /\ <<x + 1, [model |-> lm, at |-> lp], "lmstudio">> \in Tellings
        /\ told' = [told EXCEPT ![r] = Append(told[r], <<x + 1, [model |-> lm, at |-> lp], "lmstudio">>)]
    <3>1. x = Len(binding[r]) /\ x < MaxRevision /\ x \in Nat /\ MaxRevision \in Nat
      BY <2>1, ChainTypes DEF Bindings!Bind
    <3>2. [model |-> lm, at |-> lp] \in Bindings!BindingRevisions /\ x + 1 \in Bindings!Revisions
      BY <2>1, <3>1 DEF Bindings!BindingRevisions, Bindings!Revisions
    <3>3. <<x + 1, [model |-> lm, at |-> lp], "lmstudio">> \in Tellings
      BY <3>2 DEF Tellings
    <3> QED BY <2>1, <3>1, <3>2, <3>3 DEF Bindings!Bind
  <2> QED BY <2>2 DEF lm, lp, x
<1> QED BY <1>1, <1>4 DEF Bindings!BindLocal, Bindings!Prepared, Bindings!Probed

\* What BindCloud does.
LEMMA BindCloudFacts ==
    ASSUME Typed, Bindings!ProviderBindingsConstants, NEW r \in Rooms, NEW m \in Bindings!Models,
           Bindings!BindCloud(r, m)
    PROVE  LET b == [model |-> m, at |-> Len(model[m])]
               n == Len(binding[r]) IN
           /\ model[m] # <<>> /\ Len(model[m]) \in Bindings!Revisions
           /\ model[m][Len(model[m])].conn \in Clouds
           /\ binding' = [binding EXCEPT ![r] = Append(binding[r], b)]
           /\ told' = [told EXCEPT ![r] = Append(told[r], <<n + 1, b, "cloud">>)]
           /\ n < MaxRevision /\ b \in Bindings!BindingRevisions /\ <<n + 1, b, "cloud">> \in Tellings
           /\ UNCHANGED <<conn, model, seen, pinned, asked, snapshot, request, lmStudio>>
<1>1. model[m] # <<>> /\ Len(model[m]) \in Bindings!Revisions
  BY ChainTypes DEF Bindings!BindCloud, Bindings!Revisions
<1>2. Bindings!Bind(r, Len(binding[r]), m, Len(model[m]), "cloud")
  BY DEF Bindings!BindCloud
<1>3. /\ model[m][Len(model[m])].conn \in Clouds
      /\ UNCHANGED <<conn, model, seen, pinned, asked, snapshot, request, lmStudio>>
  BY DEF Bindings!BindCloud, Bindings!IsCloud
<1> DEFINE lm == Len(model[m])
           lb == Len(binding[r])
<1>4. lm \in Bindings!Revisions /\ Bindings!Bind(r, lb, m, lm, "cloud")
  BY <1>1, <1>2
<1> HIDE DEF lm, lb
<1>5. /\ lb = Len(binding[r]) /\ lb < MaxRevision
      /\ [model |-> m, at |-> lm] \in Bindings!BindingRevisions
      /\ binding' = [binding EXCEPT ![r] = Append(binding[r], [model |-> m, at |-> lm])]
      /\ <<lb + 1, [model |-> m, at |-> lm], "cloud">> \in Tellings
      /\ told' = [told EXCEPT ![r] = Append(told[r], <<lb + 1, [model |-> m, at |-> lm], "cloud">>)]
  BY <1>4, BindFacts
<1> QED BY <1>1, <1>3, <1>5 DEF lm, lb

\* What SaveModel does.
LEMMA SaveModelFacts ==
    ASSUME Typed, Bindings!ProviderBindingsConstants, NEW m \in Bindings!Models,
           NEW c \in Bindings!Connections, NEW name \in Names, Bindings!SaveModel(m, c, name)
    PROVE  LET v == [name |-> name, conn |-> c, at |-> Len(conn[c])] IN
           /\ v \in Bindings!ModelRevisions /\ Len(conn[c]) \in 1..MaxRevision
           /\ Len(model[m]) < MaxRevision
           /\ model' = [model EXCEPT ![m] = Append(model[m], v)]
           /\ OwnIds => m \in Profiles
           /\ UNCHANGED <<conn, seen, binding, pinned, asked, snapshot, told, request, lmStudio>>
<1>1. Len(conn[c]) \in 1..MaxRevision /\ Bindings!Revisions = 1..MaxRevision
  BY ChainTypes DEF Bindings!SaveModel, Bindings!Enabled, Bindings!Revisions
<1> QED BY <1>1 DEF Bindings!SaveModel, Bindings!ModelRevisions

\* What a room resolves is a decision.
LEMMA DecisionFacts ==
    ASSUME Typed, Bindings!ProviderBindingsConstants, NEW r \in Rooms, Bindings!Resolves(r)
    PROVE  LET d == Bindings!Decision(r)
               n == Len(binding[r])
               b == binding[r][n] IN
           /\ n \in 1..MaxRevision /\ b.model \in Bindings!Models
           /\ b.at = Len(model[b.model]) /\ b.at \in 1..Len(model[b.model])
           /\ d \in Bindings!Decisions /\ d.bound = n /\ d.binding = b /\ d.model = model[b.model][b.at]
<1> DEFINE n == Len(binding[r])
           b == binding[r][n]
           v == model[b.model][b.at]
           d == Bindings!Decision(r)
<1>1. n \in 1..MaxRevision /\ b \in Bindings!BindingRevisions /\ b.model \in Bindings!Models
      /\ n \in Bindings!Revisions
  <2>1. binding[r] # <<>>
    BY DEF Bindings!Resolves
  <2>2. n \in 0..MaxRevision /\ n # 0
    BY <2>1, ChainTypes
  <2>3. n \in 1..MaxRevision /\ n \in 1..Len(binding[r])
    BY <2>2
  <2> HIDE DEF n
  <2> QED BY <2>3, ChainTypes
<1>2. b.at = Len(model[b.model]) /\ b.at > 0 /\ seen[v.conn][v.at] # None
  BY DEF Bindings!Resolves, Bindings!Bindable
<1>3. d = [bound |-> n, binding |-> b, model |-> v, print |-> seen[v.conn][v.at]]
  BY DEF Bindings!Decision
<1> HIDE DEF d, n, b
<1>4. b.at \in 1..Len(model[b.model]) /\ v \in Bindings!ModelRevisions
  BY <1>1, <1>2, ChainTypes
<1>5. seen[v.conn][v.at] \in Names
  <2>1. v.conn \in Bindings!Connections /\ v.at \in Bindings!Revisions
    BY <1>4 DEF Bindings!ModelRevisions
  <2>2. seen[v.conn][v.at] \in Names \cup {None}
    BY <2>1 DEF Typed, Bindings!TypeOK
  <2> QED BY <1>2, <2>2
<1> HIDE DEF v
<1>6. d \in Bindings!Decisions
  BY <1>1, <1>3, <1>4, <1>5 DEF Bindings!Decisions, v
<1>7. d.bound = n /\ d.binding = b /\ d.model = v
  BY <1>3
<1> QED BY <1>1, <1>2, <1>4, <1>6, <1>7 DEF d, n, b, v

\* One chain replaced by a longer one.
LEMMA Replaced ==
    ASSUME NEW I, NEW S, NEW f \in [I -> Seq(S)], NEW i \in I, NEW t \in Seq(S), NEW g,
           g = [f EXCEPT ![i] = t]
    PROVE  /\ g \in [I -> Seq(S)] /\ g[i] = t
           /\ \A j \in I : j # i => g[j] = f[j]
  OBVIOUS

\* A sequence is longer than itself in this sense: not to move is to grow.
LEMMA LongerSelf == ASSUME NEW S, NEW s \in Seq(S) PROVE Longer(s, s)
  BY DEF Longer

\* The chains stay what they are, and only grow.
ChainsTyped ==
    /\ conn \in [Bindings!Connections -> Seq(States)]
    /\ model \in [Bindings!Models -> Seq(Bindings!ModelRevisions)]
    /\ binding \in [Rooms -> Seq(Bindings!BindingRevisions)]
    /\ told \in [Rooms -> Seq(Tellings)]
    /\ \A c \in Bindings!Connections : Len(conn[c]) <= MaxRevision
    /\ \A m \in Bindings!Models : Len(model[m]) <= MaxRevision
    /\ \A r \in Rooms : Len(binding[r]) <= MaxRevision

\* A step appends to the chains and changes nothing in them.
LEMMA ChainsStep ==
    ASSUME Typed, Referring, Bindings!ProviderBindingsConstants, Bindings!Next
    PROVE  ChainsTyped' /\ Grows
<1>1. ChainsTyped /\ MaxRevision \in Nat
  BY ChainTypes DEF ChainsTyped
<1>2. /\ \A c \in Bindings!Connections : Longer(conn[c], conn[c]) /\ Len(conn[c]) \in Nat
      /\ \A m \in Bindings!Models : Longer(model[m], model[m]) /\ Len(model[m]) \in Nat
      /\ \A r \in Rooms : Longer(binding[r], binding[r]) /\ Len(binding[r]) \in Nat
  <2>1. ASSUME NEW S, NEW s \in Seq(S) PROVE Len(s) \in Nat
    BY <2>1
  <2> QED BY <1>1, <2>1, LongerSelf DEF ChainsTyped
<1>3. ASSUME NEW c \in Bindings!Connections, NEW s \in States, ConnectionMoves(c, s)
      PROVE  ChainsTyped' /\ Grows
  <2>1. /\ conn' = [conn EXCEPT ![c] = Append(conn[c], s)] /\ Len(conn[c]) < MaxRevision
        /\ model' = model /\ binding' = binding /\ told' = told
    BY <1>3 DEF ConnectionMoves
  <2>2. /\ conn' \in [Bindings!Connections -> Seq(States)]
        /\ Len(conn'[c]) = Len(conn[c]) + 1
        /\ \A j \in Bindings!Connections : Longer(conn[j], conn'[j]) /\ (j # c => conn'[j] = conn[j])
    <3>1. OneMore(Bindings!Connections, States, conn, [conn EXCEPT ![c] = Append(conn[c], s)], c, s)
      BY <1>1, Appended DEF ChainsTyped
    <3> QED BY <2>1, <3>1 DEF OneMore
  <2>3. \A j \in Bindings!Connections : Len(conn'[j]) <= MaxRevision
    BY <1>1, <1>2, <2>1, <2>2 DEF ChainsTyped
  <2> QED BY <1>1, <1>2, <2>1, <2>2, <2>3 DEF ChainsTyped, Grows
<1>4. ASSUME UNCHANGED <<conn, model, binding, told>> PROVE ChainsTyped' /\ Grows
  BY <1>1, <1>2, <1>4 DEF ChainsTyped, Grows
<1>5. ASSUME NEW m \in Bindings!Models, NEW c \in Bindings!Connections, NEW name \in Names,
             Bindings!SaveModel(m, c, name)
      PROVE  ChainsTyped' /\ Grows
  <2> DEFINE v == [name |-> name, conn |-> c, at |-> Len(conn[c])]
  <2>1. /\ model' = [model EXCEPT ![m] = Append(model[m], v)] /\ Len(model[m]) < MaxRevision
        /\ v \in Bindings!ModelRevisions /\ conn' = conn /\ binding' = binding /\ told' = told
    BY <1>5, SaveModelFacts
  <2> HIDE DEF v
  <2>2. /\ model' \in [Bindings!Models -> Seq(Bindings!ModelRevisions)]
        /\ Len(model'[m]) = Len(model[m]) + 1
        /\ \A j \in Bindings!Models : Longer(model[j], model'[j]) /\ (j # m => model'[j] = model[j])
    <3>1. OneMore(Bindings!Models, Bindings!ModelRevisions, model, [model EXCEPT ![m] = Append(model[m], v)], m, v)
      BY <1>1, <2>1, Appended DEF ChainsTyped
    <3> QED BY <2>1, <3>1 DEF OneMore
  <2>3. \A j \in Bindings!Models : Len(model'[j]) <= MaxRevision
    BY <1>1, <1>2, <2>1, <2>2 DEF ChainsTyped
  <2> QED BY <1>1, <1>2, <2>1, <2>2, <2>3 DEF ChainsTyped, Grows
<1>6. ASSUME NEW r \in Rooms, NEW b \in Bindings!BindingRevisions, NEW a \in Tellings,
             binding' = [binding EXCEPT ![r] = Append(binding[r], b)], Len(binding[r]) < MaxRevision,
             told' = [told EXCEPT ![r] = Append(told[r], a)]
      PROVE  /\ binding' \in [Rooms -> Seq(Bindings!BindingRevisions)] /\ told' \in [Rooms -> Seq(Tellings)]
             /\ \A j \in Rooms : Len(binding'[j]) <= MaxRevision /\ Longer(binding[j], binding'[j])
  <2>1. /\ binding' \in [Rooms -> Seq(Bindings!BindingRevisions)]
        /\ Len(binding'[r]) = Len(binding[r]) + 1
        /\ \A j \in Rooms : Longer(binding[j], binding'[j]) /\ (j # r => binding'[j] = binding[j])
    <3>1. OneMore(Rooms, Bindings!BindingRevisions, binding, [binding EXCEPT ![r] = Append(binding[r], b)], r, b)
      BY <1>1, <1>6, Appended DEF ChainsTyped
    <3> QED BY <1>6, <3>1 DEF OneMore
  <2>2. told' \in [Rooms -> Seq(Tellings)]
    <3>1. OneMore(Rooms, Tellings, told, [told EXCEPT ![r] = Append(told[r], a)], r, a)
      BY <1>1, <1>6, Appended DEF ChainsTyped
    <3> QED BY <1>6, <3>1 DEF OneMore
  <2> QED BY <1>1, <1>2, <1>6, <2>1, <2>2 DEF ChainsTyped
<1>7. ASSUME NEW r \in Rooms, NEW m \in Bindings!Models, Bindings!BindCloud(r, m)
      PROVE  ChainsTyped' /\ Grows
  <2> DEFINE b == [model |-> m, at |-> Len(model[m])]
             a == <<Len(binding[r]) + 1, b, "cloud">>
  <2>1. /\ binding' = [binding EXCEPT ![r] = Append(binding[r], b)] /\ Len(binding[r]) < MaxRevision
        /\ told' = [told EXCEPT ![r] = Append(told[r], a)] /\ b \in Bindings!BindingRevisions /\ a \in Tellings
        /\ conn' = conn /\ model' = model
    BY <1>7, BindCloudFacts
  <2> HIDE DEF a, b
  <2> QED BY <1>1, <1>2, <1>6, <2>1 DEF ChainsTyped, Grows
<1>8. ASSUME NEW r \in Rooms, NEW k \in Clients, Bindings!BindLocal(k, r)
      PROVE  ChainsTyped' /\ Grows
  <2> DEFINE c == Bindings!LocalConnection(r)
             p == Bindings!LocalProfile(r)
             l == Bindings!Local(r)
             lm == Bindings!LocalModel(r)
             b == [model |-> lm, at |-> Len(p)]
             a == <<Len(binding[r]) + 1, b, "lmstudio">>
  <2>1. /\ binding' = [binding EXCEPT ![r] = Append(binding[r], b)] /\ Len(binding[r]) < MaxRevision
        /\ told' = [told EXCEPT ![r] = Append(told[r], a)] /\ b \in Bindings!BindingRevisions /\ a \in Tellings
        /\ conn' = [conn EXCEPT ![l] = c] /\ model' = [model EXCEPT ![lm] = p]
    BY <1>8, BindLocalFacts
  <2>2. /\ c \in Seq(States) /\ Len(c) \in Bindings!Revisions /\ Longer(conn[l], c)
        /\ p \in Seq(Bindings!ModelRevisions) /\ Len(p) \in Bindings!Revisions /\ Longer(model[lm], p)
    <3>1. Bindings!Probed(k, r)
      BY <1>8 DEF Bindings!BindLocal
    <3> QED BY <3>1, LocalFacts
  <2>3. l \in Bindings!Connections /\ lm \in Bindings!Models
    BY ChainTypes
  <2> HIDE DEF a, b, c, p, l, lm
  <2>4. /\ conn' \in [Bindings!Connections -> Seq(States)] /\ conn'[l] = c
        /\ \A j \in Bindings!Connections : j # l => conn'[j] = conn[j]
    BY <1>1, <2>1, <2>2, <2>3, Replaced DEF ChainsTyped
  <2>5. /\ model' \in [Bindings!Models -> Seq(Bindings!ModelRevisions)] /\ model'[lm] = p
        /\ \A j \in Bindings!Models : j # lm => model'[j] = model[j]
    BY <1>1, <2>1, <2>2, <2>3, Replaced DEF ChainsTyped
  <2>6. /\ \A j \in Bindings!Connections : Longer(conn[j], conn'[j]) /\ Len(conn'[j]) <= MaxRevision
        /\ \A j \in Bindings!Models : Longer(model[j], model'[j]) /\ Len(model'[j]) <= MaxRevision
    <3>1. Len(c) <= MaxRevision /\ Len(p) <= MaxRevision
      BY <1>1, <2>2 DEF Bindings!Revisions
    <3>2. ASSUME NEW j \in Bindings!Connections PROVE Longer(conn[j], conn'[j]) /\ Len(conn'[j]) <= MaxRevision
      <4>1. CASE j = l
        BY <2>2, <2>4, <3>1, <4>1
      <4>2. CASE j # l
        BY <1>1, <1>2, <2>4, <4>2 DEF ChainsTyped
      <4> QED BY <4>1, <4>2
    <3>3. ASSUME NEW j \in Bindings!Models PROVE Longer(model[j], model'[j]) /\ Len(model'[j]) <= MaxRevision
      <4>1. CASE j = lm
        BY <2>2, <2>5, <3>1, <4>1
      <4>2. CASE j # lm
        BY <1>1, <1>2, <2>5, <4>2 DEF ChainsTyped
      <4> QED BY <4>1, <4>2
    <3> QED BY <3>2, <3>3
  <2>7. /\ binding' \in [Rooms -> Seq(Bindings!BindingRevisions)] /\ told' \in [Rooms -> Seq(Tellings)]
        /\ \A j \in Rooms : Len(binding'[j]) <= MaxRevision /\ Longer(binding[j], binding'[j])
    BY <1>6, <2>1
  <2> QED BY <2>4, <2>5, <2>6, <2>7 DEF ChainsTyped, Grows
<1>9. ASSUME NEW k \in Clients, Bindings!EndTest(k) PROVE ChainsTyped' /\ Grows
  BY <1>4, <1>9 DEF Bindings!EndTest
<1>10. ASSUME NEW r \in Rooms, Turning(r) PROVE ChainsTyped' /\ Grows
  BY <1>4, <1>10, TurningFacts
<1>11. ASSUME Waits PROVE ChainsTyped' /\ Grows
  BY <1>4, <1>11 DEF Waits
<1> QED BY <1>3, <1>5, <1>7, <1>8, <1>9, <1>10, <1>11, BindingSteps

\* What is not a chain of revisions stays typed.
OthersTyped ==
    /\ seen \in [Bindings!Connections -> [Bindings!Revisions -> Names \cup {None}]]
    /\ pinned \in [Rooms -> Bindings!Decisions \cup {None}]
    /\ asked \in [Rooms -> Names \cup {None}]
    /\ snapshot \in [Rooms -> (Bindings!Decisions \X Bindings!Decisions \X Names) \cup {None}]
    /\ lmStudio \in Names /\ request \in [Clients -> Requests]

\* Observations, decisions, requests and the configured name keep their types.
LEMMA OthersStep ==
    ASSUME Typed, Referring, Asking, Bindings!ProviderBindingsConstants, Bindings!Next
    PROVE  OthersTyped'
<1>1. OthersTyped
  BY DEF OthersTyped, Typed, Bindings!TypeOK
<1>2. ASSUME NEW c \in Bindings!Connections, NEW n \in Bindings!Revisions, NEW name \in Names,
             seen' = [seen EXCEPT ![c][n] = name]
      PROVE  seen' \in [Bindings!Connections -> [Bindings!Revisions -> Names \cup {None}]]
  <2>1. seen[c] \in [Bindings!Revisions -> Names \cup {None}]
    BY <1>1 DEF OthersTyped
  <2>2. [seen[c] EXCEPT ![n] = name] \in [Bindings!Revisions -> Names \cup {None}]
    BY <2>1
  <2> QED BY <1>1, <1>2, <2>2 DEF OthersTyped
<1>3. Bindings!Idle \in Requests
  BY DEF Requests
<1>4. ASSUME NEW k \in Clients, request' = [request EXCEPT ![k] = Bindings!Idle]
      PROVE  request' \in [Clients -> Requests]
  BY <1>1, <1>3, <1>4 DEF OthersTyped
<1>5. ASSUME NEW c \in Bindings!Connections, NEW s \in States, ConnectionMoves(c, s) PROVE OthersTyped'
  BY <1>1, <1>5 DEF ConnectionMoves, OthersTyped
<1>6. ASSUME NEW m \in Bindings!Models, NEW c \in Bindings!Connections, NEW name \in Names,
             Bindings!SaveModel(m, c, name)
      PROVE  OthersTyped'
  BY <1>1, <1>6 DEF Bindings!SaveModel, OthersTyped
<1>7. ASSUME NEW r \in Rooms, NEW m \in Bindings!Models, Bindings!BindCloud(r, m) PROVE OthersTyped'
  BY <1>1, <1>7 DEF Bindings!BindCloud, OthersTyped
<1>8. ASSUME NEW r \in Rooms, NEW k \in Clients, Bindings!BindLocal(k, r) PROVE OthersTyped'
  <2> DEFINE n == Len(Bindings!LocalConnection(r))
             l == Bindings!Local(r)
  <2>1. /\ seen' = [seen EXCEPT ![l][n] = lmStudio]
        /\ request' = [request EXCEPT ![k] = Bindings!Idle]
        /\ UNCHANGED <<pinned, asked, snapshot, lmStudio>>
    BY <1>8, BindLocalFacts
  <2>2. Bindings!Probed(k, r)
    BY <1>8 DEF Bindings!BindLocal
  <2>3. l \in Bindings!Connections /\ n \in Bindings!Revisions
    BY <2>2, ChainTypes, LocalFacts
  <2> HIDE DEF n, l
  <2>4. lmStudio \in Names
    BY <1>1 DEF OthersTyped
  <2> QED BY <1>1, <1>2, <1>4, <2>1, <2>3, <2>4 DEF OthersTyped
<1>9. ASSUME NEW k \in Clients, Bindings!EndTest(k) PROVE OthersTyped'
  <2>1. request[k] \in [kind : {"test"}, conn : Bindings!Connections, at : Bindings!Revisions, name : Names]
    <3>1. request[k] \in Requests /\ request[k].kind = "test"
      BY <1>1, <1>9 DEF Bindings!EndTest, OthersTyped
    <3>2. request[k] # Bindings!Idle
      BY <3>1 DEF Bindings!Idle
    <3> QED BY <3>1, <3>2 DEF Requests
  <2> QED BY <1>1, <1>2, <1>4, <1>9, <2>1 DEF Bindings!EndTest, OthersTyped
<1>10. ASSUME NEW r \in Rooms, Bindings!Ask(r) PROVE OthersTyped'
  <2> DEFINE d == Bindings!Pinned(r)
  <2>1. d \in Bindings!Decisions
    BY <1>1, <1>10, DecisionFacts DEF Bindings!Ask, Bindings!Pinned, OthersTyped
  <2>2. /\ pinned' = [pinned EXCEPT ![r] = d] /\ UNCHANGED <<seen, request, lmStudio>>
        /\ snapshot' = [snapshot EXCEPT ![r] = None]
        /\ asked' = asked \/ asked' = [asked EXCEPT ![r] = Bindings!Called(d)]
    BY <1>10 DEF Bindings!Ask
  <2>3. Bindings!Called(d) \in Names
    BY <1>1, <2>1 DEF Bindings!Called, Bindings!Decisions, Bindings!ModelRevisions, OthersTyped
  <2> HIDE DEF d
  <2> QED BY <1>1, <2>1, <2>2, <2>3 DEF OthersTyped
<1>11. ASSUME NEW r \in Rooms, Bindings!Complete(r) PROVE OthersTyped'
  <2> DEFINE d == Bindings!Decision(r)
             p == pinned[r]
             a == asked[r]
  <2>1. Bindings!Current(r, p) => d \in Bindings!Decisions
    BY DecisionFacts DEF Bindings!Current
  <2>2. p \in Bindings!Decisions /\ a \in Names
    BY <1>1, <1>11 DEF Bindings!Complete, OthersTyped, Asking
  <2>3. /\ \/ Bindings!Current(r, p) /\ snapshot' = [snapshot EXCEPT ![r] = <<p, d, a>>]
           \/ snapshot' = snapshot
        /\ pinned' = [pinned EXCEPT ![r] = None] /\ asked' = [asked EXCEPT ![r] = None]
        /\ UNCHANGED <<seen, request, lmStudio>>
    BY <1>11 DEF Bindings!Complete
  <2> HIDE DEF p, d, a
  <2> QED BY <1>1, <2>1, <2>2, <2>3 DEF OthersTyped
<1>13. ASSUME NEW r \in Rooms, Bindings!GiveUp(r) \/ Bindings!AskFails(r) PROVE OthersTyped'
  BY <1>1, <1>13 DEF Bindings!GiveUp, Bindings!AskFails, OthersTyped
<1>12. ASSUME Waits PROVE OthersTyped'
  BY <1>1, <1>12 DEF Waits, OthersTyped
<1> QED BY <1>5, <1>6, <1>7, <1>8, <1>9, <1>10, <1>11, <1>12, <1>13, BindingSteps DEF Turning

\* The types are kept.
LEMMA TypedStep ==
    ASSUME Typed, Referring, Asking, Bindings!ProviderBindingsConstants, Bindings!Next
    PROVE  Typed'
<1>1. ChainsTyped' /\ OthersTyped'
  BY ChainsStep, OthersStep
<1> QED BY <1>1 DEF ChainsTyped, OthersTyped, Typed, Bindings!TypeOK, States, Tellings

\* What a longer sequence has.
LEMMA LongerFacts ==
    ASSUME NEW S, NEW s \in Seq(S), NEW t \in Seq(S), Longer(s, t)
    PROVE  \A i \in 1..Len(s) : i \in 1..Len(t) /\ t[i] = s[i]
<1>1. Len(s) \in Nat /\ Len(t) \in Nat
  OBVIOUS
<1> QED BY <1>1 DEF Longer

\* References stay references: what they name has grown.
LEMMA ReferringStep ==
    ASSUME Typed, Referring, Bindings!ProviderBindingsConstants, Bindings!Next
    PROVE  Referring'
<1>1. Grows /\ ChainsTyped /\ ChainsTyped' /\ MaxRevision \in Nat
  BY ChainsStep, ChainTypes DEF ChainsTyped
<1>2. ASSUME NEW c \in Bindings!Connections
      PROVE  \A i \in 1..Len(conn[c]) : i \in 1..Len(conn'[c]) /\ conn'[c][i] = conn[c][i]
  <2>1. conn[c] \in Seq(States) /\ conn'[c] \in Seq(States) /\ Longer(conn[c], conn'[c])
    BY <1>1 DEF Grows, ChainsTyped
  <2> QED BY <2>1, LongerFacts
<1>3. ASSUME NEW m \in Bindings!Models
      PROVE  \A i \in 1..Len(model[m]) : i \in 1..Len(model'[m]) /\ model'[m][i] = model[m][i]
  <2>1. model[m] \in Seq(Bindings!ModelRevisions) /\ model'[m] \in Seq(Bindings!ModelRevisions)
        /\ Longer(model[m], model'[m])
    BY <1>1 DEF Grows, ChainsTyped
  <2> QED BY <2>1, LongerFacts
<1>4. \A m \in Bindings!Models : \A n \in 1..Len(model[m]) :
         /\ model[m][n].conn \in Bindings!Connections
         /\ model[m][n].at \in 1..Len(conn'[model[m][n].conn])
  BY <1>2, ChainTypes DEF Referring
<1>5. \A r \in Rooms : \A n \in 1..Len(binding[r]) :
         /\ binding[r][n].model \in Bindings!Models
         /\ binding[r][n].at \in 1..Len(model'[binding[r][n].model])
  BY <1>3, ChainTypes DEF Referring
<1> DEFINE Models == \A m \in Bindings!Models : \A n \in 1..Len(model'[m]) :
                        model'[m][n].at \in 1..Len(conn'[model'[m][n].conn])
           Bound == \A r \in Rooms : \A n \in 1..Len(binding'[r]) :
                        binding'[r][n].at \in 1..Len(model'[binding'[r][n].model])
<1>6. model' = model => Models
  BY <1>4
<1>7. binding' = binding => Bound
  BY <1>5
<1>8. ASSUME NEW r \in Rooms, NEW b \in Bindings!BindingRevisions, b.at \in 1..Len(model'[b.model]),
             binding' = [binding EXCEPT ![r] = Append(binding[r], b)]
      PROVE  Bound
  <2>1. OneMore(Rooms, Bindings!BindingRevisions, binding, binding', r, b)
    <3>1. OneMore(Rooms, Bindings!BindingRevisions, binding, [binding EXCEPT ![r] = Append(binding[r], b)], r, b)
      BY <1>1, Appended DEF ChainsTyped
    <3> QED BY <1>8, <3>1
  <2>2. ASSUME NEW j \in Rooms, NEW n \in 1..Len(binding'[j])
        PROVE  binding'[j][n] = b \/ (n \in 1..Len(binding[j]) /\ binding'[j][n] = binding[j][n])
    <3>1. CASE j # r
      BY <2>1, <2>2, <3>1 DEF OneMore
    <3>2. CASE j = r
      BY <2>1, <2>2, <3>2 DEF OneMore, Longer
    <3> QED BY <3>1, <3>2
  <2>3. ASSUME NEW j \in Rooms, NEW n \in 1..Len(binding'[j])
        PROVE  binding'[j][n].at \in 1..Len(model'[binding'[j][n].model])
    <3>1. CASE binding'[j][n] = b
      BY <1>8, <3>1
    <3>2. CASE n \in 1..Len(binding[j]) /\ binding'[j][n] = binding[j][n]
      BY <1>5, <3>2
    <3> QED BY <2>2, <3>1, <3>2
  <2> QED BY <2>3
<1>9. ASSUME NEW m \in Bindings!Models, NEW c \in Bindings!Connections, NEW name \in Names,
             Bindings!SaveModel(m, c, name)
      PROVE  Models /\ Bound
  <2> DEFINE v == [name |-> name, conn |-> c, at |-> Len(conn[c])]
  <2>1. /\ model' = [model EXCEPT ![m] = Append(model[m], v)] /\ v \in Bindings!ModelRevisions
        /\ conn' = conn /\ binding' = binding /\ v.conn = c /\ v.at \in 1..Len(conn[c])
    BY <1>9, SaveModelFacts
  <2> HIDE DEF v
  <2>2. OneMore(Bindings!Models, Bindings!ModelRevisions, model, model', m, v)
    <3>1. OneMore(Bindings!Models, Bindings!ModelRevisions, model, [model EXCEPT ![m] = Append(model[m], v)], m, v)
      BY <1>1, <2>1, Appended DEF ChainsTyped
    <3> QED BY <2>1, <3>1
  <2>3. ASSUME NEW j \in Bindings!Models, NEW n \in 1..Len(model'[j])
        PROVE  model'[j][n] = v \/ (n \in 1..Len(model[j]) /\ model'[j][n] = model[j][n])
    <3>1. CASE j # m
      BY <2>2, <2>3, <3>1 DEF OneMore
    <3>2. CASE j = m
      BY <2>2, <2>3, <3>2 DEF OneMore, Longer
    <3> QED BY <3>1, <3>2
  <2> QED BY <1>4, <1>7, <2>1, <2>3
<1>10. ASSUME NEW r \in Rooms, NEW m \in Bindings!Models, Bindings!BindCloud(r, m) PROVE Models /\ Bound
  <2> DEFINE b == [model |-> m, at |-> Len(model[m])]
  <2>1. /\ binding' = [binding EXCEPT ![r] = Append(binding[r], b)] /\ b \in Bindings!BindingRevisions
        /\ model' = model /\ b.model = m /\ b.at = Len(model[m]) /\ model[m] # <<>>
    BY <1>10, BindCloudFacts
  <2> HIDE DEF b
  <2>2. b.at \in 1..Len(model'[b.model])
    BY <2>1, ChainTypes
  <2> QED BY <1>6, <1>8, <2>1, <2>2
<1>11. ASSUME NEW r \in Rooms, NEW k \in Clients, Bindings!BindLocal(k, r) PROVE Models /\ Bound
  <2> DEFINE c == Bindings!LocalConnection(r)
             p == Bindings!LocalProfile(r)
             l == Bindings!Local(r)
             lm == Bindings!LocalModel(r)
             b == [model |-> lm, at |-> Len(p)]
             m == model[lm]
  <2>1. /\ binding' = [binding EXCEPT ![r] = Append(binding[r], b)] /\ b \in Bindings!BindingRevisions
        /\ conn' = [conn EXCEPT ![l] = c] /\ model' = [model EXCEPT ![lm] = p]
        /\ b.model = lm /\ b.at = Len(p)
    BY <1>11, BindLocalFacts
  <2>2. /\ c \in Seq(States) /\ Len(c) \in Bindings!Revisions
        /\ p \in Seq(Bindings!ModelRevisions) /\ Len(p) \in Bindings!Revisions
        /\ \A n \in 1..Len(p) :
              \/ n \in 1..Len(m) /\ p[n] = m[n]
              \/ m = <<>> /\ p[n].conn = l /\ p[n].at = Len(c)
              \/ m # <<>> /\ p[n].conn = m[Len(m)].conn /\ p[n].at = m[Len(m)].at
    <3>1. Bindings!Probed(k, r)
      BY <1>11 DEF Bindings!BindLocal
    <3> QED BY <3>1, LocalFacts
  <2>3. l \in Bindings!Connections /\ lm \in Bindings!Models /\ (m # <<>> => Len(m) \in 1..Len(m))
    BY ChainTypes
  <2> HIDE DEF b, c, p, l, lm
  <2>4. conn'[l] = c /\ model'[lm] = p /\ \A j \in Bindings!Models : j # lm => model'[j] = model[j]
    BY <1>1, <2>1, <2>2, <2>3, Replaced DEF ChainsTyped
  <2>5. ASSUME NEW n \in 1..Len(p) PROVE p[n].at \in 1..Len(conn'[p[n].conn])
    <3>1. CASE n \in 1..Len(m) /\ p[n] = m[n]
      BY <1>4, <2>3, <3>1
    <3>2. CASE m = <<>> /\ p[n].conn = l /\ p[n].at = Len(c)
      <4>1. Len(c) \in 1..Len(c)
        BY <1>1, <2>2 DEF Bindings!Revisions
      <4> QED BY <2>4, <3>2, <4>1
    <3>3. CASE m # <<>> /\ p[n].conn = m[Len(m)].conn /\ p[n].at = m[Len(m)].at
      BY <1>4, <2>3, <3>3
    <3> QED BY <2>2, <3>1, <3>2, <3>3
  <2>6. Models
    BY <1>4, <2>4, <2>5
  <2>7. b.at \in 1..Len(model'[b.model])
    BY <1>1, <2>1, <2>2, <2>4 DEF Bindings!Revisions
  <2> QED BY <1>8, <2>1, <2>6, <2>7
<1>12. ASSUME model' = model, binding' = binding PROVE Models /\ Bound
  BY <1>6, <1>7, <1>12
<1>13. Models /\ Bound
  <2>1. ASSUME NEW c \in Bindings!Connections, NEW s \in States, ConnectionMoves(c, s) PROVE Models /\ Bound
    BY <1>12, <2>1 DEF ConnectionMoves
  <2>2. ASSUME Waits PROVE Models /\ Bound
    BY <1>12, <2>2 DEF Waits
  <2>3. ASSUME NEW k \in Clients, Bindings!EndTest(k) PROVE Models /\ Bound
    BY <1>12, <2>3 DEF Bindings!EndTest
  <2>4. ASSUME NEW r \in Rooms, Turning(r) PROVE Models /\ Bound
    BY <1>12, <2>4, TurningFacts
  <2> HIDE DEF Models, Bound
  <2> QED BY <1>9, <1>10, <1>11, <2>1, <2>2, <2>3, <2>4, BindingSteps
<1> QED BY <1>13 DEF Referring

\* A pinned decision stays one that the chain had.
LEMMA PinningStep ==
    ASSUME Typed, Referring, Pinning, Bindings!ProviderBindingsConstants, Bindings!Next
    PROVE  Pinning'
<1>1. Grows /\ ChainsTyped /\ ChainsTyped'
  BY ChainsStep, ChainTypes DEF ChainsTyped
<1>2. ASSUME NEW m \in Bindings!Models
      PROVE  \A i \in 1..Len(model[m]) : i \in 1..Len(model'[m]) /\ model'[m][i] = model[m][i]
  <2>1. model[m] \in Seq(Bindings!ModelRevisions) /\ model'[m] \in Seq(Bindings!ModelRevisions)
        /\ Longer(model[m], model'[m])
    BY <1>1 DEF Grows, ChainsTyped
  <2> QED BY <2>1, LongerFacts
<1> DEFINE Had(d) == d.binding.at \in 1..Len(model[d.binding.model])
                       /\ d.model = model[d.binding.model][d.binding.at]
           Has(d) == d.binding.at \in 1..Len(model'[d.binding.model])
                       /\ d.model = model'[d.binding.model][d.binding.at]
<1>3. \A r \in Rooms : pinned[r] # None => Had(pinned[r])
  BY DEF Pinning
<1>4. \A d \in Bindings!Decisions : Had(d) => Has(d)
  <2>1. \A d \in Bindings!Decisions : d.binding.model \in Bindings!Models
    BY DEF Bindings!Decisions, Bindings!BindingRevisions
  <2> QED BY <1>2, <2>1
<1>5. \A r \in Rooms : pinned[r] # None => pinned[r] \in Bindings!Decisions
  BY DEF Typed, Bindings!TypeOK
<1>6. \A r \in Rooms : pinned'[r] # None => Has(pinned'[r])
  <2>1. ASSUME pinned' = pinned PROVE \A r \in Rooms : pinned'[r] # None => Has(pinned'[r])
    <3> HIDE DEF Had, Has
    <3> QED BY <1>3, <1>4, <1>5, <2>1
  <2>2. ASSUME NEW r \in Rooms, Bindings!Ask(r)
        PROVE  \A q \in Rooms : pinned'[q] # None => Has(pinned'[q])
    <3> DEFINE d == Bindings!Pinned(r)
    <3>1. d \in Bindings!Decisions /\ Had(d)
      <4>1. CASE pinned[r] = None
        BY <2>2, <4>1, DecisionFacts DEF Bindings!Ask, Bindings!Pinned
      <4>2. CASE pinned[r] # None
        BY <1>3, <1>5, <4>2 DEF Bindings!Pinned
      <4> QED BY <4>1, <4>2
    <3>2. pinned' = [pinned EXCEPT ![r] = d] /\ pinned \in [Rooms -> Bindings!Decisions \cup {None}]
      BY <2>2 DEF Bindings!Ask, Typed, Bindings!TypeOK
    <3> HIDE DEF d, Had, Has
    <3> QED BY <1>3, <1>4, <1>5, <3>1, <3>2
  <2>3. ASSUME NEW r \in Rooms, Bindings!Complete(r) \/ Bindings!GiveUp(r)
        PROVE  \A q \in Rooms : pinned'[q] # None => Has(pinned'[q])
    <3>1. pinned' = [pinned EXCEPT ![r] = None] /\ pinned \in [Rooms -> Bindings!Decisions \cup {None}]
      BY <2>3 DEF Bindings!Complete, Bindings!GiveUp, Typed, Bindings!TypeOK
    <3> HIDE DEF Had, Has
    <3> QED BY <1>3, <1>4, <1>5, <3>1
  <2>4. ASSUME NEW c \in Bindings!Connections, NEW s \in States, ConnectionMoves(c, s) PROVE pinned' = pinned
    BY <2>4 DEF ConnectionMoves
  <2>5. ASSUME Waits PROVE pinned' = pinned
    BY <2>5 DEF Waits
  <2>6. ASSUME NEW k \in Clients, Bindings!EndTest(k) PROVE pinned' = pinned
    BY <2>6 DEF Bindings!EndTest
  <2>7. ASSUME NEW m \in Bindings!Models, NEW c \in Bindings!Connections, NEW name \in Names,
               Bindings!SaveModel(m, c, name)
        PROVE  pinned' = pinned
    BY <2>7 DEF Bindings!SaveModel
  <2>8. ASSUME NEW r \in Rooms, NEW m \in Bindings!Models, Bindings!BindCloud(r, m) PROVE pinned' = pinned
    BY <2>8 DEF Bindings!BindCloud
  <2>9. ASSUME NEW r \in Rooms, NEW k \in Clients, Bindings!BindLocal(k, r) PROVE pinned' = pinned
    BY <2>9 DEF Bindings!BindLocal
  <2>10. ASSUME NEW r \in Rooms, Bindings!AskFails(r) PROVE pinned' = pinned
    BY <2>10 DEF Bindings!AskFails
  <2> HIDE DEF Has
  <2> QED BY <2>1, <2>2, <2>3, <2>4, <2>5, <2>6, <2>7, <2>8, <2>9, <2>10, BindingSteps DEF Turning
<1> QED BY <1>6 DEF Pinning

\* The model called is that of the pinned decision: the resolver refuses LM
\* Studio for another than the configured one, and a restart ends the call.
LEMMA AskingStep ==
    ASSUME Typed, Asking, Bindings!ProviderBindingsConstants, Bindings!Next
    PROVE  Asking'
<1>1. pinned \in [Rooms -> Bindings!Decisions \cup {None}] /\ asked \in [Rooms -> Names \cup {None}]
  BY DEF Typed, Bindings!TypeOK
<1>2. ASSUME UNCHANGED <<pinned, asked>> PROVE Asking'
  BY <1>2 DEF Asking
<1>3. ASSUME Waits PROVE Asking'
  BY <1>3 DEF Waits, Asking
<1>4. ASSUME NEW r \in Rooms, Bindings!Ask(r) PROVE Asking'
  <2> DEFINE d == Bindings!Pinned(r)
  <2>1. pinned' = [pinned EXCEPT ![r] = d] /\ asked[r] = None
    BY <1>4 DEF Bindings!Ask
  <2>2. d \in Bindings!Decisions /\ d # None
    <3>1. CASE pinned[r] = None
      <4>1. d = Bindings!Decision(r) /\ Bindings!Resolves(r)
        BY <1>4, <3>1 DEF Bindings!Ask, Bindings!Pinned
      <4> QED BY <4>1, DecisionFacts DEF Bindings!ProviderBindingsConstants
    <3>2. CASE pinned[r] # None
      BY <1>1, <3>2 DEF Bindings!Pinned
    <3> QED BY <3>1, <3>2
  <2>3. asked' = asked \/ asked' = [asked EXCEPT ![r] = d.model.name]
    BY <1>4 DEF Bindings!Ask, Bindings!Served, Bindings!Called
  <2> HIDE DEF d
  <2> QED BY <1>1, <2>1, <2>2, <2>3 DEF Asking
<1>5. ASSUME NEW r \in Rooms, Bindings!GiveUp(r) \/ Bindings!AskFails(r) \/ Bindings!Complete(r)
      PROVE  Asking'
  BY <1>1, <1>5 DEF Bindings!GiveUp, Bindings!AskFails, Bindings!Complete, Asking
<1>6. ASSUME NEW c \in Bindings!Connections, NEW s \in States, ConnectionMoves(c, s) PROVE Asking'
  BY <1>2, <1>6 DEF ConnectionMoves
<1>7. ASSUME NEW k \in Clients, Bindings!EndTest(k) PROVE Asking'
  BY <1>2, <1>7 DEF Bindings!EndTest
<1>8. ASSUME NEW m \in Bindings!Models, NEW c \in Bindings!Connections, NEW name \in Names,
             Bindings!SaveModel(m, c, name)
      PROVE  Asking'
  BY <1>2, <1>8 DEF Bindings!SaveModel
<1>9. ASSUME NEW r \in Rooms, NEW m \in Bindings!Models, Bindings!BindCloud(r, m) PROVE Asking'
  BY <1>2, <1>9 DEF Bindings!BindCloud
<1>10. ASSUME NEW r \in Rooms, NEW k \in Clients, Bindings!BindLocal(k, r) PROVE Asking'
  BY <1>2, <1>10 DEF Bindings!BindLocal
<1> QED BY <1>3, <1>4, <1>5, <1>6, <1>7, <1>8, <1>9, <1>10, BindingSteps DEF Turning

\* The decision that is committed is the one in force: of what the commit
\* compares the rest follows, for revisions never change.
LEMMA CommitStep ==
    ASSUME Typed, Referring, Pinning, Asking, Bindings!CommitsInForce,
           Bindings!ProviderBindingsConstants, Bindings!Next
    PROVE  Bindings!CommitsInForce'
<1>1. ASSUME snapshot' = snapshot PROVE Bindings!CommitsInForce'
  BY <1>1 DEF Bindings!CommitsInForce
<1>2. ASSUME NEW r \in Rooms, Bindings!Complete(r) PROVE Bindings!CommitsInForce'
  <2>1. CASE ~Bindings!Current(r, pinned[r])
    BY <1>1, <1>2, <2>1 DEF Bindings!Complete
  <2>2. CASE Bindings!Current(r, pinned[r])
    <3> DEFINE p == pinned[r]
               d == Bindings!Decision(r)
               a == asked[r]
    <3>1. p \in Bindings!Decisions /\ p # None /\ a = p.model.name /\ a \in Names
      BY <1>2 DEF Bindings!Complete, Typed, Bindings!TypeOK, Asking
    <3>2. d \in Bindings!Decisions /\ d.model = model[d.binding.model][d.binding.at]
      BY <2>2, DecisionFacts DEF Bindings!Current
    <3>3. d.bound = p.bound /\ d.binding = p.binding /\ d.print = p.print
      BY <2>2 DEF Bindings!Current
    <3>4. p.model = model[p.binding.model][p.binding.at]
      BY <3>1 DEF Pinning
    <3>5. snapshot' = [snapshot EXCEPT ![r] = <<p, d, a>>]
      BY <1>2, <2>2 DEF Bindings!Complete
    <3> HIDE DEF p, d, a
    <3>6. p = d
      BY <3>1, <3>2, <3>3, <3>4 DEF Bindings!Decisions
    <3>7. snapshot \in [Rooms -> (Bindings!Decisions \X Bindings!Decisions \X Names) \cup {None}]
      BY DEF Typed, Bindings!TypeOK
    <3>8. \A q \in Rooms : snapshot'[q] = snapshot[q] \/ snapshot'[q] = <<p, d, a>>
      BY <3>5, <3>7
    <3> QED BY <3>1, <3>6, <3>8 DEF Bindings!CommitsInForce
  <2> QED BY <2>1, <2>2
<1>3. ASSUME NEW c \in Bindings!Connections, NEW s \in States, ConnectionMoves(c, s) PROVE Bindings!CommitsInForce'
  BY <1>1, <1>3 DEF ConnectionMoves
<1>4. ASSUME Waits PROVE Bindings!CommitsInForce'
  BY <1>1, <1>4 DEF Waits
<1>5. ASSUME NEW k \in Clients, Bindings!EndTest(k) PROVE Bindings!CommitsInForce'
  BY <1>1, <1>5 DEF Bindings!EndTest
<1>6. ASSUME NEW m \in Bindings!Models, NEW c \in Bindings!Connections, NEW name \in Names,
             Bindings!SaveModel(m, c, name)
      PROVE  Bindings!CommitsInForce'
  BY <1>1, <1>6 DEF Bindings!SaveModel
<1>7. ASSUME NEW r \in Rooms, NEW m \in Bindings!Models, Bindings!BindCloud(r, m)
      PROVE  Bindings!CommitsInForce'
  BY <1>1, <1>7 DEF Bindings!BindCloud
<1>8. ASSUME NEW r \in Rooms, NEW k \in Clients, Bindings!BindLocal(k, r) PROVE Bindings!CommitsInForce'
  BY <1>1, <1>8 DEF Bindings!BindLocal
<1>9. ASSUME NEW r \in Rooms, Bindings!GiveUp(r) \/ Bindings!AskFails(r)
      PROVE  Bindings!CommitsInForce'
  BY <1>1, <1>9 DEF Bindings!GiveUp, Bindings!AskFails
<1>10. ASSUME NEW r \in Rooms, Bindings!Ask(r) PROVE Bindings!CommitsInForce'
  <2>1. \A q \in Rooms : snapshot'[q] = None \/ snapshot'[q] = snapshot[q]
    BY <1>10 DEF Bindings!Ask, Typed, Bindings!TypeOK
  <2> QED BY <2>1 DEF Bindings!CommitsInForce
<1> QED BY <1>2, <1>3, <1>4, <1>5, <1>6, <1>7, <1>8, <1>9, <1>10, BindingSteps DEF Turning

\* Each answer names the revision that was made with it.
LEMMA TellingStep ==
    ASSUME Typed, Referring, Telling, Bindings!ProviderBindingsConstants, Bindings!Next
    PROVE  Telling'
<1>1. ChainsTyped
  BY ChainTypes DEF ChainsTyped
<1>2. ASSUME UNCHANGED <<binding, told>> PROVE Telling'
  BY <1>2 DEF Telling
<1>3. ASSUME NEW r \in Rooms, NEW b \in Bindings!BindingRevisions, NEW e,
             <<Len(binding[r]) + 1, b, e>> \in Tellings,
             binding' = [binding EXCEPT ![r] = Append(binding[r], b)],
             told' = [told EXCEPT ![r] = Append(told[r], <<Len(binding[r]) + 1, b, e>>)]
      PROVE  Telling'
  <2> DEFINE n == Len(binding[r])
             a == <<n + 1, b, e>>
  <2>1. a[1] = n + 1 /\ a[2] = b /\ a \in Tellings
    BY <1>3
  <2>2. told' = [told EXCEPT ![r] = Append(told[r], a)]
    BY <1>3
  <2> HIDE DEF a, n
  <2>3. OneMore(Rooms, Tellings, told, told', r, a)
    <3>1. OneMore(Rooms, Tellings, told, [told EXCEPT ![r] = Append(told[r], a)], r, a)
      BY <1>1, <2>1, Appended DEF ChainsTyped
    <3> QED BY <2>2, <3>1
  <2>4. OneMore(Rooms, Bindings!BindingRevisions, binding, binding', r, b)
    <3>1. OneMore(Rooms, Bindings!BindingRevisions, binding, [binding EXCEPT ![r] = Append(binding[r], b)], r, b)
      BY <1>1, <1>3, Appended DEF ChainsTyped
    <3> QED BY <1>3, <3>1
  <2>5. Len(told[r]) = n /\ n = Len(binding[r]) /\ n \in Nat
    BY <2>4 DEF Telling, OneMore, n
  <2>6. ASSUME NEW q \in Rooms
        PROVE  /\ Len(told'[q]) = Len(binding'[q])
               /\ \A i \in 1..Len(told'[q]) : told'[q][i][1] = i /\ told'[q][i][2] = binding'[q][i]
    <3>1. CASE q # r
      BY <2>3, <2>4, <3>1 DEF Telling, OneMore
    <3>2. CASE q = r
      <4>1. Len(told'[r]) = n + 1 /\ Len(binding'[r]) = n + 1 /\ told'[r][n + 1] = a /\ binding'[r][n + 1] = b
        BY <2>3, <2>4, <2>5 DEF OneMore
      <4>2. \A i \in 1..n : told'[r][i] = told[r][i] /\ binding'[r][i] = binding[r][i]
        BY <2>3, <2>4, <2>5 DEF OneMore, Longer
      <4>3. \A i \in 1..n : told[r][i][1] = i /\ told[r][i][2] = binding[r][i]
        BY <2>5 DEF Telling
      <4>4. ASSUME NEW i \in 1..n + 1 PROVE told'[r][i][1] = i /\ told'[r][i][2] = binding'[r][i]
        <5>1. CASE i = n + 1
          BY <2>1, <4>1, <5>1
        <5>2. CASE i \in 1..n
          BY <4>2, <4>3, <5>2
        <5> QED BY <2>5, <5>1, <5>2
      <4> QED BY <3>2, <4>1, <4>4
    <3> QED BY <3>1, <3>2
  <2> QED BY <2>6 DEF Telling
<1>4. ASSUME NEW r \in Rooms, NEW m \in Bindings!Models, Bindings!BindCloud(r, m) PROVE Telling'
  <2> DEFINE b == [model |-> m, at |-> Len(model[m])]
  <2>1. /\ binding' = [binding EXCEPT ![r] = Append(binding[r], b)] /\ b \in Bindings!BindingRevisions
        /\ told' = [told EXCEPT ![r] = Append(told[r], <<Len(binding[r]) + 1, b, "cloud">>)]
        /\ <<Len(binding[r]) + 1, b, "cloud">> \in Tellings
    BY <1>4, BindCloudFacts
  <2> HIDE DEF b
  <2> QED BY <1>3, <2>1
<1>5. ASSUME NEW r \in Rooms, NEW k \in Clients, Bindings!BindLocal(k, r) PROVE Telling'
  <2> DEFINE b == [model |-> Bindings!LocalModel(r), at |-> Len(Bindings!LocalProfile(r))]
  <2>1. /\ binding' = [binding EXCEPT ![r] = Append(binding[r], b)] /\ b \in Bindings!BindingRevisions
        /\ told' = [told EXCEPT ![r] = Append(told[r], <<Len(binding[r]) + 1, b, "lmstudio">>)]
        /\ <<Len(binding[r]) + 1, b, "lmstudio">> \in Tellings
    BY <1>5, BindLocalFacts
  <2> HIDE DEF b
  <2> QED BY <1>3, <2>1
<1>6. ASSUME NEW c \in Bindings!Connections, NEW s \in States, ConnectionMoves(c, s) PROVE Telling'
  BY <1>2, <1>6 DEF ConnectionMoves
<1>7. ASSUME Waits PROVE Telling'
  BY <1>2, <1>7 DEF Waits
<1>8. ASSUME NEW k \in Clients, Bindings!EndTest(k) PROVE Telling'
  BY <1>2, <1>8 DEF Bindings!EndTest
<1>9. ASSUME NEW m \in Bindings!Models, NEW c \in Bindings!Connections, NEW name \in Names,
             Bindings!SaveModel(m, c, name)
      PROVE  Telling'
  BY <1>2, <1>9 DEF Bindings!SaveModel
<1>10. ASSUME NEW r \in Rooms, Turning(r) PROVE Telling'
  BY <1>2, <1>10, TurningFacts
<1> QED BY <1>4, <1>5, <1>6, <1>7, <1>8, <1>9, <1>10, BindingSteps

\* LM Studio's connection, model and binding of one room.
LocalChain(r, c, m, observed, b) ==
    /\ c # <<>> => c[1] = "enabled"
    /\ \A n \in 2..Len(c) : c[n] # "enabled"
    /\ m # <<>> => observed # None
    /\ \A n \in 1..Len(m) : m[n].conn = Bindings!Local(r) /\ m[n].at = 1
    /\ b # <<>> /\ b[Len(b)].model = Bindings!LocalModel(r) => b[Len(b)].at = Len(m)

\* A room's own chain as it is now.
LocalNow(r) ==
    LocalChain(r, conn[Bindings!Local(r)], model[Bindings!LocalModel(r)], seen[Bindings!Local(r)][1], binding[r])

\* Locals room by room.
LEMMA LocalsAre == Locals <=> (OwnIds => \A r \in Rooms : LocalNow(r))
  BY DEF Locals, LocalNow, LocalChain

\* They stay as they are unless the room is bound, its connection retired or
\* observed anew.
LEMMA LocalStep ==
    ASSUME Typed, Referring, OwnIds, NEW r \in Rooms, LocalNow(r), Bindings!ProviderBindingsConstants,
           Bindings!Next
    PROVE  LocalNow(r)'
<1> DEFINE l == Bindings!Local(r)
           lm == Bindings!LocalModel(r)
           c == conn[l]
           m == model[lm]
           o == seen[l][1]
           b == binding[r]
<1>1. ChainsTyped /\ l \in Bindings!Connections /\ lm \in Bindings!Models /\ MaxRevision \in Nat
  BY ChainTypes DEF ChainsTyped
<1>2. l \notin Clouds /\ lm \notin Profiles /\ None \notin Names
  BY DEF Bindings!ProviderBindingsConstants
<1>3. /\ c \in Seq(States) /\ Len(c) \in 0..MaxRevision /\ (c = <<>> <=> Len(c) = 0)
      /\ m \in Seq(Bindings!ModelRevisions) /\ Len(m) \in 0..MaxRevision /\ (m = <<>> <=> Len(m) = 0)
      /\ b \in Seq(Bindings!BindingRevisions)
  BY <1>1, ChainTypes DEF ChainsTyped
<1>4. LocalChain(r, c, m, o, b)
  BY DEF LocalNow
<1> HIDE DEF l, lm
<1>5. ASSUME c' = c, m' = m, o' = o \/ o' # None, b' = b PROVE LocalChain(r, c', m', o', b')
  BY <1>4, <1>5 DEF LocalChain
<1>6. ASSUME NEW d \in Bindings!Connections, NEW s \in States, ConnectionMoves(d, s)
      PROVE  LocalChain(r, c', m', o', b')
  <2>1. m' = m /\ o' = o /\ b' = b
    BY <1>6 DEF ConnectionMoves
  <2>2. OneMore(Bindings!Connections, States, conn, conn', d, s)
    <3>1. OneMore(Bindings!Connections, States, conn, [conn EXCEPT ![d] = Append(conn[d], s)], d, s)
      BY <1>1, Appended DEF ChainsTyped
    <3> QED BY <1>6, <3>1 DEF ConnectionMoves
  <2>3. CASE d # l
    <3>1. c' = c
      BY <1>1, <2>2, <2>3 DEF OneMore
    <3> QED BY <1>5, <2>1, <3>1
  <2>4. CASE d = l
    <3>1. s # "enabled" /\ c # <<>>
      BY <1>2, <1>6, <2>4 DEF ConnectionMoves
    <3>2. Len(c') = Len(c) + 1 /\ c'[Len(c) + 1] = s /\ \A n \in 1..Len(c) : c'[n] = c[n]
      BY <1>1, <2>2, <2>4 DEF OneMore, Longer
    <3>3. 1 \in 1..Len(c)
      BY <1>3, <3>1
    <3>4. c'[1] = "enabled"
      BY <1>4, <3>1, <3>2, <3>3 DEF LocalChain
    <3>5. \A n \in 2..Len(c') : c'[n] # "enabled"
      <4>1. \A n \in 2..Len(c) : c'[n] # "enabled"
        BY <1>3, <1>4, <3>2 DEF LocalChain
      <4> QED BY <1>3, <3>1, <3>2, <4>1
    <3> HIDE DEF c, m, o, b
    <3> QED BY <1>4, <2>1, <3>4, <3>5 DEF LocalChain
  <2> QED BY <2>3, <2>4
<1>7. ASSUME NEW p \in Bindings!Models, NEW d \in Bindings!Connections, NEW name \in Names,
             Bindings!SaveModel(p, d, name)
      PROVE  LocalChain(r, c', m', o', b')
  <2> DEFINE v == [name |-> name, conn |-> d, at |-> Len(conn[d])]
  <2>1. /\ model' = [model EXCEPT ![p] = Append(model[p], v)] /\ p \in Profiles
        /\ UNCHANGED <<conn, seen, binding>>
    BY <1>7, SaveModelFacts
  <2> HIDE DEF v
  <2>2. m' = m
    BY <1>1, <1>2, <2>1 DEF ChainsTyped
  <2> QED BY <1>5, <2>1, <2>2
<1>8. ASSUME NEW q \in Rooms, NEW p \in Bindings!Models, Bindings!BindCloud(q, p)
      PROVE  LocalChain(r, c', m', o', b')
  <2> DEFINE e == [model |-> p, at |-> Len(model[p])]
  <2>1. /\ binding' = [binding EXCEPT ![q] = Append(binding[q], e)] /\ e.model = p
        /\ e \in Bindings!BindingRevisions /\ model[p] # <<>> /\ model[p][Len(model[p])].conn \in Clouds
        /\ UNCHANGED <<conn, model, seen>>
    BY <1>8, BindCloudFacts
  <2> HIDE DEF e
  <2>2. CASE q # r
    <3>1. b' = b
      BY <1>1, <2>1, <2>2 DEF ChainsTyped
    <3> QED BY <1>5, <2>1, <3>1
  <2>3. CASE q = r
    <3>1. b' = Append(b, e) /\ c' = c /\ m' = m /\ o' = o
      BY <1>1, <2>1, <2>3 DEF ChainsTyped
    <3>2. b'[Len(b')] = e
      BY <1>3, <2>1, <3>1
    <3>3. p # lm
      <4>1. m # <<>> => m[Len(m)].conn = l
        BY <1>3, <1>4 DEF LocalChain, l
      <4> QED BY <1>2, <2>1, <4>1
    <3> HIDE DEF b, c, m, o
    <3> QED BY <1>4, <2>1, <3>1, <3>2, <3>3 DEF LocalChain, lm
  <2> QED BY <2>2, <2>3
<1>9. ASSUME NEW q \in Rooms, NEW k \in Clients, Bindings!BindLocal(k, q)
      PROVE  LocalChain(r, c', m', o', b')
  <2> DEFINE d == Bindings!LocalConnection(q)
             p == Bindings!LocalProfile(q)
             ql == Bindings!Local(q)
             qm == Bindings!LocalModel(q)
             e == [model |-> qm, at |-> Len(p)]
  <2>1. /\ binding' = [binding EXCEPT ![q] = Append(binding[q], e)] /\ e \in Bindings!BindingRevisions
        /\ conn' = [conn EXCEPT ![ql] = d] /\ model' = [model EXCEPT ![qm] = p]
        /\ seen' = [seen EXCEPT ![ql][Len(d)] = lmStudio] /\ e.at = Len(p)
    BY <1>9, BindLocalFacts
  <2>2. /\ d \in Seq(States) /\ Len(d) \in Bindings!Revisions
        /\ d = conn[ql] \/ (conn[ql] = <<>> /\ d = <<"enabled">>)
        /\ d[Len(d)] = "enabled"
        /\ p \in Seq(Bindings!ModelRevisions)
        /\ \A n \in 1..Len(p) :
              \/ n \in 1..Len(model[qm]) /\ p[n] = model[qm][n]
              \/ model[qm] = <<>> /\ p[n].conn = ql /\ p[n].at = Len(d)
              \/ /\ model[qm] # <<>> /\ p[n].conn = model[qm][Len(model[qm])].conn
                 /\ p[n].at = model[qm][Len(model[qm])].at
    <3>1. Bindings!Probed(k, q)
      BY <1>9 DEF Bindings!BindLocal
    <3> QED BY <3>1, LocalFacts
  <2>3. q # r => ql # l /\ qm # lm
    BY DEF Bindings!Local, Bindings!LocalModel, l, lm
  <2>4. q = r => ql = l /\ qm = lm
    BY DEF l, lm
  <2>5. ql \in Bindings!Connections /\ qm \in Bindings!Models
    BY ChainTypes
  <2>6. seen \in [Bindings!Connections -> [Bindings!Revisions -> Names \cup {None}]] /\ lmStudio \in Names
    BY DEF Typed, Bindings!TypeOK
  <2> HIDE DEF d, p, ql, qm, e
  <2>7. CASE q # r
    <3>1. c' = c /\ m' = m /\ o' = o /\ b' = b
      BY <1>1, <2>1, <2>3, <2>5, <2>6, <2>7 DEF ChainsTyped
    <3> QED BY <1>5, <3>1
  <2>8. CASE q = r
    <3>1. c' = d /\ m' = p /\ b' = Append(b, e)
      BY <1>1, <2>1, <2>4, <2>5, <2>8 DEF ChainsTyped
    <3>2. Len(d) = 1 /\ d[1] = "enabled"
      <4>1. CASE d = <<"enabled">>
        BY <4>1
      <4>2. CASE d = c
        <5>1. Len(d) \in 1..MaxRevision /\ \A n \in 2..Len(d) : d[n] # "enabled"
          BY <1>1, <1>4, <2>2, <4>2 DEF LocalChain, Bindings!Revisions
        <5>2. Len(d) \notin 2..Len(d)
          BY <2>2, <5>1
        <5>3. Len(d) = 1
          <6>1. MaxRevision \in Nat
            BY DEF Bindings!ProviderBindingsConstants
          <6>2. ASSUME NEW x \in 1..MaxRevision, x \notin 2..x PROVE x = 1
            BY <6>1, <6>2
          <6> QED BY <5>1, <5>2, <6>2
        <5> QED BY <2>2, <5>3
      <4> QED BY <2>2, <2>4, <2>8, <4>1, <4>2
    <3>3. o' = lmStudio
      BY <1>1, <2>1, <2>2, <2>4, <2>5, <2>6, <2>8, <3>2
    <3>4. b'[Len(b')] = e
      BY <1>3, <2>1, <3>1
    <3>5. ASSUME NEW n \in 1..Len(p) PROVE p[n].conn = l /\ p[n].at = 1
      <4>1. \A i \in 1..Len(m) : m[i].conn = l /\ m[i].at = 1
        BY <1>4 DEF LocalChain, l
      <4>2. m # <<>> => Len(m) \in 1..Len(m)
        BY <1>3
      <4> HIDE DEF m
      <4>3. \/ n \in 1..Len(m) /\ p[n] = m[n]
            \/ m = <<>> /\ p[n].conn = l /\ p[n].at = Len(d)
            \/ m # <<>> /\ p[n].conn = m[Len(m)].conn /\ p[n].at = m[Len(m)].at
        BY <2>2, <2>4, <2>8 DEF m
      <4> QED BY <3>2, <4>1, <4>2, <4>3
    <3>6. \A n \in 2..Len(d) : d[n] # "enabled"
      BY <3>2
    <3> HIDE DEF b, c, m, o
    <3> QED BY <1>2, <2>1, <2>6, <3>1, <3>2, <3>3, <3>4, <3>5, <3>6 DEF LocalChain, l
  <2> QED BY <2>7, <2>8
<1>10. ASSUME NEW k \in Clients, Bindings!EndTest(k) PROVE LocalChain(r, c', m', o', b')
  <2> DEFINE q == request[k]
  <2>1. q \in [kind : {"test"}, conn : Bindings!Connections, at : Bindings!Revisions, name : Names]
    <3>1. request[k] \in Requests /\ request[k].kind = "test"
      BY <1>10 DEF Bindings!EndTest, Typed
    <3>2. request[k] # Bindings!Idle
      BY <3>1 DEF Bindings!Idle
    <3> QED BY <3>1, <3>2 DEF Requests
  <2>2. seen' = [seen EXCEPT ![q.conn][q.at] = q.name] /\ UNCHANGED <<conn, model, binding>>
    BY <1>10 DEF Bindings!EndTest
  <2>3. seen \in [Bindings!Connections -> [Bindings!Revisions -> Names \cup {None}]]
    BY DEF Typed, Bindings!TypeOK
  <2> HIDE DEF q
  <2>4. o' = o \/ o' = q.name
    BY <1>1, <2>1, <2>2, <2>3
  <2>5. q.name # None
    BY <1>2, <2>1
  <2> QED BY <1>5, <2>2, <2>4, <2>5
<1>11. ASSUME Waits PROVE LocalChain(r, c', m', o', b')
  BY <1>5, <1>11 DEF Waits
<1>12. ASSUME NEW q \in Rooms, Turning(q) PROVE LocalChain(r, c', m', o', b')
  BY <1>5, <1>12, TurningFacts
<1>13. LocalChain(r, c', m', o', b')
  <2> HIDE DEF c, m, o, b
  <2> QED BY <1>6, <1>7, <1>8, <1>9, <1>10, <1>11, <1>12, BindingSteps
<1> QED BY <1>13 DEF LocalNow, l, lm

\* Locals is kept: for OwnIds is a constant, each room by itself.
LEMMA LocalsStep ==
    ASSUME Typed, Referring, Locals, Bindings!ProviderBindingsConstants, Bindings!Next
    PROVE  Locals'
<1>1. ASSUME OwnIds, NEW r \in Rooms PROVE LocalNow(r)'
  <2>1. LocalNow(r)
    BY <1>1, LocalsAre
  <2> QED BY <1>1, <2>1, LocalStep
<1> QED BY <1>1 DEF Locals, LocalNow, LocalChain

\* Nothing is saved at first, so nothing is referred to.
LEMMA BindingsInit == ASSUME Bindings!ProviderBindingsConstants, Bindings!Init PROVE BindingsInv
<1>1. /\ \A c \in Bindings!Connections : conn[c] = <<>>
      /\ \A m \in Bindings!Models : model[m] = <<>>
      /\ \A r \in Rooms : /\ binding[r] = <<>> /\ pinned[r] = None /\ asked[r] = None
                          /\ snapshot[r] = None /\ told[r] = <<>>
  BY DEF Bindings!Init
<1>2. Typed
  <2>1. \A S : <<>> \in Seq(S)
    OBVIOUS
  <2>2. /\ conn \in [Bindings!Connections -> Seq({"enabled", "disabled", "deleted"})]
        /\ model \in [Bindings!Models -> Seq(Bindings!ModelRevisions)]
        /\ binding \in [Rooms -> Seq(Bindings!BindingRevisions)]
        /\ told \in [Rooms -> Seq(Bindings!Revisions \X Bindings!BindingRevisions \X {"lmstudio", "cloud"})]
    BY <2>1 DEF Bindings!Init
  <2>3. /\ seen \in [Bindings!Connections -> [Bindings!Revisions -> Names \cup {None}]]
        /\ pinned \in [Rooms -> Bindings!Decisions \cup {None}]
        /\ asked \in [Rooms -> Names \cup {None}]
        /\ snapshot \in [Rooms -> (Bindings!Decisions \X Bindings!Decisions \X Names) \cup {None}]
        /\ request \in [Clients -> Requests] /\ lmStudio \in Names
    BY DEF Bindings!Init, Requests
  <2>4. MaxRevision \in Nat /\ Len(<<>>) <= MaxRevision
    BY DEF Bindings!ProviderBindingsConstants
  <2> QED BY <1>1, <2>2, <2>3, <2>4 DEF Typed, Bindings!TypeOK
<1>3. Referring
  BY <1>1 DEF Referring
<1>4. \A r \in Rooms : Bindings!Local(r) \in Bindings!Connections /\ Bindings!LocalModel(r) \in Bindings!Models
  BY DEF Bindings!Connections, Bindings!Models
<1>5. Locals
  BY <1>1, <1>4 DEF Locals
<1> QED BY <1>1, <1>2, <1>3, <1>5 DEF BindingsInv, Typed, Pinning, Asking, Telling, Bindings!CommitsInForce

\* The inductive invariant holds in every state.
LEMMA BindingsInvariant ==
    ASSUME Bindings!ProviderBindingsConstants PROVE Bindings!Spec => []BindingsInv
<1>1. Bindings!Init => BindingsInv
  BY BindingsInit
<1>2. BindingsInv /\ [Bindings!Next]_(Bindings!vars) => BindingsInv'
  <2> SUFFICES ASSUME BindingsInv, [Bindings!Next]_(Bindings!vars) PROVE BindingsInv'
    OBVIOUS
  <2>1. Typed /\ Referring /\ Pinning /\ Asking /\ Telling /\ Locals /\ Bindings!CommitsInForce
    BY DEF BindingsInv, Typed
  <2>2. CASE Bindings!Next
    <3>1. Typed' /\ Referring' /\ Pinning' /\ Asking' /\ Telling'
      BY <2>1, <2>2, TypedStep, ReferringStep, PinningStep, AskingStep, TellingStep
    <3>2. Locals' /\ Bindings!CommitsInForce'
      BY <2>1, <2>2, LocalsStep, CommitStep
    <3> QED BY <3>1, <3>2 DEF BindingsInv, Typed
  <2>3. CASE UNCHANGED Bindings!vars
    <3>1. UNCHANGED <<conn, model, seen, binding, pinned, asked, snapshot, told, request, lmStudio>>
      BY <2>3 DEF Bindings!vars
    <3>2. Typed'
      BY <2>1, <3>1 DEF Typed, Bindings!TypeOK
    <3>3. Referring' /\ Pinning' /\ Asking' /\ Telling' /\ Bindings!CommitsInForce'
      BY <2>1, <3>1 DEF Referring, Pinning, Asking, Telling, Bindings!CommitsInForce
    <3>4. Locals'
      BY <2>1, <3>1 DEF Locals
    <3> QED BY <3>2, <3>3, <3>4 DEF BindingsInv, Typed
  <2> QED BY <2>2, <2>3
<1> QED BY <1>1, <1>2, PTL DEF Bindings!Spec

\* A room that can speak after a step could before, unless it was bound or a
\* connection observed: nothing else makes an old revision the newest again.
LEMMA RenewalStep ==
    ASSUME Typed, Referring, Bindings!ProviderBindingsConstants, Bindings!Next
    PROVE  Bindings!Renewal
<1> SUFFICES ASSUME NEW r \in Rooms, Bindings!Resolves(r)', seen' = seen, ~(Len(binding'[r]) > Len(binding[r]))
             PROVE  Bindings!Resolves(r)
  BY DEF Bindings!Renewal
<1>1. Grows /\ ChainsTyped /\ ChainsTyped' /\ MaxRevision \in Nat
  BY ChainsStep, ChainTypes DEF ChainsTyped
<1>2. \A S : \A s \in Seq(S) : Len(s) \in Nat /\ (s # <<>> <=> Len(s) > 0)
  OBVIOUS
<1> DEFINE n == Len(binding[r])
           b == binding[r][n]
           v == model[b.model][b.at]
<1>3. binding'[r] # <<>> /\ n \in Nat /\ Len(binding'[r]) = n /\ n > 0 /\ binding'[r][n] = b /\ binding[r] # <<>>
  <2>1. binding'[r] # <<>> /\ Longer(binding[r], binding'[r])
    BY <1>1 DEF Bindings!Resolves, Grows
  <2>2. n \in Nat /\ Len(binding'[r]) \in Nat /\ Len(binding'[r]) > 0 /\ (binding[r] # <<>> <=> n > 0)
    BY <1>1, <1>2, <2>1 DEF ChainsTyped
  <2> QED BY <2>1, <2>2 DEF Longer
<1>4. /\ b.at = Len(model'[b.model]) /\ b.at > 0
      /\ LET w == model'[b.model][b.at] IN
         /\ w.at = Len(conn'[w.conn]) /\ w.at > 0 /\ conn'[w.conn][w.at] = "enabled"
         /\ seen[w.conn][w.at] # None
  BY <1>3 DEF Bindings!Resolves, Bindings!Bindable, Bindings!Enabled
<1>5. b.at \in 1..Len(model[b.model]) /\ b.model \in Bindings!Models
  <2>1. n \in 1..n
    BY <1>3
  <2>2. n \in 1..Len(binding[r])
    BY <2>1
  <2> HIDE DEF n
  <2> QED BY <2>2, ChainTypes DEF Referring
<1> HIDE DEF b
<1>6. b.at = Len(model[b.model]) /\ model'[b.model][b.at] = v
  <2>1. Longer(model[b.model], model'[b.model]) /\ Len(model[b.model]) \in Nat
    BY <1>1, <1>5, ChainTypes DEF Grows
  <2> QED BY <1>4, <1>5, <2>1 DEF Longer
<1>7. v.conn \in Bindings!Connections /\ v.at \in 1..Len(conn[v.conn])
  BY <1>5, ChainTypes DEF Referring
<1> HIDE DEF v
<1>8. v.at = Len(conn[v.conn]) /\ conn[v.conn][v.at] = "enabled"
  <2>1. Longer(conn[v.conn], conn'[v.conn]) /\ Len(conn[v.conn]) \in Nat
    BY <1>1, <1>7, ChainTypes DEF Grows
  <2>2. v.at = Len(conn'[v.conn]) /\ conn'[v.conn][v.at] = "enabled"
    BY <1>4, <1>6
  <2> QED BY <1>7, <2>1, <2>2 DEF Longer
<1>9. Bindings!Enabled(v.conn, v.at) /\ seen[v.conn][v.at] # None
  BY <1>4, <1>6, <1>8 DEF Bindings!Enabled
<1>10. Bindings!Bindable(b.model, b.at)
  BY <1>4, <1>6, <1>9 DEF Bindings!Bindable, v
<1> QED BY <1>3, <1>9, <1>10 DEF Bindings!Resolves, b, v

\* The room a client is told LM Studio is selected for is bound to a revision
\* with the configured name of an enabled connection.
LEMMA SelectingStep ==
    ASSUME BindingsInv, Bindings!ProviderBindingsConstants, Bindings!Next
    PROVE  Bindings!Selecting
<1> SUFFICES ASSUME OwnIds, NEW r \in Rooms, told'[r] # told[r],
                    told'[r][Len(told'[r])][3] = "lmstudio"
             PROVE  Bindings!Speaks(r)'
  BY DEF Bindings!Selecting
<1>1. Typed /\ Referring /\ Locals /\ Locals' /\ ChainsTyped /\ ChainsTyped'
  BY LocalsStep, ChainsStep, ChainTypes DEF BindingsInv, Typed, ChainsTyped
<1>2. ASSUME NEW q \in Rooms, NEW a \in Tellings, told' = [told EXCEPT ![q] = Append(told[q], a)]
      PROVE  q = r /\ a[3] = "lmstudio"
  <2>1. OneMore(Rooms, Tellings, told, told', q, a)
    <3>1. OneMore(Rooms, Tellings, told, [told EXCEPT ![q] = Append(told[q], a)], q, a)
      BY <1>1, Appended DEF ChainsTyped
    <3> QED BY <1>2, <3>1
  <2>2. q = r
    BY <2>1 DEF OneMore
  <2>3. told'[r][Len(told'[r])] = a
    BY <2>1, <2>2 DEF OneMore
  <2> QED BY <2>2, <2>3
<1>3. ASSUME NEW q \in Rooms, NEW m \in Bindings!Models, Bindings!BindCloud(q, m) PROVE FALSE
  <2> DEFINE b == [model |-> m, at |-> Len(model[m])]
             a == <<Len(binding[q]) + 1, b, "cloud">>
  <2>1. told' = [told EXCEPT ![q] = Append(told[q], a)] /\ a \in Tellings /\ a[3] = "cloud"
    BY <1>1, <1>3, BindCloudFacts
  <2> HIDE DEF a
  <2>2. a[3] = "lmstudio"
    BY <1>2, <2>1
  <2> QED BY <2>1, <2>2
<1>4. ASSUME NEW q \in Rooms, NEW k \in Clients, Bindings!BindLocal(k, q) PROVE Bindings!Speaks(r)'
  <2> DEFINE d == Bindings!LocalConnection(q)
             p == Bindings!LocalProfile(q)
             l == Bindings!Local(q)
             lm == Bindings!LocalModel(q)
             b == [model |-> lm, at |-> Len(p)]
             a == <<Len(binding[q]) + 1, b, "lmstudio">>
  <2>1. /\ told' = [told EXCEPT ![q] = Append(told[q], a)] /\ a \in Tellings
        /\ binding' = [binding EXCEPT ![q] = Append(binding[q], b)] /\ b \in Bindings!BindingRevisions
        /\ conn' = [conn EXCEPT ![l] = d] /\ model' = [model EXCEPT ![lm] = p]
        /\ lmStudio' = lmStudio /\ b.model = lm /\ b.at = Len(p)
    BY <1>1, <1>4, BindLocalFacts
  <2>2. /\ d \in Seq(States) /\ Len(d) \in Bindings!Revisions /\ d[Len(d)] = "enabled"
        /\ p \in Seq(Bindings!ModelRevisions) /\ Len(p) \in Bindings!Revisions
        /\ p[Len(p)].name = lmStudio
    <3>1. Bindings!Probed(k, q)
      BY <1>4 DEF Bindings!BindLocal
    <3> QED BY <1>1, <3>1, LocalFacts
  <2>3. l \in Bindings!Connections /\ lm \in Bindings!Models /\ ~Bindings!IsCloud(l)
    BY <1>1, ChainTypes DEF Bindings!IsCloud, Bindings!ProviderBindingsConstants
  <2> HIDE DEF a, b, d, p
  <2>4. q = r
    BY <1>2, <2>1
  <2> DEFINE now == binding'[r]
  <2>5. now # <<>> /\ now[Len(now)] = b
    <3>1. OneMore(Rooms, Bindings!BindingRevisions, binding, binding', r, b)
      <4>1. OneMore(Rooms, Bindings!BindingRevisions, binding, [binding EXCEPT ![r] = Append(binding[r], b)], r, b)
        BY <1>1, <2>1, Appended DEF ChainsTyped
      <4> QED BY <2>1, <2>4, <4>1
    <3> QED BY <3>1 DEF OneMore
  <2>6. conn'[l] = d /\ model'[lm] = p
    BY <1>1, <2>1, <2>2, <2>3, Replaced DEF ChainsTyped
  <2>7. /\ \A n \in 2..Len(d) : d[n] # "enabled"
        /\ p # <<>> => seen'[l][1] # None
        /\ \A n \in 1..Len(p) : p[n].conn = l /\ p[n].at = 1
    BY <1>1, <2>4, <2>6 DEF Locals
  <2>8. Len(d) \in 1..MaxRevision /\ Len(p) \in 1..MaxRevision /\ MaxRevision \in Nat
    BY <2>2 DEF Bindings!Revisions, Bindings!ProviderBindingsConstants
  <2>9. Len(d) = 1
    <3>1. Len(d) \notin 2..Len(d)
      BY <2>2, <2>7
    <3>2. ASSUME NEW x \in 1..MaxRevision, x \notin 2..x PROVE x = 1
      BY <2>8, <3>2
    <3> QED BY <2>8, <3>1, <3>2
  <2>10. p[Len(p)].conn = l /\ p[Len(p)].at = 1 /\ p # <<>>
    <3>1. Len(p) \in 1..Len(p)
      BY <2>8
    <3>2. p # <<>>
      BY <2>8
    <3> QED BY <2>7, <3>1, <3>2
  <2> HIDE DEF l, lm, now
  <2>11. /\ b.at = Len(model'[b.model]) /\ b.at > 0 /\ model'[b.model][b.at] = p[Len(p)]
    BY <2>1, <2>6, <2>8
  <2>12. /\ p[Len(p)].at = Len(conn'[p[Len(p)].conn]) /\ p[Len(p)].at > 0
         /\ conn'[p[Len(p)].conn][p[Len(p)].at] = "enabled"
         /\ seen'[p[Len(p)].conn][p[Len(p)].at] # None
    BY <2>2, <2>6, <2>7, <2>9, <2>10
  <2>13. Bindings!Resolves(r)'
    BY <2>5, <2>11, <2>12 DEF Bindings!Resolves, Bindings!Bindable, Bindings!Enabled, now
  <2>14. Bindings!Decision(r)'.model = p[Len(p)]
    BY <2>1, <2>5, <2>6 DEF Bindings!Decision, now
  <2>15. Bindings!Served(Bindings!Decision(r))'
    BY <2>1, <2>2, <2>14 DEF Bindings!Served
  <2> QED BY <2>13, <2>15 DEF Bindings!Speaks
<1>5. ASSUME told' = told PROVE FALSE
  BY <1>5
<1>6. ASSUME NEW c \in Bindings!Connections, NEW s \in States, ConnectionMoves(c, s) PROVE FALSE
  BY <1>5, <1>6 DEF ConnectionMoves
<1>7. ASSUME Waits PROVE FALSE
  BY <1>5, <1>7 DEF Waits
<1>8. ASSUME NEW k \in Clients, Bindings!EndTest(k) PROVE FALSE
  BY <1>5, <1>8 DEF Bindings!EndTest
<1>9. ASSUME NEW m \in Bindings!Models, NEW c \in Bindings!Connections, NEW name \in Names,
             Bindings!SaveModel(m, c, name)
      PROVE  FALSE
  BY <1>5, <1>9 DEF Bindings!SaveModel
<1>10. ASSUME NEW q \in Rooms, Turning(q) PROVE FALSE
  BY <1>5, <1>10, TurningFacts
<1> QED BY <1>1, <1>3, <1>4, <1>6, <1>7, <1>8, <1>9, <1>10, BindingSteps

\* Types and the bound on revisions (provider-service.ts, the tables of revisions).
THEOREM BindingsTypeCorrect ==
    ASSUME Bindings!ProviderBindingsConstants PROVE Bindings!Spec => []Bindings!TypeOK
<1>1. BindingsInv => Bindings!TypeOK
  BY DEF BindingsInv
<1> QED BY <1>1, BindingsInvariant, PTL

\* A reply is committed with the decision in force in every detail, although
\* isResolvedRoomProviderDecisionCurrent compares identities, revisions and the
\* fingerprint only (commitDecisionSnapshotInTransaction).
THEOREM BindingsCommitInForce ==
    ASSUME Bindings!ProviderBindingsConstants PROVE Bindings!Spec => []Bindings!CommitsInForce
<1>1. BindingsInv => Bindings!CommitsInForce
  BY DEF BindingsInv
<1> QED BY <1>1, BindingsInvariant, PTL

\* A client that was told of a binding revision has it for ever, and no two are
\* told of one (bindRoom, rebindRoom and the local route after its probe).
THEOREM BindingsAnswersHold ==
    ASSUME Bindings!ProviderBindingsConstants PROVE Bindings!Spec => []Bindings!AnswersHold
<1>1. BindingsInv => Bindings!AnswersHold
  <2> SUFFICES ASSUME BindingsInv, NEW r \in Rooms, NEW i \in DOMAIN told[r], NEW j \in DOMAIN told[r]
               PROVE  /\ binding[r][told[r][i][1]] = told[r][i][2]
                      /\ told[r][i][1] = told[r][j][1] => i = j
    BY DEF Bindings!AnswersHold
  <2>1. DOMAIN told[r] = 1..Len(told[r])
    BY DEF BindingsInv, Bindings!TypeOK
  <2> QED BY <2>1 DEF BindingsInv, Telling
<1> QED BY <1>1, BindingsInvariant, PTL

\* A room bound to LM Studio, whose connection is not retired, resolves, and its
\* turns are answered exactly if the model it was bound with last is the one the
\* server is configured with; and whoever is told that LM Studio is selected has
\* a room that is answered (the local route and the provider resolver).
THEOREM BindingsLocalRoomSpeaks ==
    ASSUME Bindings!ProviderBindingsConstants
    PROVE  Bindings!Spec => []Bindings!LocalRoomSpeaks /\ Bindings!SelectedSpeaks
<1>1. BindingsInv => Bindings!LocalRoomSpeaks
  <2> DEFINE n(r) == Len(binding[r])
  <2> SUFFICES ASSUME BindingsInv, OwnIds, NEW r \in Rooms, binding[r] # <<>>,
                      binding[r][n(r)].model = Bindings!LocalModel(r), Len(conn[Bindings!Local(r)]) = 1
               PROVE  /\ Bindings!Resolves(r)
                      /\ Bindings!Speaks(r) <=> model[Bindings!LocalModel(r)][Len(model[Bindings!LocalModel(r)])].name = lmStudio
    BY DEF Bindings!LocalRoomSpeaks
  <2> DEFINE l == Bindings!Local(r)
             m == model[Bindings!LocalModel(r)]
             b == binding[r][n(r)]
  <2>1. Typed /\ Referring /\ Locals
    BY DEF BindingsInv, Typed
  <2>2. n(r) \in 1..n(r) /\ l \in Bindings!Connections /\ Bindings!LocalModel(r) \in Bindings!Models
    <3>1. n(r) \in 0..MaxRevision /\ n(r) # 0
      BY <2>1, ChainTypes
    <3>2. n(r) \in 1..n(r)
      BY <3>1
    <3> QED BY <2>1, <3>2, ChainTypes
  <2>3. b.at \in 1..Len(m) /\ b.at = Len(m) /\ b.model = Bindings!LocalModel(r)
    BY <2>1, <2>2 DEF Referring, Locals
  <2>4. Len(m) \in Nat /\ (m = <<>> <=> Len(m) = 0) /\ (conn[l] = <<>> <=> Len(conn[l]) = 0)
    <3>1. Len(m) \in 0..MaxRevision /\ (m = <<>> <=> Len(m) = 0) /\ MaxRevision \in Nat
      BY <2>1, <2>2, ChainTypes
    <3>2. conn[l] = <<>> <=> Len(conn[l]) = 0
      BY <2>1, <2>2, ChainTypes
    <3> HIDE DEF m
    <3> QED BY <3>1, <3>2
  <2>5. m # <<>> /\ conn[l] # <<>>
    BY <2>3, <2>4
  <2>6. m[Len(m)].conn = l /\ m[Len(m)].at = 1 /\ seen[l][1] # None /\ conn[l][1] = "enabled"
    BY <2>1, <2>3, <2>5 DEF Locals
  <2>7. Bindings!Enabled(l, 1)
    BY <2>6 DEF Bindings!Enabled
  <2>8. Bindings!Bindable(b.model, b.at)
    BY <2>3, <2>4, <2>6, <2>7 DEF Bindings!Bindable
  <2>9. Bindings!Resolves(r)
    BY <2>3, <2>6, <2>8 DEF Bindings!Resolves
  <2>10. Bindings!Decision(r).model = m[Len(m)]
    BY <2>3 DEF Bindings!Decision
  <2>11. ~Bindings!IsCloud(l)
    BY DEF Bindings!IsCloud, Bindings!ProviderBindingsConstants
  <2>12. Bindings!Speaks(r) <=> m[Len(m)].name = lmStudio
    BY <2>6, <2>9, <2>10, <2>11 DEF Bindings!Speaks, Bindings!Served
  <2> QED BY <2>9, <2>12
<1>2. BindingsInv /\ [Bindings!Next]_(Bindings!vars) => [Bindings!Selecting]_(Bindings!vars)
  BY SelectingStep
<1> QED BY <1>1, <1>2, BindingsInvariant, PTL DEF Bindings!Spec, Bindings!SelectedSpeaks

\* A room that could not speak can only after it was bound or a connection
\* observed (requireBindableModel compares with the newest revisions).
THEOREM BindingsReplacedIsRenewed ==
    ASSUME Bindings!ProviderBindingsConstants PROVE Bindings!Spec => Bindings!ReplacedIsRenewed
<1>1. BindingsInv /\ [Bindings!Next]_(Bindings!vars) => [Bindings!Renewal]_(Bindings!vars)
  BY RenewalStep DEF BindingsInv, Typed
<1> QED BY <1>1, BindingsInvariant, PTL DEF Bindings!Spec, Bindings!ReplacedIsRenewed

=============================================================================
