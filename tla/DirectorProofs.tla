--------------------------- MODULE DirectorProofs ---------------------------
(***************************************************************************)
(* Proofs about the Director, for every roster, every number of identities *)
(* and every size of the duplicate window.                                 *)
(***************************************************************************)
EXTENDS Director, TurnsProofs

-----------------------------------------------------------------------------
(* Choices *)

\* #deterministicEligibleSpeaker and the cases before it name a persona of the
\* roster, or nobody.
LEMMA ChoiceType ==
    ASSUME TypeOK, NEW number \in Nat, NEW target \in Personas \cup {Nobody}
    PROVE  Choice(number, target) \in Personas \cup {Nobody}
<1>1. EligibleSpeaker(number) \in Personas \cup {Nobody}
  <2>1. {p \in Unmuted : Rested(p, number)} \subseteq Personas
    BY DEF Unmuted
  <2>2. fallbackIndex \in Int
    BY DEF TypeOK, Personas
  <2>3. QED
    BY <2>1, <2>2, FirstFromType DEF EligibleSpeaker
<1>2. (\E p \in Unmuted : Unmuted = {p}) =>
         (CHOOSE p \in Unmuted : Unmuted = {p}) \in Personas
  BY DEF Unmuted
<1>3. QED
  BY <1>1, <1>2 DEF Choice

LEMMA NobodyIsNone == Nobody \notin Personas
  BY DEF Nobody, Personas

-----------------------------------------------------------------------------
(* Type correctness *)

LEMMA TypeInit ==
    ASSUME DirectorConstants PROVE Init => TypeOK
<1> SUFFICES ASSUME Init PROVE TypeOK
  OBVIOUS
<1>1. 0 \in Personas
  BY NAssumption DEF Personas
<1>2. age \in [Identities -> 0 .. MaxTracked]
  BY DEF Init, DirectorConstants
<1>3. QED
  BY <1>1, <1>2 DEF Init, TypeOK, Reasons

LEMMA RecordType ==
    ASSUME DirectorConstants, TypeOK, NEW id \in Identities, RecordSeen(id)
    PROVE  /\ seenOrder' \in Seq(Identities)
           /\ seen' \in SUBSET Identities
           /\ age' \in [Identities -> 0 .. MaxTracked]
<1>0. seenOrder \in Seq(Identities)
  BY DEF TypeOK
<1>1. Append(seenOrder, id) \in Seq(Identities) /\ Append(seenOrder, id) # <<>>
  <2>1. Append(seenOrder, id) \in Seq(Identities)
    BY <1>0
  <2>2. Len(Append(seenOrder, id)) = Len(seenOrder) + 1 /\ Len(seenOrder) \in Nat
    BY <1>0
  <2>3. QED
    BY <2>1, <2>2
<1>2. Tail(Append(seenOrder, id)) \in Seq(Identities)
  BY <1>1
<1>3. seenOrder' \in Seq(Identities)
  BY <1>1, <1>2 DEF RecordSeen
<1>4. seen' \in SUBSET Identities
  BY DEF RecordSeen, TypeOK
<1>5. ASSUME NEW i \in Identities PROVE age'[i] \in 0 .. MaxTracked
  <2>1. age[i] \in 0 .. MaxTracked
    BY DEF TypeOK
  <2>2. QED
    BY <2>1 DEF RecordSeen, DirectorConstants
<1>6. age' \in [Identities -> 0 .. MaxTracked]
  <2>1. age' = [i \in Identities |-> age'[i]]
    BY DEF RecordSeen
  <2>2. QED
    BY <1>5, <2>1
<1>7. QED
  BY <1>3, <1>4, <1>6

LEMMA RememberType ==
    ASSUME TypeOK, NEW speaker \in Personas
    PROVE  Remember(speaker) \in Seq(Personas)
<1> DEFINE longer == Append(recent, speaker)
<1>1. longer \in Seq(Personas) /\ longer # <<>>
  <2>1. recent \in Seq(Personas)
    BY DEF TypeOK
  <2>2. longer \in Seq(Personas)
    BY <2>1
  <2>3. Len(longer) = Len(recent) + 1 /\ Len(recent) \in Nat
    BY <2>1
  <2>4. QED
    BY <2>2, <2>3
<1>2. Remember(speaker) = IF Len(longer) > N THEN Tail(longer) ELSE longer
  BY DEF Remember
<1> HIDE DEF longer
<1>3. Tail(longer) \in Seq(Personas)
  BY <1>1
<1>4. QED
  BY <1>1, <1>2, <1>3

LEMMA TypeStep ==
    ASSUME DirectorConstants PROVE TypeOK /\ [Next]_vars => TypeOK'
<1> SUFFICES ASSUME TypeOK, [Next]_vars PROVE TypeOK'
  OBVIOUS
<1>1. ASSUME NEW id \in Identities, NEW kind \in Kinds, ScheduleRefused(id, kind)
      PROVE  TypeOK'
  <2>1. decision' \in [speaker : Personas \cup {Nobody}, reason : Reasons]
    BY <1>1 DEF ScheduleRefused, Decided, Reasons
  <2>2. QED
    BY <1>1, <2>1 DEF ScheduleRefused, TypeOK, turn, window
<1>2. ASSUME NEW id \in Identities, NEW target \in Personas \cup {Nobody},
             ScheduleNonHuman(id, target)
      PROVE  TypeOK'
  <2>1. decision' \in [speaker : Personas \cup {Nobody}, reason : Reasons]
    BY <1>2 DEF ScheduleNonHuman, Decided, Reasons
  <2>2. RecordSeen(id)
    BY <1>2 DEF ScheduleNonHuman
  <2>3. QED
    BY <1>2, <2>1, <2>2, RecordType DEF ScheduleNonHuman, TypeOK, turn
<1>3. ASSUME NEW id \in Identities, NEW wants \in BOOLEAN,
             NEW target \in Personas \cup {Nobody},
             ScheduleSilence(id, [wants |-> wants, target |-> target])
      PROVE  TypeOK'
  <2> DEFINE payload == [wants |-> wants, target |-> target]
  <2>1. SilenceReason(payload) \in Reasons
    BY DEF SilenceReason, Reasons
  <2> HIDE DEF payload
  <2>2. decision' = [speaker |-> Nobody, reason |-> SilenceReason(payload)]
    BY <1>3 DEF ScheduleSilence, Decided, payload
  <2>3. decision' \in [speaker : Personas \cup {Nobody}, reason : Reasons]
    BY <2>1, <2>2
  <2>4. RecordSeen(id) /\ accepted' = accepted + 1
    BY <1>3 DEF ScheduleSilence, Accept
  <2>5. UNCHANGED <<muted, turn, cancelled, recent>>
    BY <1>3 DEF ScheduleSilence
  <2>6. QED
    BY <2>3, <2>4, <2>5, RecordType DEF TypeOK, turn
<1>4. ASSUME NEW id \in Identities, NEW wants \in BOOLEAN,
             NEW target \in Personas \cup {Nobody},
             ScheduleTurn(id, [wants |-> wants, target |-> target])
      PROVE  TypeOK'
  <2> DEFINE payload == [wants |-> wants, target |-> target]
             speaker == Choice(accepted + 1, payload.target)
             reason == IF payload.target # Nobody
                       THEN "directed" ELSE "selected"
  <2>1. speaker \in Personas
    <3>1. speaker \in Personas \cup {Nobody}
      BY ChoiceType DEF TypeOK
    <3>2. speaker # Nobody
      BY <1>4 DEF ScheduleTurn
    <3>3. QED
      BY <3>1, <3>2
  <2>2. /\ RecordSeen(id) /\ accepted' = accepted + 1
        /\ lastSelectedAt' = [lastSelectedAt EXCEPT ![speaker] = accepted + 1]
        /\ fallbackIndex' = After(speaker)
        /\ autonomousTurns' = autonomousTurns + 1
        /\ decision' = [speaker |-> speaker, reason |-> reason]
        /\ recent' = <<>> \/ recent' = Remember(speaker)
        /\ UNCHANGED <<muted, cancelled>>
    BY <1>4 DEF ScheduleTurn, Accept, Decided, FallbackAfter
  <2>3. reason \in Reasons
    BY DEF Reasons
  <2> HIDE DEF payload, speaker, reason
  <2>4. recent' \in Seq(Personas)
    <3>1. Remember(speaker) \in Seq(Personas)
      BY <2>1, RememberType
    <3>2. <<>> \in Seq(Personas)
      OBVIOUS
    <3>3. QED
      BY <2>2, <3>1, <3>2
  <2>5. fallbackIndex' \in Personas
    BY <2>1, <2>2, AfterType DEF Personas
  <2>6. lastSelectedAt' \in [Personas -> Nat]
    <3>1. lastSelectedAt \in [Personas -> Nat] /\ accepted + 1 \in Nat
      BY DEF TypeOK
    <3>2. QED
      BY <2>1, <2>2, <3>1
  <2>7. QED
    BY <2>1, <2>2, <2>3, <2>4, <2>5, <2>6, RecordType DEF TypeOK
<1>5. ASSUME NEW persona \in Personas, NEW mute \in BOOLEAN,
             SetMuted(persona, mute)
      PROVE  TypeOK'
  <2>1. recent' \in Seq(Personas)
    BY <1>5 DEF SetMuted, TypeOK
  <2>2. QED
    BY <1>5, <2>1 DEF SetMuted, TypeOK, turn, window
<1>6. CASE Cancel
  BY <1>6 DEF Cancel, TypeOK, turn, window
<1>7. ASSUME NEW mutes \in SUBSET Personas, Reload(mutes)
      PROVE  TypeOK'
  <2>1. recent' \in Seq(Personas)
    BY <1>7 DEF Reload, TypeOK
  <2>2. seen' \in SUBSET Identities
    BY <1>7 DEF Reload, Entries, TypeOK
  <2>3. QED
    BY <1>7, <2>1, <2>2 DEF Reload, TypeOK, turn
<1>8. CASE UNCHANGED vars
  BY <1>8 DEF vars, TypeOK
<1>9. QED
  BY <1>1, <1>2, <1>3, <1>4, <1>5, <1>6, <1>7, <1>8 DEF Next

\* Every reachable state of the director is well formed.
THEOREM TypeCorrect ==
    ASSUME DirectorConstants PROVE Spec => []TypeOK
<1>1. Init => TypeOK
  BY TypeInit
<1>2. TypeOK /\ [Next]_vars => TypeOK'
  BY TypeStep
<1>3. QED
  BY <1>1, <1>2, PTL DEF Spec

-----------------------------------------------------------------------------
(***************************************************************************)
(* Snapshots restore.  SelectionRestores is inductive by itself;           *)
(* SeenRestores needs SeenAgrees, and the duplicate window needs that the  *)
(* age of a tracked identity is its distance from the end of the order.    *)
(***************************************************************************)

AgeExact ==
    /\ \A k \in DOMAIN seenOrder : age[seenOrder[k]] = Len(seenOrder) - k
    /\ \A i \in Identities \ seen : age[i] = MaxTracked

DirInv ==
    /\ TypeOK
    /\ SelectionRestores
    /\ SeenRestores
    /\ SeenAgrees
    /\ AgeExact

LEMMA SelectedFinite == IsFiniteSet(Selected)
<1>1. IsFiniteSet(0 .. (N - 1))
  BY NAssumption, FS_Interval
<1>2. QED
  BY <1>1, FS_Subset DEF Selected, Personas

LEMMA DirInit ==
    ASSUME DirectorConstants PROVE Init => DirInv
<1> SUFFICES ASSUME Init PROVE DirInv
  OBVIOUS
<1>1. TypeOK
  BY TypeInit
<1>2. Selected = {}
  BY DEF Init, Selected
<1>3. Cardinality(Selected) = 0
  BY <1>2, FS_EmptySet
<1>4. SelectionRestores
  BY <1>2, <1>3 DEF Init, SelectionRestores
<1>5. SeenRestores /\ SeenAgrees /\ AgeExact
  BY DEF Init, SeenRestores, SeenAgrees, Entries, AgeExact, DirectorConstants
<1>6. QED
  BY <1>1, <1>4, <1>5 DEF DirInv

\* A turn is the newest selection and moves the scan past its speaker.
LEMMA TurnSelects ==
    ASSUME TypeOK, SelectionRestores, NEW speaker \in Personas,
           lastSelectedAt' = [lastSelectedAt EXCEPT ![speaker] = accepted + 1],
           fallbackIndex' = After(speaker),
           autonomousTurns' = autonomousTurns + 1, accepted' = accepted + 1
    PROVE  SelectionRestores'
<1>1. /\ lastSelectedAt \in [Personas -> Nat] /\ accepted \in Nat
      /\ autonomousTurns \in Nat
  BY DEF TypeOK
<1>2. /\ lastSelectedAt'[speaker] = accepted + 1
      /\ \A q \in Personas : q # speaker =>
            lastSelectedAt'[q] = lastSelectedAt[q]
  BY <1>1
<1>3. Selected' = Selected \cup {speaker}
  BY <1>1, <1>2 DEF Selected
<1>4. \A q \in Selected : q \in Personas /\ lastSelectedAt[q] \in 1 .. accepted
  BY <1>1 DEF Selected, SelectionRestores
<1>5. autonomousTurns' <= accepted' /\ autonomousTurns' # 0
  BY <1>1 DEF SelectionRestores
<1>6. \A q \in Selected' : lastSelectedAt'[q] <= accepted'
  BY <1>1, <1>2, <1>3, <1>4
<1>7. \A p, q \in Selected' :
         lastSelectedAt'[p] = lastSelectedAt'[q] => p = q
  <2> SUFFICES ASSUME NEW p \in Selected', NEW q \in Selected', p # q,
                      lastSelectedAt'[p] = lastSelectedAt'[q]
               PROVE  FALSE
    OBVIOUS
  <2>1. CASE p # speaker /\ q # speaker
    BY <1>2, <1>3, <1>4, <2>1 DEF SelectionRestores
  <2>2. CASE p = speaker \/ q = speaker
    BY <1>1, <1>2, <1>3, <1>4, <2>2
  <2>3. QED
    BY <2>1, <2>2
<1>8. Cardinality(Selected') <= autonomousTurns'
  <2>1. Cardinality(Selected) \in Nat /\ Cardinality(Selected) <= autonomousTurns
    BY SelectedFinite, FS_CardinalityType DEF SelectionRestores
  <2>2. \/ Cardinality(Selected') = Cardinality(Selected)
        \/ Cardinality(Selected') = Cardinality(Selected) + 1
    BY <1>3, SelectedFinite, FS_AddElement
  <2>3. QED
    BY <1>1, <2>1, <2>2
<1>9. ASSUME NEW q \in Selected', IsLatest(q)' PROVE q = speaker
  <2>1. lastSelectedAt'[speaker] <= lastSelectedAt'[q]
    BY <1>3, <1>9 DEF IsLatest
  <2>2. QED
    BY <1>1, <1>2, <1>3, <1>4, <2>1
<1>10. \A q \in Selected' : IsLatest(q)' =>
          lastSelectedAt'[q] >= autonomousTurns' /\ fallbackIndex' = After(q)
  BY <1>1, <1>2, <1>5, <1>9
<1>11. Selected' # {}
  BY <1>3
<1>12. QED
  BY <1>5, <1>6, <1>7, <1>8, <1>10, <1>11 DEF SelectionRestores

\* A human event that nobody answers leaves the selections alone.
LEMMA SilenceKeeps ==
    ASSUME TypeOK, SelectionRestores, UNCHANGED turn,
           accepted' = accepted \/ accepted' = accepted + 1
    PROVE  SelectionRestores'
<1>1. /\ lastSelectedAt' = lastSelectedAt /\ autonomousTurns' = autonomousTurns
      /\ fallbackIndex' = fallbackIndex
      /\ lastSelectedAt \in [Personas -> Nat]
      /\ accepted \in Nat /\ autonomousTurns \in Nat
  BY DEF turn, TypeOK
<1>2. Selected' = Selected /\ \A p \in Selected : IsLatest(p)' <=> IsLatest(p)
  BY <1>1 DEF Selected, IsLatest
<1>3. \A p \in Selected : lastSelectedAt[p] \in Nat
  BY <1>1 DEF Selected
<1>4. autonomousTurns' <= accepted'
      /\ \A p \in Selected : lastSelectedAt[p] <= accepted'
  BY <1>1, <1>3 DEF SelectionRestores
<1>5. QED
  BY <1>1, <1>2, <1>4 DEF SelectionRestores

\* A new identity keeps the window full, free of repetitions, and in step
\* with the set and the ages.
LEMMA RecordKeeps ==
    ASSUME DirectorConstants, DirInv, NEW id \in Identities, id \notin seen,
           RecordSeen(id),
           accepted' = accepted \/ accepted' = accepted + 1
    PROVE  SeenRestores' /\ SeenAgrees' /\ AgeExact'
<1> DEFINE order == Append(seenOrder, id)
           L == Len(seenOrder)
<1>1. /\ seenOrder \in Seq(Identities) /\ accepted \in Nat
      /\ age \in [Identities -> 0 .. MaxTracked]
      /\ MaxTracked \in Nat \ {0}
  BY DEF DirInv, TypeOK, DirectorConstants
<1>2. /\ L \in Nat /\ DOMAIN seenOrder = 1 .. L /\ L <= MaxTracked
      /\ L >= accepted \/ L >= MaxTracked
      /\ \A i, j \in 1 .. L : seenOrder[i] = seenOrder[j] => i = j
  BY <1>1 DEF DirInv, SeenRestores
<1>3. /\ seen = {seenOrder[i] : i \in 1 .. L}
      /\ \A k \in 1 .. L : seenOrder[k] \in Identities
      /\ \A k \in 1 .. L : age[seenOrder[k]] = L - k
      /\ \A i \in Identities \ seen : age[i] = MaxTracked
  <2>1. seen = {seenOrder[i] : i \in 1 .. L}
    BY <1>2 DEF DirInv, SeenAgrees, Entries
  <2>2. \A k \in 1 .. L : seenOrder[k] \in Identities
    BY <1>1
  <2>3. /\ \A k \in 1 .. L : age[seenOrder[k]] = L - k
        /\ \A i \in Identities \ seen : age[i] = MaxTracked
    BY <1>2 DEF DirInv, AgeExact
  <2>4. QED
    BY <2>1, <2>2, <2>3
<1>4. /\ order \in Seq(Identities) /\ Len(order) = L + 1 /\ order # <<>>
      /\ \A k \in 1 .. L : order[k] = seenOrder[k]
      /\ order[L + 1] = id
  BY <1>1
<1>5. /\ \A i \in Identities : age'[i] =
            IF i = id THEN 0
            ELSE IF age[i] < MaxTracked THEN age[i] + 1 ELSE MaxTracked
      /\ seenOrder' = IF Evicts(order) THEN Tail(order) ELSE order
      /\ seen' = IF Evicts(order) THEN (seen \cup {id}) \ {Head(order)}
                 ELSE seen \cup {id}
  BY DEF RecordSeen, Forgotten
<1> HIDE DEF order, L
<1>6. \A k \in 1 .. L : seenOrder[k] # id /\ age'[seenOrder[k]] =
         IF L - k < MaxTracked THEN L - k + 1 ELSE MaxTracked
  BY <1>3, <1>5
<1>7. \A i \in Identities : i \notin seen /\ i # id => age'[i] = MaxTracked
  BY <1>1, <1>3, <1>5
<1>8. CASE ~ Evicts(order)
  <2>1. L + 1 <= MaxTracked /\ seenOrder' = order
    BY <1>1, <1>2, <1>4, <1>5, <1>8 DEF Evicts
  <2>2. Len(seenOrder') = L + 1 /\ DOMAIN seenOrder' = 1 .. (L + 1)
    BY <1>4, <2>1
  <2>3. SeenRestores'
    <3>1. ASSUME NEW i \in 1 .. (L + 1), NEW j \in 1 .. (L + 1),
                 order[i] = order[j]
          PROVE  i = j
      BY <1>2, <1>4, <1>6, <3>1
    <3>2. QED
      BY <1>1, <1>2, <2>1, <2>2, <3>1 DEF SeenRestores
  <2>4. SeenAgrees'
    <3>1. seen' = {order[i] : i \in 1 .. (L + 1)}
      BY <1>2, <1>3, <1>4, <1>5, <1>8
    <3>2. QED
      BY <2>1, <2>2, <3>1 DEF SeenAgrees, Entries
  <2>5. AgeExact'
    <3>1. ASSUME NEW k \in 1 .. (L + 1)
          PROVE  age'[order[k]] = L + 1 - k
      <4>1. CASE k = L + 1
        BY <1>2, <1>4, <1>5, <4>1
      <4>2. CASE k \in 1 .. L
        <5>1. L - k < MaxTracked /\ L - k + 1 = L + 1 - k
          BY <1>1, <1>2, <2>1, <4>2
        <5>2. age'[seenOrder[k]] = L - k + 1
          BY <1>6, <4>2, <5>1
        <5>3. QED
          BY <1>4, <4>2, <5>1, <5>2
      <4>3. QED
        BY <1>2, <4>1, <4>2
    <3>2. \A i \in Identities \ seen' : age'[i] = MaxTracked
      BY <1>5, <1>7, <1>8
    <3>3. \A k \in DOMAIN seenOrder' :
             age'[seenOrder'[k]] = Len(seenOrder') - k
      <4> TAKE k \in DOMAIN seenOrder'
      <4>1. k \in 1 .. (L + 1) /\ Len(seenOrder') = L + 1
        BY <2>2
      <4>2. seenOrder'[k] = order[k]
        BY <2>1
      <4>3. age'[order[k]] = L + 1 - k
        BY <3>1, <4>1
      <4>4. QED
        BY <1>2, <4>1, <4>2, <4>3
    <3>4. QED
      BY <3>2, <3>3 DEF AgeExact
  <2>6. QED
    BY <2>3, <2>4, <2>5
<1>9. CASE Evicts(order)
  <2>1. L = MaxTracked /\ seenOrder' = Tail(order)
    BY <1>1, <1>2, <1>4, <1>5, <1>9 DEF Evicts
  <2>2. /\ Len(seenOrder') = L /\ DOMAIN seenOrder' = 1 .. L
        /\ \A k \in 1 .. L : seenOrder'[k] = order[k + 1]
        /\ Head(order) = seenOrder[1]
    BY <1>1, <1>2, <1>4, <2>1
  <2>3. SeenRestores'
    <3>1. ASSUME NEW i \in 1 .. (L + 1), NEW j \in 1 .. (L + 1),
                 order[i] = order[j]
          PROVE  i = j
      BY <1>2, <1>4, <1>6, <3>1
    <3>2. ASSUME NEW i \in 1 .. L, NEW j \in 1 .. L,
                 seenOrder'[i] = seenOrder'[j]
          PROVE  i = j
      BY <1>2, <2>2, <3>1, <3>2
    <3>3. Len(seenOrder') <= MaxTracked /\ Len(seenOrder') >= MaxTracked
      BY <1>1, <2>1, <2>2
    <3>4. QED
      BY <2>2, <3>2, <3>3 DEF SeenRestores
  <2>4. seen' = {seenOrder'[k] : k \in 1 .. L}
    <3>1. ASSUME NEW k \in 1 .. L PROVE seenOrder'[k] \in seen'
      <4>1. CASE k = L
        BY <1>2, <1>4, <1>5, <1>6, <1>9, <2>1, <2>2, <4>1
      <4>2. CASE k < L
        <5>1. k + 1 \in 1 .. L /\ 1 \in 1 .. L /\ k + 1 # 1
          BY <1>2, <4>2
        <5>2. seenOrder'[k] = seenOrder[k + 1]
          BY <1>4, <2>2, <5>1
        <5>3. seenOrder[k + 1] # seenOrder[1]
          BY <1>2, <5>1
        <5>4. QED
          BY <1>3, <1>5, <1>9, <2>2, <5>1, <5>2, <5>3
      <4>3. QED
        BY <1>2, <4>1, <4>2
    <3>2. ASSUME NEW x \in seen' PROVE \E k \in 1 .. L : x = seenOrder'[k]
      <4>1. x \in seen \cup {id} /\ x # seenOrder[1]
        BY <1>5, <1>9, <2>2, <3>2
      <4>2. CASE x = id
        BY <1>1, <1>2, <1>4, <2>1, <2>2, <4>2
      <4>3. CASE x # id
        <5>1. PICK i \in 1 .. L : x = seenOrder[i]
          BY <1>3, <4>1, <4>3
        <5>2. i # 1 /\ i - 1 \in 1 .. L /\ seenOrder'[i - 1] = x
          BY <1>2, <1>4, <2>2, <4>1, <5>1
        <5>3. QED
          BY <5>2
      <4>4. QED
        BY <4>2, <4>3
    <3>3. QED
      BY <3>1, <3>2
  <2>5. SeenAgrees'
    BY <2>2, <2>4 DEF SeenAgrees, Entries
  <2>6. AgeExact'
    <3>1. ASSUME NEW k \in 1 .. L PROVE age'[seenOrder'[k]] = L - k
      <4>1. CASE k = L
        BY <1>2, <1>4, <1>5, <2>2, <4>1
      <4>2. CASE k < L
        <5>1. k + 1 \in 1 .. L /\ seenOrder'[k] = seenOrder[k + 1]
          BY <1>2, <1>4, <2>2, <4>2
        <5>2. L - (k + 1) < MaxTracked /\ L - (k + 1) + 1 = L - k
          BY <1>1, <1>2, <2>1, <4>2
        <5>3. age'[seenOrder[k + 1]] = L - (k + 1) + 1
          BY <1>6, <5>1, <5>2
        <5>4. QED
          BY <5>1, <5>2, <5>3
      <4>3. QED
        BY <1>2, <4>1, <4>2
    <3>2. ASSUME NEW i \in Identities \ seen' PROVE age'[i] = MaxTracked
      <4>1. CASE i = seenOrder[1]
        <5>1. 1 \in 1 .. L
          BY <1>1, <1>2, <2>1
        <5>2. age'[seenOrder[1]] = IF L - 1 < MaxTracked THEN L - 1 + 1
                                   ELSE MaxTracked
          BY <1>6, <5>1
        <5>3. QED
          BY <1>1, <2>1, <4>1, <5>2
      <4>2. CASE i # seenOrder[1]
        BY <1>5, <1>7, <1>9, <2>2, <3>2, <4>2
      <4>3. QED
        BY <4>1, <4>2
    <3>3. QED
      BY <2>2, <3>1, <3>2 DEF AgeExact
  <2>7. QED
    BY <2>3, <2>5, <2>6
<1>10. QED
  BY <1>8, <1>9

\* A step that leaves the window and the count of events leaves what is said
\* of them.
LEMMA WindowKeeps ==
    ASSUME DirInv, seenOrder' = seenOrder, age' = age, accepted' = accepted,
           seen' = seen \/ seen' = Entries(seenOrder)
    PROVE  SeenRestores' /\ SeenAgrees' /\ AgeExact'
<1>1. seen' = seen
  BY DEF DirInv, SeenAgrees
<1>2. QED
  BY <1>1 DEF DirInv, SeenRestores, SeenAgrees, AgeExact, Entries

LEMMA DirStep ==
    ASSUME DirectorConstants PROVE DirInv /\ [Next]_vars => DirInv'
<1> SUFFICES ASSUME DirInv, [Next]_vars PROVE DirInv'
  OBVIOUS
<1>1. TypeOK /\ TypeOK' /\ SelectionRestores
  BY TypeStep DEF DirInv
<1>2. ASSUME UNCHANGED <<turn, seenOrder, age, accepted>>,
             seen' = seen \/ seen' = Entries(seenOrder)
      PROVE  DirInv'
  BY <1>1, <1>2, SilenceKeeps, WindowKeeps DEF DirInv
<1>3. ASSUME NEW id \in Identities, NEW kind \in Kinds, ScheduleRefused(id, kind)
      PROVE  DirInv'
  BY <1>2, <1>3 DEF ScheduleRefused, window
<1>4. ASSUME NEW id \in Identities, NEW target \in Personas \cup {Nobody},
             ScheduleNonHuman(id, target)
      PROVE  DirInv'
  <2>1. id \notin seen /\ RecordSeen(id) /\ UNCHANGED <<turn, accepted>>
    BY <1>4 DEF ScheduleNonHuman
  <2>2. SelectionRestores'
    BY <1>1, <2>1, SilenceKeeps
  <2>3. SeenRestores' /\ SeenAgrees' /\ AgeExact'
    BY <2>1, RecordKeeps
  <2>4. QED
    BY <1>1, <2>2, <2>3 DEF DirInv
<1>5. ASSUME NEW id \in Identities, NEW wants \in BOOLEAN,
             NEW target \in Personas \cup {Nobody},
             ScheduleSilence(id, [wants |-> wants, target |-> target])
      PROVE  DirInv'
  <2>1. /\ id \notin seen /\ RecordSeen(id)
        /\ UNCHANGED turn /\ accepted' = accepted + 1
    BY <1>5 DEF ScheduleSilence, Accept
  <2>2. SelectionRestores'
    BY <1>1, <2>1, SilenceKeeps
  <2>3. SeenRestores' /\ SeenAgrees' /\ AgeExact'
    BY <2>1, RecordKeeps
  <2>4. QED
    BY <1>1, <2>2, <2>3 DEF DirInv
<1>6. ASSUME NEW id \in Identities, NEW wants \in BOOLEAN,
             NEW target \in Personas \cup {Nobody},
             ScheduleTurn(id, [wants |-> wants, target |-> target])
      PROVE  DirInv'
  <2> DEFINE payload == [wants |-> wants, target |-> target]
             speaker == Choice(accepted + 1, payload.target)
  <2>1. /\ id \notin seen /\ RecordSeen(id) /\ accepted' = accepted + 1
        /\ lastSelectedAt' = [lastSelectedAt EXCEPT ![speaker] = accepted + 1]
        /\ fallbackIndex' = After(speaker)
        /\ autonomousTurns' = autonomousTurns + 1
        /\ speaker # Nobody
    BY <1>6 DEF ScheduleTurn, Accept, FallbackAfter
  <2>2. speaker \in Personas
    <3>1. speaker \in Personas \cup {Nobody}
      <4>1. accepted + 1 \in Nat /\ payload.target \in Personas \cup {Nobody}
        BY <1>1 DEF TypeOK
      <4>2. QED
        BY <1>1, <4>1, ChoiceType
    <3>2. QED
      BY <2>1, <3>1
  <2> HIDE DEF speaker, payload
  <2>3. SelectionRestores'
    BY <1>1, <2>1, <2>2, TurnSelects
  <2>4. SeenRestores' /\ SeenAgrees' /\ AgeExact'
    BY <2>1, RecordKeeps
  <2>5. QED
    BY <1>1, <2>3, <2>4 DEF DirInv
<1>7. ASSUME NEW persona \in Personas, NEW mute \in BOOLEAN,
             SetMuted(persona, mute)
      PROVE  DirInv'
  BY <1>2, <1>7 DEF SetMuted, window
<1>8. CASE Cancel
  BY <1>2, <1>8 DEF Cancel, window
<1>9. ASSUME NEW mutes \in SUBSET Personas, Reload(mutes)
      PROVE  DirInv'
  BY <1>2, <1>9 DEF Reload
<1>10. CASE UNCHANGED vars
  BY <1>2, <1>10 DEF vars, turn
<1>11. QED
  BY <1>3, <1>4, <1>5, <1>6, <1>7, <1>8, <1>9, <1>10 DEF Next

THEOREM DirectorInvariant ==
    ASSUME DirectorConstants PROVE Spec => []DirInv
<1>1. Init => DirInv
  BY DirInit
<1>2. DirInv /\ [Next]_vars => DirInv'
  BY DirStep
<1>3. QED
  BY <1>1, <1>2, PTL DEF Spec

\* Whatever the director went through, #restore accepts its snapshot.
THEOREM SnapshotsRestore ==
    ASSUME DirectorConstants PROVE Spec => []SnapshotRestores
<1>1. DirInv => SnapshotRestores
  BY DEF DirInv, SnapshotRestores
<1>2. QED
  BY <1>1, DirectorInvariant, PTL

\* The set and the order of seen identities agree (#recordSeen).
THEOREM SeenSetsAgree ==
    ASSUME DirectorConstants PROVE Spec => []SeenAgrees
<1>1. DirInv => SeenAgrees
  BY DEF DirInv
<1>2. QED
  BY <1>1, DirectorInvariant, PTL

\* An identity is taken for new again only after a full window of others.
THEOREM WindowHolds ==
    ASSUME DirectorConstants PROVE Spec => DuplicatesOnlyBeyondWindow
<1>1. ASSUME DirInv, NEW id \in Identities, Records(id)
      PROVE  age[id] = MaxTracked
  <2>1. id \notin seen
    BY <1>1 DEF Records, ScheduleNonHuman, ScheduleSilence, ScheduleTurn,
                Accept
  <2>2. QED
    BY <1>1, <2>1 DEF DirInv, AgeExact
<1>2. DirInv /\ [Next]_vars =>
         [\A id \in Identities : Records(id) => age[id] = MaxTracked]_vars
  BY <1>1
<1>3. QED
  BY <1>2, DirectorInvariant, PTL DEF Spec, DuplicatesOnlyBeyondWindow, NewBeyondWindow

-----------------------------------------------------------------------------
(* Who speaks *)

\* Only the persona chosen for the last human event has not rested.
LEMMA OnlyLatestTired ==
    ASSUME DirInv, NEW p \in Personas
    PROVE  Rested(p, accepted + 1) <=>
              lastSelectedAt[p] = 0 \/ lastSelectedAt[p] # accepted
<1>1. lastSelectedAt[p] \in Nat /\ accepted \in Nat
  BY DEF DirInv, TypeOK
<1>2. lastSelectedAt[p] # 0 => lastSelectedAt[p] <= accepted
  BY DEF DirInv, SelectionRestores, Selected
<1>3. QED
  BY <1>1, <1>2 DEF Rested

\* Two unmuted personas are not both tired.
LEMMA SomeoneRested ==
    ASSUME DirInv, Unmuted # {}, ~ \E p \in Unmuted : Unmuted = {p}
    PROVE  EligibleSpeaker(accepted + 1) \in Unmuted
<1> DEFINE candidates == {p \in Unmuted : Rested(p, accepted + 1)}
<1>1. PICK p \in Unmuted, q \in Unmuted : p # q
  OBVIOUS
<1>2. p \in Personas /\ q \in Personas
  BY DEF Unmuted
<1>3. ~ (/\ lastSelectedAt[p] # 0 /\ lastSelectedAt[q] # 0
         /\ lastSelectedAt[p] = lastSelectedAt[q])
  BY <1>1, <1>2 DEF DirInv, SelectionRestores, Selected
<1>4. Rested(p, accepted + 1) \/ Rested(q, accepted + 1)
  BY <1>2, <1>3, OnlyLatestTired
<1>5. candidates # {} /\ candidates \subseteq Personas
  BY <1>4 DEF Unmuted
<1>6. fallbackIndex \in Int
  BY DEF DirInv, TypeOK, Personas
<1> HIDE DEF candidates
<1>7. FirstFrom(fallbackIndex, candidates) \in candidates
  BY <1>5, <1>6, FirstFromMember
<1>8. QED
  BY <1>7 DEF EligibleSpeaker, candidates

\* A response that is wanted is given as long as somebody may speak.
LEMMA ChoiceSpeaks ==
    ASSUME DirInv, Unmuted # {}, NEW target \in Personas \cup {Nobody}
    PROVE  Choice(accepted + 1, target) # Nobody
<1>1. Unmuted \subseteq Personas
  BY DEF Unmuted
<1>2. CASE target # Nobody
  BY <1>2 DEF Choice
<1>3. CASE target = Nobody /\ \E p \in Unmuted : Unmuted = {p}
  <2>1. (CHOOSE p \in Unmuted : Unmuted = {p}) \in Unmuted
    BY <1>3
  <2>2. QED
    BY <1>1, <1>3, <2>1, NobodyIsNone DEF Choice
<1>4. CASE target = Nobody /\ ~ \E p \in Unmuted : Unmuted = {p}
  BY <1>1, <1>4, SomeoneRested, NobodyIsNone DEF Choice
<1>5. QED
  BY <1>2, <1>3, <1>4

\* The cooldown never silences a room on its own: "cooldown" is never
\* returned by schedule.
THEOREM CooldownHarmless ==
    ASSUME DirectorConstants PROVE Spec => []CooldownNeverSilences
<1>1. Init => CooldownNeverSilences
  BY DEF Init, CooldownNeverSilences
<1>2. ASSUME DirInv, CooldownNeverSilences, [Next]_vars
      PROVE  CooldownNeverSilences'
  <2>1. CASE UNCHANGED decision
    BY <1>2, <2>1 DEF CooldownNeverSilences
  <2>2. ASSUME NEW id \in Identities, NEW kind \in Kinds, ScheduleRefused(id, kind)
        PROVE  CooldownNeverSilences'
    BY <2>2 DEF ScheduleRefused, Decided, CooldownNeverSilences
  <2>3. ASSUME NEW id \in Identities, NEW target \in Personas \cup {Nobody},
               ScheduleNonHuman(id, target)
        PROVE  CooldownNeverSilences'
    BY <2>3 DEF ScheduleNonHuman, Decided, CooldownNeverSilences
  <2>4. ASSUME NEW id \in Identities, NEW wants \in BOOLEAN,
               NEW target \in Personas \cup {Nobody},
               ScheduleSilence(id, [wants |-> wants, target |-> target])
        PROVE  CooldownNeverSilences'
    <3> DEFINE payload == [wants |-> wants, target |-> target]
    <3>1. payload.target \in Personas \cup {Nobody}
      OBVIOUS
    <3> HIDE DEF payload
    <3>2. decision'.reason = SilenceReason(payload)
      BY <2>4 DEF ScheduleSilence, Decided, payload
    <3>3. ~ payload.wants \/ Unmuted = {}
      BY <1>2, <2>4, <3>1, ChoiceSpeaks DEF ScheduleSilence, payload
    <3>4. SilenceReason(payload) # "cooldown"
      BY <3>3 DEF SilenceReason
    <3>5. QED
      BY <3>2, <3>4 DEF CooldownNeverSilences
  <2>5. ASSUME NEW id \in Identities, NEW wants \in BOOLEAN,
               NEW target \in Personas \cup {Nobody},
               ScheduleTurn(id, [wants |-> wants, target |-> target])
        PROVE  CooldownNeverSilences'
    BY <2>5 DEF ScheduleTurn, Decided, CooldownNeverSilences
  <2>6. QED
    BY <1>2, <2>1, <2>2, <2>3, <2>4, <2>5
    DEF Next, SetMuted, Cancel, Reload, vars
<1>3. QED
  BY <1>1, <1>2, DirectorInvariant, PTL DEF Spec

LEMMA LatestExists ==
    ASSUME DirInv, Selected # {}
    PROVE  LastSpeaker \in Selected /\ IsLatest(LastSpeaker)
<1> DEFINE S == {accepted - lastSelectedAt[p] : p \in Selected}
<1>1. \A p \in Selected : /\ lastSelectedAt[p] \in Nat
                          /\ accepted - lastSelectedAt[p] \in Nat
  BY DEF DirInv, TypeOK, SelectionRestores, Selected
<1>2. S \subseteq Nat /\ S # {}
  BY <1>1
<1>3. PICK x \in S : \A y \in S : x <= y
  BY <1>2, LeastNatural
<1>4. PICK p \in Selected : x = accepted - lastSelectedAt[p]
  BY <1>3
<1>5. \A q \in Selected : lastSelectedAt[q] <= lastSelectedAt[p]
  <2> TAKE q \in Selected
  <2>1. accepted - lastSelectedAt[p] <= accepted - lastSelectedAt[q]
    BY <1>3, <1>4
  <2>2. accepted \in Nat
    BY DEF DirInv, TypeOK
  <2>3. QED
    BY <1>1, <2>1, <2>2
<1>6. \E q \in Selected : IsLatest(q)
  BY <1>5 DEF IsLatest
<1>7. QED
  BY <1>6 DEF LastSpeaker

HumansSinceLast ==
    IF LastSpeaker = Nobody THEN accepted + 1
    ELSE accepted + 1 - lastSelectedAt[LastSpeaker]

\* The last speaker and the distance to it say the same as the whole map of
\* selections.
LEMMA SameCandidates ==
    ASSUME DirInv
    PROVE  /\ {p \in Unmuted : Rested(p, accepted + 1)} =
                 Candidates(LastSpeaker, HumansSinceLast, muted)
           /\ fallbackIndex = IF LastSpeaker = Nobody THEN 0
                              ELSE After(LastSpeaker)
<1>1. accepted \in Nat /\ \A p \in Personas : lastSelectedAt[p] \in Nat
  BY DEF DirInv, TypeOK
<1>2. CASE Selected = {}
  <2>1. LastSpeaker = Nobody /\ autonomousTurns = 0 /\ fallbackIndex = 0
    BY <1>2 DEF LastSpeaker, DirInv, SelectionRestores
  <2>2. \A p \in Personas : Rested(p, accepted + 1)
    BY <1>2 DEF Rested, Selected
  <2>3. QED
    BY <2>1, <2>2 DEF Candidates, Unmuted
<1>3. CASE Selected # {}
  <2>1. LastSpeaker \in Selected /\ IsLatest(LastSpeaker)
    BY <1>3, LatestExists
  <2>2. LastSpeaker \in Personas /\ LastSpeaker # Nobody
    BY <2>1, NobodyIsNone DEF Selected
  <2>3. fallbackIndex = After(LastSpeaker)
    BY <2>1 DEF DirInv, SelectionRestores
  <2>4. HumansSinceLast <= 1 <=> lastSelectedAt[LastSpeaker] = accepted
    <3>1. lastSelectedAt[LastSpeaker] <= accepted
      BY <2>1 DEF DirInv, SelectionRestores
    <3>2. QED
      BY <1>1, <2>2, <3>1 DEF HumansSinceLast
  <2>5. ASSUME NEW p \in Personas
        PROVE  Rested(p, accepted + 1) <=>
                  ~ (HumansSinceLast <= 1) \/ p # LastSpeaker
    <3>1. CASE p = LastSpeaker
      <4>1. lastSelectedAt[p] # 0
        BY <2>1, <3>1 DEF Selected
      <4>2. QED
        BY <2>4, <3>1, <4>1, OnlyLatestTired
    <3>2. CASE p # LastSpeaker
      <4>1. ASSUME lastSelectedAt[p] # 0, lastSelectedAt[p] = accepted
            PROVE  FALSE
        <5>1. p \in Selected
          BY <4>1 DEF Selected
        <5>2. lastSelectedAt[p] <= lastSelectedAt[LastSpeaker]
          BY <2>1, <5>1 DEF IsLatest
        <5>3. lastSelectedAt[LastSpeaker] <= accepted
          BY <2>1 DEF DirInv, SelectionRestores
        <5>4. lastSelectedAt[p] = lastSelectedAt[LastSpeaker]
          BY <1>1, <2>2, <4>1, <5>2, <5>3
        <5>5. QED
          BY <2>1, <3>2, <5>1, <5>4 DEF DirInv, SelectionRestores
      <4>2. QED
        BY <3>2, <4>1, OnlyLatestTired
    <3>3. QED
      BY <3>1, <3>2
  <2>6. QED
    BY <2>2, <2>3, <2>5 DEF Candidates, Unmuted
<1>4. QED
  BY <1>2, <1>3

\* The core director and the desktop room service choose the same speaker
\* (schedule and RoomService.#decide), for every roster.
THEOREM SchedulersAgree ==
    ASSUME DirectorConstants PROVE Spec => AgreesWithRoomService
<1> DEFINE Agree(target, id) ==
      LET payload == [wants |-> TRUE, target |-> target]
      IN  ScheduleTurn(id, payload) \/ ScheduleSilence(id, payload) =>
             decision'.speaker =
                Decide(LastSpeaker,
                       IF LastSpeaker = Nobody THEN accepted + 1
                       ELSE accepted + 1 - lastSelectedAt[LastSpeaker],
                       muted, payload)
<1>1. ASSUME DirInv, NEW target \in Personas \cup {Nobody},
             NEW id \in Identities
      PROVE  Agree(target, id)
  <2> DEFINE payload == [wants |-> TRUE, target |-> target]
             speaker == Choice(accepted + 1, target)
  <2>1. payload.target = target /\ payload.wants
    OBVIOUS
  <2> HIDE DEF payload
  <2>2. ASSUME ScheduleTurn(id, payload)
        PROVE  decision'.speaker = speaker /\ Unmuted # {}
    BY <2>1, <2>2 DEF ScheduleTurn, Decided
  <2>3. ASSUME ScheduleSilence(id, payload)
        PROVE  decision'.speaker = Nobody /\ Unmuted = {} /\ target = Nobody
    <3>1. decision'.speaker = Nobody /\ target \notin muted
      BY <2>1, <2>3 DEF ScheduleSilence, Decided, Accept, CallAllowed
    <3>2. Unmuted = {}
      BY <1>1, <2>1, <2>3, ChoiceSpeaks DEF ScheduleSilence
    <3>3. QED
      BY <1>1, <3>1, <3>2 DEF Unmuted
  <2>4. Unmuted # {} => speaker = Decide(LastSpeaker, HumansSinceLast, muted, payload)
    <3>1. Personas \ muted = Unmuted
      BY DEF Unmuted
    <3>2. EligibleSpeaker(accepted + 1) =
             FirstFrom(IF LastSpeaker = Nobody THEN 0 ELSE After(LastSpeaker),
                       Candidates(LastSpeaker, HumansSinceLast, muted))
      BY <1>1, SameCandidates DEF EligibleSpeaker
    <3>3. QED
      BY <2>1, <3>1, <3>2 DEF Decide, Choice
  <2>5. Unmuted = {} /\ target = Nobody =>
           Decide(LastSpeaker, HumansSinceLast, muted, payload) = Nobody
    BY <2>1 DEF Decide, Unmuted
  <2> HIDE DEF speaker
  <2>6. ScheduleTurn(id, payload) \/ ScheduleSilence(id, payload) =>
           decision'.speaker =
              Decide(LastSpeaker, HumansSinceLast, muted, payload)
    BY <2>2, <2>3, <2>4, <2>5
  <2>7. QED
    BY <2>6 DEF HumansSinceLast, payload
<1>2. DirInv /\ [Next]_vars =>
         [\A target \in Personas \cup {Nobody}, id \in Identities :
             Agree(target, id)]_vars
  BY <1>1
<1>3. QED
  BY <1>2, DirectorInvariant, PTL DEF Spec, AgreesWithRoomService, SameSpeaker

\* A director never reaches a state that it cannot restore, in which its two
\* records of seen events differ, or in which the cooldown silences it.
THEOREM DirectorStaysSound ==
    ASSUME DirectorConstants PROVE Spec => []DirectorSound
<1>1. SnapshotRestores /\ SeenAgrees /\ CooldownNeverSilences => DirectorSound
  BY DEF DirectorSound
<1>2. QED
  BY <1>1, SnapshotsRestore, SeenSetsAgree, CooldownHarmless, PTL

-----------------------------------------------------------------------------
(***************************************************************************)
(* The round robin.  That a scan visits everybody before it comes back is  *)
(* an induction over the stretch of undisturbed turns; it is carried by an *)
(* invariant instead, which says how far each turn of the stretch has come *)
(* since every earlier one.                                                *)
(***************************************************************************)

\* Between places i and j of a stretch of turns, everybody was visited, or
\* everybody up to the speaker at j was and the scan has not come back.
Covered(turns, everybody, i, j) ==
    \/ everybody \subseteq {turns[k] : k \in i .. (j - 1)}
    \/ /\ i < j => turns[i] # turns[j]
       /\ {p \in everybody : Offset(turns[i], p) <= Offset(turns[i], turns[j])}
             \subseteq {turns[k] : k \in i .. j}

Stretch(turns, everybody) ==
    /\ \A i \in DOMAIN turns : turns[i] \in everybody
    /\ \A i, j \in DOMAIN turns : i <= j => Covered(turns, everybody, i, j)

StretchInv ==
    /\ Stretch(recent, Unmuted)
    /\ recent # <<>> => fallbackIndex = After(recent[Len(recent)])

\* One more turn, taken by the first one after the last speaker.
LEMMA StretchGrows ==
    ASSUME NEW U, U \subseteq Personas, NEW turns \in Seq(Personas),
           Stretch(turns, U), NEW n \in U,
           turns # <<>> =>
              \A q \in U : Offset(After(turns[Len(turns)]), n)
                              <= Offset(After(turns[Len(turns)]), q)
    PROVE  Stretch(Append(turns, n), U)
<1> DEFINE longer == Append(turns, n)
           L == Len(turns)
<1>1. /\ L \in Nat /\ DOMAIN turns = 1 .. L
      /\ DOMAIN longer = 1 .. (L + 1)
      /\ \A i \in 1 .. L : longer[i] = turns[i]
      /\ longer[L + 1] = n
  <2>1. n \in Personas
    OBVIOUS
  <2>2. QED
    BY <2>1
<1>2. \A i \in DOMAIN longer : longer[i] \in U
  BY <1>1 DEF Stretch
<1>3. turns # <<>> <=> L > 0
  BY <1>1
<1> HIDE DEF longer, L
<1>4. ASSUME NEW i \in 1 .. L, NEW j \in 1 .. L, i <= j
      PROVE  Covered(longer, U, i, j)
  <2>1. Covered(turns, U, i, j)
    BY <1>1, <1>4 DEF Stretch
  <2>2. /\ {longer[k] : k \in i .. (j - 1)} = {turns[k] : k \in i .. (j - 1)}
        /\ {longer[k] : k \in i .. j} = {turns[k] : k \in i .. j}
        /\ longer[i] = turns[i] /\ longer[j] = turns[j]
    BY <1>1, <1>4
  <2>3. QED
    BY <2>1, <2>2 DEF Covered
<1>5. ASSUME NEW i \in 1 .. L PROVE Covered(longer, U, i, L + 1)
  <2> DEFINE a == turns[i]
             b == turns[L]
             before == {turns[k] : k \in i .. (L - 1)}
             soFar == {turns[k] : k \in i .. L}
  <2>1. L \in 1 .. L /\ i <= L /\ L > 0
    BY <1>1
  <2>2. a \in U /\ b \in U
    BY <1>1, <2>1 DEF Stretch
  <2>3. \A q \in U : Offset(After(b), n) <= Offset(After(b), q)
    BY <1>1, <1>3, <2>1 DEF L
  <2>4. Covered(turns, U, i, L)
    BY <1>1, <2>1 DEF Stretch
  <2>5. /\ {longer[k] : k \in i .. ((L + 1) - 1)} = soFar
        /\ {longer[k] : k \in i .. (L + 1)} = soFar \cup {n}
        /\ longer[i] = a /\ longer[L + 1] = n
        /\ before \subseteq soFar /\ b \in soFar
    <3>1. (L + 1) - 1 = L /\ i .. (L + 1) = (i .. L) \cup {L + 1}
      BY <1>1, <2>1
    <3>2. \A k \in i .. L : longer[k] = turns[k]
      BY <1>1
    <3>3. i .. (L - 1) \subseteq i .. L /\ L \in i .. L
      BY <1>1, <2>1
    <3>4. QED
      BY <1>1, <3>1, <3>2, <3>3
  <2> HIDE DEF a, b, before, soFar
  <2>6. CASE U \subseteq before
    BY <2>5, <2>6 DEF Covered
  <2>7. CASE ~ U \subseteq before
    <3>1. \A p \in U : Offset(a, p) <= Offset(a, b) => p \in soFar
      BY <2>4, <2>7 DEF Covered, a, b, before, soFar
    <3>2. \A p \in U :
             /\ n = a => Offset(a, p) <= Offset(a, b)
             /\ n # a /\ Offset(a, p) <= Offset(a, n)
                  => Offset(a, p) <= Offset(a, b) \/ p = n
      BY <2>2, <2>3, NextInOrder
    <3>3. CASE n = a
      BY <2>5, <3>1, <3>2, <3>3 DEF Covered
    <3>4. CASE n # a
      BY <2>5, <3>1, <3>2, <3>4 DEF Covered
    <3>5. QED
      BY <3>3, <3>4
  <2>8. QED
    BY <2>6, <2>7
<1>6. Covered(longer, U, L + 1, L + 1)
  <2>1. ASSUME NEW p \in U, Offset(n, p) <= Offset(n, n) PROVE p = n
    <3>1. p \in Personas /\ n \in Personas
      OBVIOUS
    <3>2. /\ Offset(n, n) = 0
          /\ Offset(n, p) = IF p >= n THEN p - n ELSE p - n + N
          /\ Offset(n, p) \in 0 .. (N - 1)
      BY <3>1, OffsetCases DEF Personas
    <3>3. QED
      BY <2>1, <3>1, <3>2, NAssumption DEF Personas
  <2>2. L + 1 \in (L + 1) .. (L + 1) /\ ~ (L + 1 < L + 1)
    BY <1>1
  <2>3. QED
    BY <1>1, <2>1, <2>2 DEF Covered
<1>7. ASSUME NEW i \in DOMAIN longer, NEW j \in DOMAIN longer, i <= j
      PROVE  Covered(longer, U, i, j)
  <2>1. \/ i \in 1 .. L /\ j \in 1 .. L
        \/ i \in 1 .. L /\ j = L + 1
        \/ i = L + 1 /\ j = L + 1
    BY <1>1, <1>7
  <2>2. QED
    BY <1>4, <1>5, <1>6, <1>7, <2>1
<1>8. QED
  BY <1>2, <1>7 DEF Stretch, longer

\* Forgetting the oldest turn keeps the rest a stretch.
LEMMA StretchForgets ==
    ASSUME NEW U, NEW turns \in Seq(Personas), turns # <<>>, Stretch(turns, U)
    PROVE  Stretch(Tail(turns), U)
<1> DEFINE rest == Tail(turns)
           L == Len(turns)
<1>1. /\ L \in Nat \ {0} /\ DOMAIN turns = 1 .. L
      /\ DOMAIN rest = 1 .. (L - 1)
      /\ \A i \in 1 .. (L - 1) : rest[i] = turns[i + 1]
  OBVIOUS
<1> HIDE DEF rest, L
<1>2. \A i \in DOMAIN rest : rest[i] \in U
  BY <1>1 DEF Stretch
<1>3. ASSUME NEW i \in DOMAIN rest, NEW j \in DOMAIN rest, i <= j
      PROVE  Covered(rest, U, i, j)
  <2>1. /\ i + 1 \in DOMAIN turns /\ j + 1 \in DOMAIN turns /\ i + 1 <= j + 1
        /\ i \in Int /\ j \in Int
    BY <1>1, <1>3
  <2>2. Covered(turns, U, i + 1, j + 1)
    BY <2>1 DEF Stretch
  <2>3. /\ rest[i] = turns[i + 1] /\ rest[j] = turns[j + 1]
        /\ i < j => i + 1 < j + 1
    BY <1>1, <2>1
  <2>4. {turns[k] : k \in (i + 1) .. (j + 1)} \subseteq {rest[k] : k \in i .. j}
    <3>1. ASSUME NEW k \in (i + 1) .. (j + 1)
          PROVE  k - 1 \in i .. j /\ rest[k - 1] = turns[k]
      BY <1>1, <1>3, <3>1
    <3>2. QED
      BY <3>1
  <2>5. {turns[k] : k \in (i + 1) .. ((j + 1) - 1)}
           \subseteq {rest[k] : k \in i .. (j - 1)}
    <3>1. ASSUME NEW k \in (i + 1) .. ((j + 1) - 1)
          PROVE  k - 1 \in i .. (j - 1) /\ rest[k - 1] = turns[k]
      BY <1>1, <1>3, <3>1
    <3>2. QED
      BY <3>1
  <2>6. CASE U \subseteq {turns[k] : k \in (i + 1) .. ((j + 1) - 1)}
    BY <2>5, <2>6 DEF Covered
  <2>7. CASE ~ U \subseteq {turns[k] : k \in (i + 1) .. ((j + 1) - 1)}
    <3>1. /\ i + 1 < j + 1 => turns[i + 1] # turns[j + 1]
          /\ {p \in U : Offset(turns[i + 1], p)
                           <= Offset(turns[i + 1], turns[j + 1])}
                \subseteq {turns[k] : k \in (i + 1) .. (j + 1)}
      BY <2>2, <2>7 DEF Covered
    <3>2. QED
      BY <2>3, <2>4, <3>1 DEF Covered
  <2>8. QED
    BY <2>6, <2>7
<1>4. QED
  BY <1>2, <1>3 DEF Stretch, rest

\* A scan goes on from the last speaker of the stretch: only that one can be
\* tired, and it is the last one the scan would meet.
LEMMA ScanGoesOn ==
    ASSUME DirInv, Unmuted # {}, NEW last \in Unmuted,
           fallbackIndex = After(last)
    PROVE  /\ Choice(accepted + 1, Nobody) \in Unmuted
           /\ \A q \in Unmuted :
                 Offset(After(last), Choice(accepted + 1, Nobody))
                    <= Offset(After(last), q)
<1>1. Unmuted \subseteq Personas
  BY DEF Unmuted
<1>2. /\ accepted \in Nat /\ lastSelectedAt \in [Personas -> Nat]
      /\ fallbackIndex \in Personas
  BY DEF DirInv, TypeOK
<1>3. CASE \E p \in Unmuted : Unmuted = {p}
  <2>1. PICK p \in Unmuted : Unmuted = {p}
    BY <1>3
  <2>2. Choice(accepted + 1, Nobody) = p
    BY <2>1 DEF Choice
  <2>3. Offset(After(last), p) \in Int
    <3>1. last \in Personas /\ p \in Personas
      BY <1>1
    <3>2. After(last) \in Personas
      BY <3>1, OffsetCases
    <3>3. Offset(After(last), p) \in 0 .. (N - 1)
      BY <3>1, <3>2, OffsetCases
    <3>4. QED
      BY <3>3
  <2>4. QED
    BY <2>1, <2>2, <2>3
<1>4. CASE ~ \E p \in Unmuted : Unmuted = {p}
  <2> DEFINE rested == {p \in Unmuted : Rested(p, accepted + 1)}
             n == Choice(accepted + 1, Nobody)
  <2>1. n = FirstFrom(fallbackIndex, rested)
    BY <1>4 DEF Choice, EligibleSpeaker
  <2>2. EligibleSpeaker(accepted + 1) \in Unmuted
    BY <1>4, SomeoneRested
  <2>3. rested # {} /\ rested \subseteq Personas
    <3>1. rested = {} => EligibleSpeaker(accepted + 1) = Nobody
      BY DEF EligibleSpeaker, FirstFrom
    <3>2. QED
      BY <1>1, <2>2, <3>1, NobodyIsNone
  <2>4. fallbackIndex \in Int
    BY <1>2 DEF Personas
  <2> HIDE DEF rested, n
  <2>5. /\ n \in rested
        /\ \A q \in rested : Offset(fallbackIndex, n) <= Offset(fallbackIndex, q)
    BY <2>1, <2>3, <2>4, FirstFromMember
  <2>6. ASSUME NEW q \in Unmuted, q \notin rested PROVE q = last
    <3>1. q \in Personas /\ last \in Personas
      BY <1>1
    <3>2. lastSelectedAt[q] # 0 /\ lastSelectedAt[q] = accepted
      BY <2>6, <3>1, OnlyLatestTired DEF rested
    <3>3. IsLatest(q)
      BY <3>1, <3>2 DEF IsLatest, Selected, DirInv, SelectionRestores
    <3>4. After(q) = After(last)
      BY <3>3 DEF DirInv, SelectionRestores, IsLatest
    <3>5. QED
      BY <3>1, <3>4, AfterInjective
  <2>7. ASSUME NEW q \in Unmuted
        PROVE  Offset(After(last), n) <= Offset(After(last), q)
    <3>1. CASE q \in rested
      BY <2>5, <3>1
    <3>2. CASE q \notin rested
      <4>1. q = last
        BY <2>6, <3>2
      <4>2. n \in Personas /\ last \in Personas
        BY <1>1, <2>3, <2>5
      <4>3. After(last) \in Personas
            /\ After(last) = IF last = N - 1 THEN 0 ELSE last + 1
        BY <4>2, OffsetCases
      <4>4. /\ Offset(After(last), n) \in 0 .. (N - 1)
            /\ Offset(After(last), last) =
                  IF last >= After(last) THEN last - After(last)
                                         ELSE last - After(last) + N
        BY <4>2, <4>3, OffsetCases
      <4>5. Offset(After(last), last) = N - 1
        BY <4>2, <4>3, <4>4, NAssumption DEF Personas
      <4>6. QED
        BY <4>1, <4>4, <4>5, NAssumption
    <3>3. QED
      BY <3>1, <3>2
  <2>8. QED
    BY <2>5, <2>7 DEF rested, n
<1>5. QED
  BY <1>3, <1>4

LEMMA StretchStep == DirInv /\ StretchInv /\ [Next]_vars => StretchInv'
<1> SUFFICES ASSUME DirInv, StretchInv, [Next]_vars PROVE StretchInv'
  OBVIOUS
<1>1. CASE UNCHANGED <<muted, recent, fallbackIndex>>
  BY <1>1 DEF StretchInv, Unmuted
<1>2. CASE recent' = <<>>
  BY <1>2 DEF StretchInv, Stretch
<1>3. ASSUME NEW id \in Identities, NEW wants \in BOOLEAN,
             NEW target \in Personas \cup {Nobody},
             ScheduleTurn(id, [wants |-> wants, target |-> target]),
             recent' # <<>>
      PROVE  StretchInv'
  <2> DEFINE payload == [wants |-> wants, target |-> target]
             n == Choice(accepted + 1, Nobody)
             longer == Append(recent, n)
  <2>0. payload.target = target
    OBVIOUS
  <2> HIDE DEF payload
  <2>00. ScheduleTurn(id, payload)
    BY <1>3 DEF payload
  <2>1. /\ target = Nobody /\ Unmuted # {} /\ n # Nobody
        /\ recent' = Remember(n) /\ fallbackIndex' = After(n)
        /\ muted' = muted
    BY <1>3, <2>0, <2>00 DEF ScheduleTurn, FallbackAfter
  <2>2. recent \in Seq(Personas) /\ Unmuted \subseteq Personas
    BY DEF DirInv, TypeOK, Unmuted
  <2>3. recent # <<>> =>
           /\ recent[Len(recent)] \in Unmuted
           /\ fallbackIndex = After(recent[Len(recent)])
    <3>1. recent # <<>> => Len(recent) \in DOMAIN recent
      BY <2>2
    <3>2. QED
      BY <3>1 DEF StretchInv, Stretch
  <2>4. n \in Unmuted
    <3>1. CASE \E p \in Unmuted : Unmuted = {p}
      BY <3>1 DEF Choice
    <3>2. CASE ~ \E p \in Unmuted : Unmuted = {p}
      <4>1. n = EligibleSpeaker(accepted + 1)
        BY <3>2 DEF Choice
      <4>2. QED
        BY <2>1, <3>2, <4>1, SomeoneRested
    <3>3. QED
      BY <3>1, <3>2
  <2>5. recent # <<>> =>
           \A q \in Unmuted : Offset(After(recent[Len(recent)]), n)
                                 <= Offset(After(recent[Len(recent)]), q)
    BY <2>1, <2>3, ScanGoesOn
  <2> HIDE DEF n
  <2>6. Stretch(longer, Unmuted)
    BY <2>2, <2>4, <2>5, StretchGrows DEF StretchInv
  <2>7. /\ longer \in Seq(Personas) /\ longer # <<>>
        /\ Len(longer) = Len(recent) + 1 /\ Len(recent) \in Nat
        /\ longer[Len(longer)] = n
    <3>1. n \in Personas
      BY <2>2, <2>4
    <3>2. QED
      BY <2>2, <3>1
  <2>8. recent' = IF Len(longer) > N THEN Tail(longer) ELSE longer
    BY <2>1 DEF Remember
  <2> HIDE DEF longer
  <2>9. Stretch(recent', Unmuted)
    BY <2>6, <2>7, <2>8, StretchForgets
  <2>10. recent'[Len(recent')] = n
    <3>1. CASE Len(longer) > N
      <4>1. Len(longer) >= 2
        BY <2>7, <3>1, NAssumption
      <4>2. /\ Len(Tail(longer)) = Len(longer) - 1
            /\ Tail(longer)[Len(longer) - 1] = longer[Len(longer)]
        BY <2>7, <4>1
      <4>3. QED
        BY <2>7, <2>8, <3>1, <4>2
    <3>2. CASE ~ Len(longer) > N
      BY <2>7, <2>8, <3>2
    <3>3. QED
      BY <3>1, <3>2
  <2>11. Unmuted' = Unmuted
    BY <2>1 DEF Unmuted
  <2>12. QED
    BY <2>1, <2>9, <2>10, <2>11 DEF StretchInv
<1>4. ASSUME NEW id \in Identities, NEW kind \in Kinds, ScheduleRefused(id, kind)
      PROVE  StretchInv'
  BY <1>1, <1>4 DEF ScheduleRefused, turn
<1>5. ASSUME NEW id \in Identities, NEW target \in Personas \cup {Nobody},
             ScheduleNonHuman(id, target)
      PROVE  StretchInv'
  BY <1>1, <1>5 DEF ScheduleNonHuman, turn
<1>6. ASSUME NEW id \in Identities, NEW payload, ScheduleSilence(id, payload)
      PROVE  StretchInv'
  BY <1>1, <1>6 DEF ScheduleSilence, turn
<1>7. ASSUME NEW persona \in Personas, NEW mute \in BOOLEAN,
             SetMuted(persona, mute)
      PROVE  StretchInv'
  BY <1>1, <1>2, <1>7 DEF SetMuted, turn
<1>8. CASE Cancel
  BY <1>1, <1>8 DEF Cancel, turn
<1>9. ASSUME NEW mutes \in SUBSET Personas, Reload(mutes)
      PROVE  StretchInv'
  BY <1>1, <1>2, <1>9 DEF Reload, turn
<1>10. CASE UNCHANGED vars
  BY <1>1, <1>10 DEF vars
<1>11. QED
  BY <1>2, <1>3, <1>4, <1>5, <1>6, <1>7, <1>8, <1>9, <1>10 DEF Next

\* In a stretch of turns that nothing disturbs, everybody who is not muted
\* speaks before anybody speaks again (#deterministicEligibleSpeaker and
\* #fallbackIndex), for every roster.
THEOREM TurnsGoRound ==
    ASSUME DirectorConstants PROVE Spec => []RoundRobin
<1>1. Init => StretchInv
  BY DEF Init, StretchInv, Stretch
<1>2. DirInv /\ StretchInv /\ [Next]_vars => StretchInv'
  BY StretchStep
<1>3. StretchInv => RoundRobin
  BY DEF StretchInv, Stretch, Covered, RoundRobin
<1>4. QED
  BY <1>1, <1>2, <1>3, DirectorInvariant, PTL DEF Spec
=============================================================================
