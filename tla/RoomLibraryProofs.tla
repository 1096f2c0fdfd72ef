-------------------------- MODULE RoomLibraryProofs --------------------------
(***************************************************************************)
(* The room library, for any set of rooms, ids, limit and bound on the     *)
(* selections: its types, what its ledgers say of the selection, that a    *)
(* repeated command has one outcome, and that it implements RoomAuthority. *)
(* After it the rooms of the iPhone application, which keep their drafts   *)
(* and transcripts apart.                                                  *)
(***************************************************************************)
EXTENDS RoomLibrary, SequenceTheorems, FiniteSetTheorems, TLAPS

\* The sequence without one of its positions.
LEMMA OmitProperties ==
    ASSUME NEW S, NEW s \in Seq(S), NEW i \in 1..Len(s)
    PROVE  /\ Omit(s, i) \in Seq(S) /\ Len(Omit(s, i)) = Len(s) - 1
           /\ \A j \in 1..Len(s) - 1 :
                 Omit(s, i)[j] = IF j < i THEN s[j] ELSE s[j + 1]
<1> DEFINE a == SubSeq(s, 1, i - 1)
           b == SubSeq(s, i + 1, Len(s))
<1>1. Len(s) \in Nat /\ \A j \in 1..Len(s) : s[j] \in S
  BY LenProperties, ElementOfSeq
<1>2. /\ a \in Seq(S) /\ Len(a) = i - 1
      /\ \A j \in 1..i - 1 : a[j] = s[j]
  BY <1>1, SubSeqProperties
<1>3. /\ b \in Seq(S) /\ Len(b) = Len(s) - i
      /\ \A j \in 1..Len(s) - i : b[j] = s[i + j]
  BY <1>1, SubSeqProperties
<1> HIDE DEF a, b
<1>4. /\ a \o b \in Seq(S) /\ Len(a \o b) = Len(a) + Len(b)
      /\ \A j \in 1..Len(a) + Len(b) :
            (a \o b)[j] = IF j <= Len(a) THEN a[j] ELSE b[j - Len(a)]
  BY <1>2, <1>3, ConcatProperties, Zenon
<1> DEFINE c == a \o b
<1>5. /\ c \in Seq(S) /\ Len(c) = Len(s) - 1
      /\ \A j \in 1..Len(s) - 1 : c[j] = IF j <= i - 1 THEN a[j] ELSE b[j - (i - 1)]
  BY <1>1, <1>2, <1>3, <1>4
<1>6. c = Omit(s, i)
  BY DEF Omit, a, b
<1> HIDE DEF c
<1>7. ASSUME NEW j \in 1..Len(s) - 1
      PROVE  c[j] = IF j < i THEN s[j] ELSE s[j + 1]
  <2>1. CASE j < i
    BY <2>1, <1>1, <1>2, <1>5
  <2>2. CASE ~(j < i)
    <3>0. ~(j <= i - 1)
      BY <2>2
    <3>1. c[j] = b[j - (i - 1)]
      <4>1. c[j] = IF j <= i - 1 THEN a[j] ELSE b[j - (i - 1)]
        BY <1>5
      <4> QED BY <3>0, <4>1, Zenon
    <3>2. j - (i - 1) \in 1..Len(s) - i /\ i + (j - (i - 1)) = j + 1
      BY <2>2, <1>1
    <3>3. b[j - (i - 1)] = s[i + (j - (i - 1))]
      BY <3>2, <1>3
    <3> QED BY <2>2, <3>1, <3>2, <3>3
  <2> QED BY <2>1, <2>2
<1>8. \A j \in 1..Len(s) - 1 : c[j] = IF j < i THEN s[j] ELSE s[j + 1]
  BY <1>7
<1> QED BY <1>5, <1>6, <1>8, Zenon

\* The room of an event moves to the end of the library: no room is lost,
\* none comes in twice.
LEMMA MoveToEnd ==
    ASSUME NEW S, NEW s \in Seq(S), IsInjective(s), NEW i \in 1..Len(s), NEW t,
           t = Append(Omit(s, i), s[i])
    PROVE  t \in Seq(S) /\ IsInjective(t) /\ Len(t) = Len(s) /\ ToSet(t) = ToSet(s)
<1>1. Len(s) \in Nat /\ DOMAIN s = 1..Len(s) /\ \A j \in 1..Len(s) : s[j] \in S
  BY LenProperties, ElementOfSeq
<1>0. PICK n \in Nat : n = Len(s)
  BY <1>1
<1>2. PICK o \in Seq(S) :
      /\ o = Omit(s, i) /\ Len(o) = n - 1
      /\ \A j \in 1..n - 1 : o[j] = IF j < i THEN s[j] ELSE s[j + 1]
  BY <1>0, OmitProperties
<1>3. /\ t \in Seq(S) /\ Len(t) = n /\ DOMAIN t = 1..n
      /\ \A j \in 1..n - 1 : t[j] = o[j]
      /\ t[n] = s[i]
  <2>1. t = Append(o, s[i]) /\ s[i] \in S
    BY <1>1, <1>2
  <2>2. /\ t \in Seq(S) /\ Len(t) = Len(o) + 1
        /\ \A j \in 1..Len(o) : t[j] = o[j]
        /\ t[Len(o) + 1] = s[i]
    BY <2>1, AppendProperties
  <2>3. DOMAIN t = 1..Len(t)
    BY <2>2, LenProperties
  <2> QED BY <1>2, <2>2, <2>3
<1>4. i \in 1..n /\ 1..n = 1..Len(s)
  BY <1>0
<1> DEFINE at(j) == IF j = n THEN i ELSE IF j < i THEN j ELSE j + 1
<1>5. ASSUME NEW j \in 1..n
      PROVE  at(j) \in 1..n /\ t[j] = s[at(j)]
  BY <1>2, <1>3, <1>4
<1>6. ASSUME NEW j \in 1..n, NEW k \in 1..n, at(j) = at(k)
      PROVE  j = k
  BY <1>4, <1>6
<1>7. ASSUME NEW k \in 1..n
      PROVE  \E j \in 1..n : at(j) = k
  <2>1. CASE k = i
    <3>1. n \in 1..n /\ at(n) = k
      BY <2>1, <1>4
    <3> QED BY <3>1
  <2>2. CASE k < i
    <3>1. k \in 1..n /\ at(k) = k
      BY <2>2, <1>4
    <3> QED BY <3>1
  <2>3. CASE k > i
    <3>1. k - 1 \in 1..n /\ at(k - 1) = k
      BY <2>3, <1>4
    <3> QED BY <3>1
  <2> QED BY <2>1, <2>2, <2>3, <1>4
<1> HIDE DEF at
<1>8. IsInjective(t)
  <2>1. \A j, k \in 1..n : s[j] = s[k] => j = k
    BY <1>1, <1>4 DEF IsInjective
  <2>2. ASSUME NEW j \in 1..n, NEW k \in 1..n, t[j] = t[k]
        PROVE  j = k
    BY <2>1, <2>2, <1>5, <1>6
  <2> QED BY <2>2, <1>3 DEF IsInjective
<1>9. ToSet(t) = ToSet(s)
  <2>1. ToSet(t) = {t[j] : j \in 1..n} /\ ToSet(s) = {s[j] : j \in 1..n}
    BY <1>1, <1>3, <1>4 DEF ToSet
  <2>2. \A e \in ToSet(t) : e \in ToSet(s)
    BY <2>1, <1>5
  <2>3. \A e \in ToSet(s) : e \in ToSet(t)
    <3> TAKE e \in ToSet(s)
    <3>1. PICK k \in 1..n : e = s[k]
      BY <2>1
    <3>2. PICK j \in 1..n : at(j) = k
      BY <1>7
    <3> QED BY <3>1, <3>2, <1>5, <2>1
  <2> QED BY <2>2, <2>3
<1> QED BY <1>0, <1>3, <1>8, <1>9

\* A new room is the last of the library.
LEMMA NewAtEnd ==
    ASSUME NEW S, NEW s \in Seq(S), NEW r \in S, NEW t,
           IsInjective(s), r \notin ToSet(s), t = Append(s, r)
    PROVE  /\ t \in Seq(S) /\ IsInjective(t) /\ Len(t) = Len(s) + 1
           /\ \A e : e \in ToSet(t) <=> e \in ToSet(s) \/ e = r
<1>1. Len(s) \in Nat /\ DOMAIN s = 1..Len(s)
  BY LenProperties
<1>2. /\ t \in Seq(S) /\ Len(t) = Len(s) + 1 /\ DOMAIN t = 1..Len(s) + 1
      /\ \A j \in 1..Len(s) : t[j] = s[j]
      /\ t[Len(s) + 1] = r
  BY AppendProperties, LenProperties
<1>3. \A j \in 1..Len(s) : s[j] # r
  BY <1>1 DEF ToSet
<1>4. \A j \in 1..Len(s) + 1 : j \in 1..Len(s) \/ j = Len(s) + 1
  BY <1>1
<1>5. IsInjective(t)
  BY <1>1, <1>2, <1>3, <1>4 DEF IsInjective
<1>6. \A e : e \in ToSet(t) <=> e \in ToSet(s) \/ e = r
  <2>1. \A e \in ToSet(t) : e \in ToSet(s) \cup {r}
    BY <1>1, <1>2, <1>4 DEF ToSet
  <2>2. \A e \in ToSet(s) \cup {r} : e \in ToSet(t)
    BY <1>1, <1>2, <1>4 DEF ToSet
  <2> QED BY <2>1, <2>2
<1> QED BY <1>2, <1>5, <1>6

-----------------------------------------------------------------------------
(* The inductive invariant.                                                *)

\* The ledgers: one entry per revision, the last names the selection.
LedgerInv ==
    /\ IsFiniteSet(Accepted) /\ Cardinality(Accepted) = revision
    /\ {a.result.revision : a \in Accepted} = 1..revision
    /\ \A a, b \in Accepted : a.result.revision = b.result.revision => a = b
    /\ selected = SelectedAt(revision)

\* The command that was watched is in its ledger and was told its entry's
\* result, or it is not and was refused; and a refusal without an entry is one
\* that nothing can take back: the revision it names is over, or there is no
\* room for another room.
OwnEntry == Prior(watched) # None /\ Prior(watched).of = watched
OneOutcome ==
    /\ OwnEntry => told \subseteq {Prior(watched).result}
    /\ ~OwnEntry => told \subseteq {Refused}
    /\ Refused \in told /\ Prior(watched) = None =>
          watched.expected < revision \/ (watched.kind = "cast" /\ Len(library) >= Limit)

IInv == TypeOK /\ LedgerInv /\ OneOutcome /\ Len(library) <= Limit

-----------------------------------------------------------------------------
(* Operators.                                                              *)

\* A key of the ledgers, and what is found under it.
LEMMA KeyType ==
    ASSUME TypeOK, NEW c \in Commands
    PROVE  Key(c) \in Kinds \X Ids /\ Prior(c) \in Entries \cup {None}
BY DEF TypeOK, Commands, Key, Prior

\* No accepted result is a refusal.
LEMMA ResultsAccept ==
    ASSUME RoomLibraryConstants
    PROVE  Refused \notin Results
BY DEF RoomLibraryConstants, Results, Refused

\* What the ledgers hold.
LEMMA AcceptedType ==
    ASSUME TypeOK
    PROVE  Accepted \subseteq Entries
BY DEF TypeOK, Accepted

\* The selection at a revision is the room of its entry.
LEMMA SelectedAtEntry ==
    ASSUME LedgerInv, revision \in Nat, NEW a \in Accepted, NEW n \in Nat \ {0}, a.result.revision = n
    PROVE  SelectedAt(n) = a.result.room
<1> DEFINE b == CHOOSE b \in Accepted : b.result.revision = n
<1>1. b \in Accepted /\ b.result.revision = n
  OBVIOUS
<1>2. b = a
  BY <1>1 DEF LedgerInv
<1> QED BY <1>2 DEF SelectedAt

\* An accepted command adds one entry to the ledgers: that of its id, for
\* the next revision.
LEMMA CommitAdds ==
    ASSUME RoomLibraryConstants, TypeOK, LedgerInv,
           NEW c \in Commands, NEW r \in Rooms, Prior(c) = None, Commit(c, r),
           NEW e, e = [of |-> c, result |-> [room |-> r, revision |-> revision + 1]]
    PROVE  /\ e \in Entries /\ e \notin Accepted /\ e.result \in Results
           /\ e.of = c /\ e.result.revision = revision + 1 /\ e.result.room = r
           /\ ledger' = [ledger EXCEPT ![Key(c)] = e]
           /\ Accepted' = Accepted \cup {e}
<1>1. revision \in 0..MaxRevision /\ revision < MaxRevision /\ MaxRevision \in Nat
  BY DEF RoomLibraryConstants, TypeOK, Commit
<1>2. [room |-> r, revision |-> revision + 1] \in Results
  BY <1>1 DEF Results
<1>3. e \in Entries /\ e.result \in Results /\ e.of = c /\ e.result.revision = revision + 1 /\ e.result.room = r
  BY <1>2 DEF Entries
<1>4. e \notin Accepted
  <2>1. ASSUME e \in Accepted
        PROVE  FALSE
    <3>1. e.result.revision \in 1..revision
      BY <2>1 DEF LedgerInv
    <3> QED BY <3>1, <1>1, <1>3
  <2> QED BY <2>1
<1>5. ledger' = [ledger EXCEPT ![Key(c)] = e]
  BY DEF Commit
<1>6. Accepted' = Accepted \cup {e}
  <2> DEFINE K == Kinds \X Ids
  <2>1. /\ Key(c) \in K /\ DOMAIN ledger = K /\ DOMAIN ledger' = K
        /\ ledger'[Key(c)] = e /\ \A k \in K : k # Key(c) => ledger'[k] = ledger[k]
        /\ ledger[Key(c)] = None
    BY <1>5, KeyType DEF TypeOK, Prior
  <2> HIDE DEF K
  <2>2. e # None
    BY <1>3 DEF RoomLibraryConstants
  <2>3. \A a : a \in Accepted' <=> \E k \in K : a = ledger'[k] /\ a # None
    BY <2>1 DEF Accepted
  <2>4. \A a : a \in Accepted <=> \E k \in K : a = ledger[k] /\ a # None
    BY <2>1 DEF Accepted
  <2>5. \A a : a \in Accepted' => a \in Accepted \cup {e}
    BY <2>1, <2>3, <2>4
  <2>6. \A a \in Accepted : a \in Accepted'
    BY <2>1, <2>3, <2>4
  <2>7. e \in Accepted'
    BY <2>1, <2>2, <2>3
  <2> QED BY <2>5, <2>6, <2>7
<1> QED BY <1>3, <1>4, <1>5, <1>6

\* So the selections it does not make stay what they were.
LEMMA CommitSelects ==
    ASSUME RoomLibraryConstants, TypeOK, LedgerInv,
           NEW c \in Commands, NEW r \in Rooms, Prior(c) = None, Commit(c, r)
    PROVE  /\ LedgerInv'
           /\ \A n \in 0..revision : SelectedAt(n)' = SelectedAt(n)
           /\ SelectedAt(revision)' = r /\ revision' = revision + 1
<1>1. PICK e : e = [of |-> c, result |-> [room |-> r, revision |-> revision + 1]]
  OBVIOUS
<1>2. /\ e \in Entries /\ e \notin Accepted /\ e.result \in Results
      /\ e.of = c /\ e.result.revision = revision + 1 /\ e.result.room = r
      /\ ledger' = [ledger EXCEPT ![Key(c)] = e]
      /\ Accepted' = Accepted \cup {e}
  BY <1>1, CommitAdds
<1>3. revision \in Nat /\ revision' = revision + 1 /\ selected' = r
  BY DEF TypeOK, Commit, RoomLibraryConstants
<1>4. IsFiniteSet(Accepted') /\ Cardinality(Accepted') = revision'
  BY <1>2, <1>3, FS_AddElement DEF LedgerInv
<1>5. {a.result.revision : a \in Accepted'} = 1..revision'
  <2>1. \A n : n \in 1..revision' <=> n \in 1..revision \/ n = revision + 1
    BY <1>3
  <2> QED BY <1>2, <2>1 DEF LedgerInv
<1>6. \A a, b \in Accepted' : a.result.revision = b.result.revision => a = b
  <2>1. \A a \in Accepted : a.result.revision \in 1..revision
    BY DEF LedgerInv
  <2>2. \A a \in Accepted : a.result.revision # revision + 1
    BY <2>1, <1>3
  <2> QED BY <1>2, <2>2 DEF LedgerInv
<1>7. ASSUME NEW n \in 1..revision + 1
      PROVE  SelectedAt(n)' = IF n = revision + 1 THEN r ELSE SelectedAt(n)
  <2>1. PICK a \in Accepted' : a.result.revision = n
    BY <1>3, <1>5
  <2>2. SelectedAt(n)' = a.result.room
    <3> DEFINE b == CHOOSE b \in Accepted' : b.result.revision = n
    <3>1. b \in Accepted' /\ b.result.revision = n
      BY <2>1
    <3>2. b = a
      BY <3>1, <2>1, <1>6
    <3>3. n # 0
      BY <1>3
    <3> QED BY <3>2, <3>3 DEF SelectedAt
  <2>3. CASE n = revision + 1
    BY <2>1, <2>2, <2>3, <1>2, <1>6
  <2>4. CASE n # revision + 1
    <3>1. a \in Accepted /\ n \in Nat \ {0}
      BY <2>1, <2>4, <1>2, <1>3
    <3>2. SelectedAt(n) = a.result.room
      BY <3>1, <2>1, <1>3, SelectedAtEntry
    <3> QED BY <2>2, <2>4, <3>2
  <2> QED BY <2>3, <2>4
<1>8. SelectedAt(0)' = SelectedAt(0)
  BY DEF SelectedAt
<1>9. SelectedAt(revision)' = r
  <2>1. PICK m : m = revision'
    OBVIOUS
  <2>2. m \in 1..revision + 1 /\ m = revision + 1
    BY <1>3, <2>1
  <2>3. SelectedAt(m)' = r
    BY <1>7, <2>2
  <2> QED BY <2>1, <2>3 DEF SelectedAt
<1>10. \A n \in 0..revision : SelectedAt(n)' = SelectedAt(n)
  <2> TAKE n \in 0..revision
  <2>1. CASE n = 0
    BY <2>1, <1>8
  <2>2. CASE n # 0
    BY <2>2, <1>3, <1>7
  <2> QED BY <2>1, <2>2
<1>11. LedgerInv'
  BY <1>3, <1>4, <1>5, <1>6, <1>9 DEF LedgerInv
<1> QED BY <1>3, <1>9, <1>10, <1>11

-----------------------------------------------------------------------------
(* The actions preserve the invariant.                                     *)

\* The library begins with one room and empty ledgers.
LEMMA InitInv ==
    ASSUME RoomLibraryConstants, Init
    PROVE  IInv
<1>1. TypeOK
  <2>1. library \in Seq(Rooms) /\ IsInjective(library) /\ selected \in ToSet(library)
    BY DEF Init, RoomLibraryConstants, IsInjective, ToSet
  <2>2. revision \in 0..MaxRevision /\ watched \in Commands /\ told = {}
    BY DEF Init, RoomLibraryConstants
  <2>3. ledger \in [Kinds \X Ids -> Entries \cup {None}]
    BY DEF Init
  <2> QED BY <2>1, <2>2, <2>3 DEF TypeOK
<1>2. Accepted = {}
  BY DEF Accepted, Init
<1>3. LedgerInv
  <2>1. IsFiniteSet({}) /\ Cardinality({}) = 0
    BY FS_EmptySet
  <2>2. {a.result.revision : a \in {}} = 1..0
    OBVIOUS
  <2> QED BY <1>2, <2>1, <2>2 DEF LedgerInv, Init, SelectedAt
<1>4. OneOutcome
  BY DEF Init, OneOutcome
<1>5. Len(library) <= Limit
  BY DEF Init, RoomLibraryConstants
<1> QED BY <1>1, <1>3, <1>4, <1>5 DEF IInv

\* What depends on the ledgers alone.
LEMMA LedgersKept ==
    ASSUME LedgerInv, UNCHANGED <<selected, revision, ledger>>
    PROVE  LedgerInv' /\ Selections' = Selections
<1>1. Accepted' = Accepted
  BY DEF Accepted
<1>2. \A n : SelectedAt(n)' = SelectedAt(n)
  BY <1>1 DEF SelectedAt
<1>3. SelectedAt(revision)' = SelectedAt(revision)
  BY <1>1 DEF SelectedAt
<1>4. LedgerInv'
  BY <1>1, <1>3 DEF LedgerInv
<1>5. Selections' = Selections
  BY <1>1 DEF Selections, SelectedAt
<1> QED BY <1>4, <1>5

\* A command found under its id changes nothing and is answered as before.
LEMMA ReplayStep ==
    ASSUME RoomLibraryConstants, IInv, NEW c \in Commands, Replay(c)
    PROVE  IInv'
<1> USE DEF IInv
<1>1. PICK a : /\ a = (IF Prior(c).of = c THEN Prior(c).result ELSE Refused)
               /\ told' = IF c = watched THEN told \cup {a} ELSE told
  BY DEF Replay, Answer
<1>2. a \in Results \cup {Refused}
  BY <1>1, KeyType DEF Replay, Entries
<1>3. TypeOK'
  BY <1>1, <1>2 DEF TypeOK, Replay, Answer
<1>4. LedgerInv'
  BY LedgersKept DEF Replay
<1>5. OneOutcome'
  <2>1. UNCHANGED <<library, revision, ledger, watched>> /\ Prior(c) # None
    BY DEF Replay, Answer
  <2>2. Prior(watched)' = Prior(watched) /\ OwnEntry' = OwnEntry
    BY <2>1 DEF Prior, OwnEntry, Key
  <2>3. CASE c = watched
    <3>1. told' = told \cup {a} /\ a = IF OwnEntry THEN Prior(watched).result ELSE Refused
      BY <1>1, <2>1, <2>3 DEF OwnEntry
    <3> QED BY <2>1, <2>2, <2>3, <3>1 DEF OneOutcome
  <2>4. CASE c # watched
    BY <2>1, <2>2, <2>4, <1>1 DEF OneOutcome
  <2> QED BY <2>3, <2>4
<1> QED BY <1>3, <1>4, <1>5 DEF Replay

\* A refusal changes nothing, and no later step makes it untrue.
LEMMA RefuseStep ==
    ASSUME RoomLibraryConstants, IInv, NEW c \in Commands, Refuse(c), Prior(c) = None,
           c.expected < revision \/ (c.kind = "cast" /\ Len(library) >= Limit)
    PROVE  IInv'
<1> USE DEF IInv
<1>1. /\ UNCHANGED <<library, selected, revision, ledger, watched>>
      /\ told' = IF c = watched THEN told \cup {Refused} ELSE told
  BY DEF Refuse, Answer
<1>2. TypeOK' /\ LedgerInv'
  BY <1>1, LedgersKept DEF TypeOK
<1>3. OneOutcome'
  <2>1. Prior(watched)' = Prior(watched) /\ OwnEntry' = OwnEntry
    BY <1>1 DEF Prior, OwnEntry, Key
  <2>2. c = watched => ~OwnEntry
    BY DEF OwnEntry
  <2> QED BY <1>1, <2>1, <2>2 DEF OneOutcome
<1> QED BY <1>1, <1>2, <1>3

\* What an accepted command does to the ledgers and to what was told.
LEMMA CommitStep ==
    ASSUME RoomLibraryConstants, IInv, NEW c \in Commands, NEW r \in Rooms,
           Prior(c) = None, c.expected = revision, Commit(c, r),
           c.kind = "cast" => Len(library) < Limit,
           Len(library) \in Nat, Len(library') \in Nat, Len(library') >= Len(library)
    PROVE  /\ LedgerInv' /\ OneOutcome'
           /\ revision' \in 0..MaxRevision /\ selected' = r
           /\ ledger' \in [Kinds \X Ids -> Entries \cup {None}]
           /\ watched' \in Commands /\ told' \subseteq Results \cup {Refused}
<1> USE DEF IInv
<1>1. PICK e : e = [of |-> c, result |-> [room |-> r, revision |-> revision + 1]]
  OBVIOUS
<1>2. /\ e \in Entries /\ e \notin Accepted /\ e.result \in Results
      /\ e.of = c /\ e.result.revision = revision + 1 /\ e.result.room = r
      /\ ledger' = [ledger EXCEPT ![Key(c)] = e]
  BY <1>1, CommitAdds
<1>3. /\ revision < MaxRevision /\ revision' = revision + 1 /\ selected' = r /\ watched' = watched
      /\ told' = IF c = watched THEN told \cup {e.result} ELSE told
  BY <1>1 DEF Commit, Answer
<1>4. LedgerInv'
  BY CommitSelects
<1>5. revision \in Nat /\ revision' \in 0..MaxRevision
  BY <1>3 DEF TypeOK, RoomLibraryConstants
<1>6. ledger' \in [Kinds \X Ids -> Entries \cup {None}]
  BY <1>2 DEF TypeOK
<1>7. told' \subseteq Results \cup {Refused} /\ watched' \in Commands
  BY <1>2, <1>3 DEF TypeOK
<1>8. OneOutcome'
  <2>0. watched \in Commands /\ Key(watched) \in Kinds \X Ids /\ Key(c) \in Kinds \X Ids
    BY KeyType DEF TypeOK
  <2>1. Prior(watched)' = IF Key(watched) = Key(c) THEN e ELSE Prior(watched)
    BY <1>2, <1>3, <2>0 DEF Prior, Key, TypeOK
  <2>2. e # None
    BY <1>2 DEF RoomLibraryConstants
  <2>3. CASE c = watched
    <3>1. OwnEntry' /\ Prior(watched)' = e /\ told' = told \cup {e.result}
      BY <1>2, <1>3, <2>1, <2>2, <2>3 DEF OwnEntry
    <3>2. Refused \notin told
      BY <2>3, <1>5 DEF OneOutcome, RoomLibraryConstants
    <3>3. told = {}
      BY <2>3, <3>2 DEF OneOutcome, OwnEntry
    <3> QED BY <3>1, <3>3, <2>2 DEF OneOutcome
  <2>4. CASE c # watched /\ Key(watched) = Key(c)
    <3>1. Prior(watched)' = e /\ ~OwnEntry' /\ ~OwnEntry /\ told' = told
      BY <1>2, <1>3, <2>1, <2>4 DEF OwnEntry, Prior
    <3> QED BY <3>1, <2>2 DEF OneOutcome
  <2>5. CASE Key(watched) # Key(c)
    <3>1. c # watched
      BY <2>5
    <3>2. Prior(watched)' = Prior(watched) /\ OwnEntry' = OwnEntry /\ told' = told
      BY <1>3, <2>1, <2>5, <3>1 DEF OwnEntry
    <3>3. watched.expected \in Nat
      BY <2>0 DEF Commands
    <3>4. watched.expected < revision => watched'.expected < revision'
      BY <1>3, <1>5, <3>3
    <3>5. Limit \in Nat /\ (Len(library) >= Limit => Len(library') >= Limit)
      BY DEF RoomLibraryConstants
    <3> QED BY <1>3, <3>2, <3>4, <3>5 DEF OneOutcome
  <2> QED BY <2>3, <2>4, <2>5
<1> QED BY <1>3, <1>4, <1>5, <1>6, <1>7, <1>8

\* selectRoom.
LEMMA SelectStep ==
    ASSUME RoomLibraryConstants, IInv, NEW c \in Commands, Sent(c), Select(c)
    PROVE  IInv'
<1>0. TypeOK /\ LedgerInv /\ OneOutcome /\ Len(library) <= Limit
  BY DEF IInv
<1>1. Prior(c) = None /\ c.kind = "select" /\ c.room \in ToSet(library)
  BY DEF Select
<1>2. library \in Seq(Rooms) /\ Len(library) \in Nat /\ ToSet(library) \subseteq Rooms
  BY <1>0, LenProperties, ElementOfSeq DEF TypeOK, ToSet
<1>3. CASE c.expected = revision
  <2>1. Commit(c, c.room) /\ UNCHANGED library
    BY <1>3 DEF Select
  <2>2. /\ LedgerInv' /\ OneOutcome'
        /\ revision' \in 0..MaxRevision /\ selected' = c.room
        /\ ledger' \in [Kinds \X Ids -> Entries \cup {None}]
        /\ watched' \in Commands /\ told' \subseteq Results \cup {Refused}
    <3>1. c.kind = "cast" => Len(library) < Limit
      BY <1>1
    <3>2. Len(library') \in Nat /\ Len(library') >= Len(library) /\ c.room \in Rooms
      BY <1>1, <1>2, <2>1
    <3> QED BY <1>1, <1>2, <1>3, <2>1, <3>1, <3>2, CommitStep, Zenon
  <2> QED BY <1>0, <1>1, <2>1, <2>2 DEF TypeOK, IInv
<1>4. CASE c.expected # revision
  <2>1. Refuse(c)
    BY <1>4 DEF Select
  <2>2. c.expected < revision
    BY <1>0, <1>4 DEF Sent, Commands, TypeOK
  <2> QED BY <1>1, <2>1, <2>2, RefuseStep
<1> QED BY <1>3, <1>4

\* replaceCurrentRoomCast.
LEMMA CastStep ==
    ASSUME RoomLibraryConstants, IInv, NEW c \in Commands, Sent(c), Cast(c)
    PROVE  IInv'
<1>0. TypeOK /\ LedgerInv /\ OneOutcome /\ Len(library) <= Limit
  BY DEF IInv
<1>1. Prior(c) = None /\ c.kind = "cast"
  BY DEF Cast
<1>2. library \in Seq(Rooms) /\ Len(library) \in Nat /\ IsInjective(library)
  BY <1>0, LenProperties DEF TypeOK
<1>3. CASE c.expected = revision /\ Len(library) < Limit
  <2>1. PICK r \in Rooms \ ToSet(library) : Commit(c, r) /\ library' = Append(library, r)
    BY <1>3 DEF Cast
  <2>2. /\ library' \in Seq(Rooms) /\ IsInjective(library') /\ Len(library') = Len(library) + 1
        /\ r \in ToSet(library')
    <3>1. r \in Rooms /\ r \notin ToSet(library)
      BY <2>1
    <3> QED BY <1>2, <2>1, <3>1, NewAtEnd
  <2>3. /\ LedgerInv' /\ OneOutcome'
        /\ revision' \in 0..MaxRevision /\ selected' = r
        /\ ledger' \in [Kinds \X Ids -> Entries \cup {None}]
        /\ watched' \in Commands /\ told' \subseteq Results \cup {Refused}
    <3>1. Len(library') \in Nat /\ Len(library') >= Len(library)
      BY <1>2, <2>2
    <3> QED BY <1>1, <1>2, <1>3, <2>1, <3>1, CommitStep, Zenon
  <2>4. Len(library') <= Limit
    BY <1>2, <1>3, <2>2 DEF RoomLibraryConstants
  <2> QED BY <2>2, <2>3, <2>4 DEF TypeOK, IInv
<1>4. CASE ~(c.expected = revision /\ Len(library) < Limit)
  <2>1. Refuse(c)
    BY <1>4 DEF Cast
  <2>2. c.expected < revision \/ (c.kind = "cast" /\ Len(library) >= Limit)
    <3>1. c.expected \in Nat /\ revision \in Nat /\ c.expected <= revision /\ Limit \in Nat
      BY <1>0 DEF Sent, Commands, TypeOK, RoomLibraryConstants
    <3> QED BY <1>1, <1>2, <1>4, <3>1
  <2> QED BY <1>1, <2>1, <2>2, RefuseStep
<1> QED BY <1>3, <1>4

\* An event of a room.
LEMMA EventStep ==
    ASSUME RoomLibraryConstants, IInv, NEW r \in Rooms, Event(r)
    PROVE  IInv'
<1> USE DEF IInv
<1>1. UNCHANGED <<selected, revision, ledger, watched, told>>
  BY DEF Event
<1>2. library \in Seq(Rooms) /\ Len(library) \in Nat /\ IsInjective(library) /\ DOMAIN library = 1..Len(library)
  BY LenProperties DEF TypeOK
<1>3. PICK i \in 1..Len(library) : library' = Append(Omit(library, i), library[i])
  BY <1>2 DEF Event
<1>4. /\ library' \in Seq(Rooms) /\ IsInjective(library') /\ Len(library') = Len(library)
      /\ ToSet(library') = ToSet(library)
  BY <1>2, <1>3, MoveToEnd
<1>5. TypeOK' /\ LedgerInv'
  BY <1>1, <1>4, LedgersKept DEF TypeOK
<1>6. OneOutcome'
  BY <1>1, <1>4 DEF OneOutcome, OwnEntry, Prior, Key
<1> QED BY <1>4, <1>5, <1>6

LEMMA InvStep ==
    ASSUME RoomLibraryConstants, IInv, [Next]_vars
    PROVE  IInv'
<1>1. ASSUME NEW c \in Commands, Sent(c), Replay(c) \/ Select(c) \/ Cast(c)
      PROVE  IInv'
  BY <1>1, ReplayStep, SelectStep, CastStep
<1>2. ASSUME NEW r \in Rooms, Event(r)
      PROVE  IInv'
  BY <1>2, EventStep
<1>3. ASSUME UNCHANGED vars
      PROVE  IInv'
  <2>1. UNCHANGED <<library, selected, revision, ledger, watched, told>>
    BY <1>3 DEF vars
  <2>2. LedgerInv'
    BY <2>1, LedgersKept DEF IInv
  <2> QED BY <2>1, <2>2 DEF IInv, TypeOK, OneOutcome, OwnEntry, Prior, Key
<1> QED BY <1>1, <1>2, <1>3 DEF Next

-----------------------------------------------------------------------------
(* The selections, read off the ledgers, are a sequence that only grows.   *)

\* A selection of any revision so far is a room.
LEMMA SelectedAtType ==
    ASSUME RoomLibraryConstants, TypeOK, LedgerInv, NEW n \in 0..revision
    PROVE  SelectedAt(n) \in Rooms
<1>1. CASE n = 0
  BY <1>1 DEF SelectedAt, RoomLibraryConstants
<1>2. CASE n # 0
  <2>1. revision \in Nat /\ n \in 1..revision /\ n \in Nat \ {0}
    BY <1>2 DEF TypeOK, RoomLibraryConstants
  <2>2. PICK a \in Accepted : a.result.revision = n
    BY <2>1 DEF LedgerInv
  <2>3. a \in Entries
    BY AcceptedType
  <2>4. a.result.room \in Rooms
    BY <2>3 DEF Entries, Results
  <2> QED BY <2>1, <2>2, <2>4, SelectedAtEntry
<1> QED BY <1>1, <1>2

LEMMA SelectionsType ==
    ASSUME RoomLibraryConstants, TypeOK, LedgerInv
    PROVE  /\ revision \in Nat /\ Selections \in Seq(Rooms) /\ Len(Selections) = revision + 1
           /\ \A n \in 1..revision + 1 : Selections[n] = SelectedAt(n - 1)
<1>1. revision \in Nat
  BY DEF TypeOK, RoomLibraryConstants
<1>2. \A n \in 1..revision + 1 : SelectedAt(n - 1) \in Rooms
  <2> TAKE n \in 1..revision + 1
  <2>1. n - 1 \in 0..revision
    BY <1>1
  <2> QED BY <2>1, SelectedAtType
<1>3. Selections \in [1..revision + 1 -> Rooms]
  BY <1>2 DEF Selections
<1>4. Selections \in Seq(Rooms)
  BY <1>1, <1>3, SeqDef
<1>5. DOMAIN Selections = 1..revision + 1 /\ DOMAIN Selections = 1..Len(Selections) /\ Len(Selections) \in Nat
  BY <1>3, <1>4, LenProperties
<1>6. Len(Selections) = revision + 1
  BY <1>1, <1>5
<1>7. \A n \in 1..revision + 1 : Selections[n] = SelectedAt(n - 1)
  BY DEF Selections
<1> QED BY <1>1, <1>4, <1>6, <1>7

LEMMA SelectionsTypeNext ==
    ASSUME RoomLibraryConstants
    PROVE  IInv' => /\ revision' \in Nat /\ Selections' \in Seq(Rooms) /\ Len(Selections') = revision' + 1
                    /\ \A n \in 1..revision' + 1 : Selections'[n] = SelectedAt(n - 1)'
<1> DEFINE T == /\ revision \in Nat /\ Selections \in Seq(Rooms) /\ Len(Selections) = revision + 1
                /\ \A n \in 1..revision + 1 : Selections[n] = SelectedAt(n - 1)
<1>1. IInv => T
  BY SelectionsType DEF IInv
<1> HIDE DEF T
<1>2. IInv' => T'
  BY <1>1, PTL
<1> QED BY <1>2 DEF T

\* An accepted command is one more selection.
LEMMA CommitMoves ==
    ASSUME RoomLibraryConstants, IInv, IInv', NEW c \in Commands, NEW r \in Rooms,
           Prior(c) = None, Commit(c, r)
    PROVE  Promise!Move(r)
<1>1. /\ revision \in Nat /\ Selections \in Seq(Rooms) /\ Len(Selections) = revision + 1
      /\ \A n \in 1..revision + 1 : Selections[n] = SelectedAt(n - 1)
  BY SelectionsType DEF IInv
<1>2. /\ Selections' \in Seq(Rooms) /\ Len(Selections') = revision' + 1
      /\ \A n \in 1..revision' + 1 : Selections'[n] = SelectedAt(n - 1)'
  BY SelectionsTypeNext
<1>3. /\ \A n \in 0..revision : SelectedAt(n)' = SelectedAt(n)
      /\ SelectedAt(revision)' = r /\ revision' = revision + 1
  BY CommitSelects DEF IInv
<1>4. PICK s \in Seq(Rooms) : s = Append(Selections, r)
  BY <1>1, AppendProperties
<1>5. /\ Len(s) = revision + 2 /\ s[revision + 2] = r
      /\ \A n \in 1..revision + 1 : s[n] = SelectedAt(n - 1)
  <2>1. /\ Len(s) = Len(Selections) + 1 /\ s[Len(Selections) + 1] = r
        /\ \A n \in 1..Len(Selections) : s[n] = Selections[n]
    BY <1>1, <1>4, AppendProperties
  <2> QED BY <1>1, <2>1
<1>6. Selections'[revision + 2] = r
  <2>1. PICK k : k = revision'
    OBVIOUS
  <2>2. k \in Nat /\ k = revision + 1
    BY <1>1, <1>3, <2>1
  <2>3. Selections'[k + 1] = SelectedAt(k + 1 - 1)'
    BY <1>2, <2>1, <2>2
  <2>4. SelectedAt(k)' = r
    BY <1>3, <2>1 DEF SelectedAt
  <2>5. k + 1 = revision + 2 /\ k + 1 - 1 = k
    BY <1>1, <2>2
  <2> QED BY <2>3, <2>4, <2>5
<1>7. \A n \in 1..revision + 1 : Selections'[n] = s[n]
  <2> TAKE n \in 1..revision + 1
  <2>1. n \in 1..revision' + 1 /\ n - 1 \in 0..revision
    BY <1>1, <1>3
  <2> QED BY <2>1, <1>2, <1>3, <1>5
<1>8. Selections' = s
  <2>1. Len(Selections') = Len(s) /\ Len(s) = revision + 2
    BY <1>1, <1>2, <1>3, <1>5
  <2>2. \A n \in 1..Len(s) : Selections'[n] = s[n]
    BY <1>1, <1>5, <1>6, <1>7, <2>1
  <2> QED BY <1>2, <2>1, <2>2, SeqEqual
<1>9. Len(Selections) <= MaxRevision
  BY <1>1 DEF Commit, RoomLibraryConstants
<1> QED BY <1>4, <1>8, <1>9 DEF Promise!Move

LEMMA AuthorityStep ==
    ASSUME RoomLibraryConstants, IInv, IInv', [Next]_vars
    PROVE  [Promise!AuthorityNext]_Selections
<1> USE DEF IInv
<1>1. ASSUME NEW c \in Commands, Select(c)
      PROVE  [Promise!AuthorityNext]_Selections
  <2>1. CASE c.expected = revision
    <3>1. c.room \in Rooms
      BY <1>1, LenProperties, ElementOfSeq DEF Select, TypeOK, ToSet
    <3>2. Prior(c) = None /\ Commit(c, c.room)
      BY <1>1, <2>1 DEF Select
    <3>3. Promise!Move(c.room)
      BY <3>1, <3>2, CommitMoves
    <3> QED BY <3>1, <3>3 DEF Promise!AuthorityNext
  <2>2. CASE c.expected # revision
    BY <1>1, <2>2, LedgersKept DEF Select, Refuse
  <2> QED BY <2>1, <2>2
<1>2. ASSUME NEW c \in Commands, Cast(c)
      PROVE  [Promise!AuthorityNext]_Selections
  <2>1. CASE c.expected = revision /\ Len(library) < Limit
    <3>1. PICK r \in Rooms : Commit(c, r)
      BY <1>2, <2>1 DEF Cast
    <3>2. Prior(c) = None
      BY <1>2 DEF Cast
    <3>3. Promise!Move(r)
      BY <3>1, <3>2, CommitMoves
    <3> QED BY <3>3 DEF Promise!AuthorityNext
  <2>2. CASE ~(c.expected = revision /\ Len(library) < Limit)
    BY <1>2, <2>2, LedgersKept DEF Cast, Refuse
  <2> QED BY <2>1, <2>2
<1>3. ASSUME NEW c \in Commands, Replay(c)
      PROVE  [Promise!AuthorityNext]_Selections
  BY <1>3, LedgersKept DEF Replay
<1>4. ASSUME NEW r \in Rooms, Event(r)
      PROVE  [Promise!AuthorityNext]_Selections
  BY <1>4, LedgersKept DEF Event
<1>5. ASSUME UNCHANGED vars
      PROVE  [Promise!AuthorityNext]_Selections
  BY <1>5, LedgersKept DEF vars
<1> QED BY <1>1, <1>2, <1>3, <1>4, <1>5 DEF Next

-----------------------------------------------------------------------------
(* The theorems.                                                           *)

LEMMA LibraryInv ==
    ASSUME RoomLibraryConstants
    PROVE  Spec => []IInv
<1>1. Init => IInv
  BY InitInv
<1>2. IInv /\ [Next]_vars => IInv'
  BY InvStep
<1> QED BY <1>1, <1>2, PTL DEF Spec

\* The types of the library: a room is in it once and the selected room is one
\* of them, whatever is selected, cast, repeated or refused (cast.ts).
THEOREM LibraryTypes ==
    ASSUME RoomLibraryConstants
    PROVE  Spec => []TypeOK
<1>1. IInv => TypeOK
  BY DEF IInv
<1> QED BY <1>1, LibraryInv, PTL

\* The ledgers account for the selection, at every revision: one entry for
\* each, and the last of them names the room that is selected.
THEOREM LedgersTellSelection ==
    ASSUME RoomLibraryConstants
    PROVE  Spec => []LedgerTellsSelection
<1>1. IInv => LedgerTellsSelection
  BY DEF IInv, LedgerInv, LedgerTellsSelection
<1> QED BY <1>1, LibraryInv, PTL

\* A command that is sent again under its id, as often as a client likes and
\* with any other commands in between, never gets a second outcome.
THEOREM OutcomesAreFinal ==
    ASSUME RoomLibraryConstants
    PROVE  Spec => []AnswersAreFinal
<1>1. ASSUME NEW a, NEW T, T \subseteq {a}
      PROVE  Cardinality(T) <= 1
  <2>1. IsFiniteSet({a}) /\ Cardinality({a}) = 1
    BY FS_Singleton
  <2>2. Cardinality(T) <= Cardinality({a})
    BY <1>1, <2>1, FS_Subset
  <2> QED BY <2>1, <2>2
<1>2. IInv => AnswersAreFinal
  <2> SUFFICES ASSUME IInv PROVE AnswersAreFinal
    OBVIOUS
  <2>1. \E a : told \subseteq {a}
    BY DEF IInv, OneOutcome
  <2> QED BY <2>1, <1>1 DEF AnswersAreFinal
<1> QED BY <1>2, LibraryInv, PTL

\* The library implements RoomAuthority: its selections are one sequence that
\* accepted commands, and only they, make longer, one place at a time.
THEOREM LibraryKeepsAuthority ==
    ASSUME RoomLibraryConstants
    PROVE  Spec => KeepsAuthority
<1>1. Init => Promise!AuthorityInit
  <2> SUFFICES ASSUME Init PROVE Promise!AuthorityInit
    OBVIOUS
  <2>1. /\ Selections \in Seq(Rooms) /\ Len(Selections) = 1
        /\ \A n \in 1..1 : Selections[n] = SelectedAt(n - 1)
    BY InitInv, SelectionsType DEF IInv, Init
  <2>2. Selections[1] = First
    BY <2>1 DEF SelectedAt
  <2>3. <<First>> \in Seq(Rooms) /\ Len(<<First>>) = 1 /\ <<First>>[1] = First
    BY DEF RoomLibraryConstants
  <2>4. Selections = <<First>>
    BY <2>1, <2>2, <2>3, SeqEqual
  <2> QED BY <2>4 DEF Promise!AuthorityInit
<1>2. IInv /\ IInv' /\ [Next]_vars => [Promise!AuthorityNext]_Selections
  BY AuthorityStep
<1> QED BY <1>1, <1>2, LibraryInv, PTL DEF Spec, KeepsAuthority, Promise!Authority

-----------------------------------------------------------------------------
(***************************************************************************)
(* The rooms of the iPhone application (PhoneRooms), with any kinds of     *)
(* handlers started: what of the drafts and of the transcripts is held by  *)
(* the page, by its handlers and by the writer.                            *)
(***************************************************************************)
CONSTANTS Saved, Flows, Handlers, MaxTexts, MaxLines, MaxDowns
VARIABLES made, current, stored, lines, up, page, gate, writer, flow, queue, typedIn

Phone == INSTANCE PhoneRooms WITH Kinds <- Handlers

\* The types of the page, its handlers and its writer.
HandlerKinds == {"idle", "blur", "open", "cancel", "reproject", "create", "submit"}
HandlerSteps == {"none", "save", "select", "room", "events", "draft", "confirm", "status",
                 "create", "current", "context", "commit", "committed"}
Handler == [kind : HandlerKinds, pc : HandlerSteps, room : Rooms \cup {None},
            at : Rooms \cup {None}, text : Phone!Texts \cup {0}, events : Seq(Phone!Texts),
            same : BOOLEAN]
Draft == [room : Rooms \cup {None}, text : Phone!Texts \cup {0}]

Writer == [busy : BOOLEAN, now : Draft, next : Draft, failed : BOOLEAN, newest : BOOLEAN]

Page == [room : Rooms, view : {"room", "rooms", "picker"}, events : Seq(Phone!Texts),
         input : Phone!Texts \cup {0}, locked : BOOLEAN, sends : BOOLEAN]

PhoneTypes ==
    /\ made \subseteq Rooms /\ current \in made
    /\ stored \in [Rooms -> Phone!Texts \cup {0}]
    /\ lines \in [Rooms -> Seq(Phone!Texts)]
    /\ up \in [ready : BOOLEAN, downs : Nat]
    /\ page \in Page
    /\ gate \in BOOLEAN
    /\ writer \in Writer
    /\ flow \in [Flows -> Handler]
    /\ typedIn \in [Phone!Texts -> Rooms \cup {None}]

\* A text that is kept for room r was typed in it.
Belongs(r, t, typed) == t # 0 => r \in Rooms /\ typed[t] = r

\* What a handler holds fits the page and the rooms: in the view it began in it
\* is about the room shown, the room it is to show was made, a draft it carries
\* was typed in the room it carries it for, and so was a line that is posted
\* from the view it was sent from.
Fits(h, shown, rooms, posted, typed) ==
    /\ h.same /\ h.room # None => h.room = shown
    /\ h.kind \in {"open", "cancel", "reproject"} /\ h.pc # "status" => h.room \in rooms
    /\ h.kind = "create" => h.room \in Rooms
    /\ h.kind = "create" /\ h.pc = "current" => h.room \in rooms
    /\ h.pc = "save" => Belongs(h.at, h.text, typed)
    /\ h.pc = "confirm" => Belongs(h.room, h.text, typed)
    /\ h.pc \in {"draft", "confirm"} => h.room \in rooms /\ IsPrefix(h.events, posted[h.room])
    /\ h.kind = "submit" => h.pc \in {"status", "save", "events", "context", "commit", "committed"}
    /\ h.kind = "submit" /\ h.pc # "status" => h.room \in Rooms
    /\ h.kind = "submit" /\ h.pc \in {"events", "context", "commit"} =>
          h.text # 0 /\ (h.same => Belongs(h.room, h.text, typed))
    /\ h.kind = "idle" => h = Phone!Idle

FlowsFit == \A f \in Flows : Fits(flow[f], page.room, made, lines, typedIn)

\* The drafts and the transcripts of the rooms, of the page and of the writer;
\* texts are typed one after the other.
DraftsFit ==
    /\ page.room \in made /\ IsPrefix(page.events, lines[page.room])
    /\ \A r \in Rooms : Belongs(r, stored[r], typedIn)
    /\ Belongs(page.room, page.input, typedIn)
    /\ Belongs(writer.now.room, writer.now.text, typedIn)
    /\ Belongs(writer.next.room, writer.next.text, typedIn)
    /\ \E n \in Nat : Phone!Typed = 1..n

\* The parts of a step keep to the types: the handler that is done, ...
LEMMA IdleType == ASSUME Phone!RoomsAssumption PROVE Phone!Idle \in Handler
  BY DEF Phone!Idle, Handler, HandlerKinds, HandlerSteps, Phone!RoomsAssumption

\* ... the writer, ...
LEMMA WriterTypes ==
    ASSUME Phone!RoomsAssumption, PhoneTypes
    PROVE  /\ \A calls : \A draft \in Draft, failed \in BOOLEAN :
                 Phone!Drained(draft, failed, calls) => writer' \in Writer
           /\ \A text \in Phone!Texts \cup {0} : Phone!QueueDraft(text) => writer' \in Writer
<1>1. Phone!NoDraft \in Draft
  BY DEF Phone!NoDraft, Draft
<1>2. ASSUME NEW draft \in Draft, NEW failed \in BOOLEAN, NEW calls,
             Phone!Drained(draft, failed, calls)
      PROVE  writer' \in Writer
  <2>1. CASE draft # Phone!NoDraft /\ gate
    <3>1. writer' = [busy |-> TRUE, now |-> draft, next |-> Phone!NoDraft,
                     failed |-> failed, newest |-> TRUE]
      BY <2>1, <1>2 DEF Phone!Drained
    <3> QED BY <3>1, <1>1 DEF Writer
  <2>2. CASE ~(draft # Phone!NoDraft /\ gate)
    <3>1. writer' = [busy |-> FALSE, now |-> Phone!NoDraft, next |-> Phone!NoDraft,
                     failed |-> failed, newest |-> FALSE]
      BY <2>2, <1>2 DEF Phone!Drained
    <3> QED BY <3>1, <1>1 DEF Writer
  <2> QED BY <2>1, <2>2
<1>3. ASSUME NEW text \in Phone!Texts \cup {0}, Phone!QueueDraft(text)
      PROVE  writer' \in Writer
  <2> DEFINE draft == [room |-> page.room, text |-> text]
  <2>1. draft \in Draft /\ writer.failed \in BOOLEAN
    BY DEF PhoneTypes, Draft, Writer, Page
  <2>2. CASE writer.busy
    BY <1>3, <2>1, <2>2 DEF PhoneTypes, Phone!QueueDraft, Writer
  <2>3. CASE ~writer.busy
    <3>1. Phone!Drained(draft, writer.failed, queue)
      BY <1>3, <2>3 DEF Phone!QueueDraft
    <3> QED BY <3>1, <2>1, <1>2
  <2> QED BY <2>2, <2>3
<1> QED BY <1>2, <1>3

\* ... the handlers, ...
LEMMA HandlerTypes ==
    ASSUME Phone!RoomsAssumption, PhoneTypes
    PROVE  /\ \A f \in Flows, h \in Handler, flows \in [Flows -> Handler] :
                 \/ Phone!Awaits(f, h, flows)
                 \/ Phone!Continues(f, h, flows)
                 \/ Phone!Done(f, flows)
                 => flow' \in [Flows -> Handler]
           /\ Phone!NewView \in [Flows -> Handler]
           /\ \A f \in Flows : Phone!Ends(f) => flow' \in [Flows -> Handler]
<1>1. ASSUME NEW f \in Flows, NEW h \in Handler, NEW flows \in [Flows -> Handler],
             Phone!Awaits(f, h, flows) \/ Phone!Continues(f, h, flows) \/ Phone!Done(f, flows)
      PROVE  flow' \in [Flows -> Handler]
  BY <1>1, IdleType DEF Phone!Awaits, Phone!Continues, Phone!Done
<1>2. Phone!NewView \in [Flows -> Handler]
  <2>1. ASSUME NEW f \in Flows PROVE [flow[f] EXCEPT !.same = FALSE] \in Handler
    <3>1. flow[f] \in Handler
      BY DEF PhoneTypes
    <3> QED BY <3>1 DEF Handler
  <2> QED BY <2>1 DEF Phone!NewView
<1>3. ASSUME NEW f \in Flows, Phone!Ends(f) PROVE flow' \in [Flows -> Handler]
  <2> DEFINE h == [Phone!Idle EXCEPT !.kind = "submit", !.pc = "status", !.same = TRUE]
  <2>1. h \in Handler
    BY IdleType DEF Handler, HandlerKinds, HandlerSteps
  <2>2. Phone!Continues(f, h, flow) \/ Phone!Done(f, flow)
    BY <1>3 DEF Phone!Ends
  <2> HIDE DEF h
  <2>3. flow \in [Flows -> Handler]
    BY DEF PhoneTypes
  <2> QED BY <2>1, <2>2, <2>3, <1>1
<1> QED BY <1>1, <1>2, <1>3

\* ... and the page.
LEMMA PageTypes ==
    ASSUME PhoneTypes
    PROVE  /\ \A open \in BOOLEAN : Phone!Rendered(open) \in Page
           /\ \A r \in Rooms, events \in Seq(Phone!Texts), draft \in Phone!Texts \cup {0} :
                 Phone!RenderRoom(r, events, draft) => page' \in Page
<1>1. ASSUME NEW open \in BOOLEAN PROVE Phone!Rendered(open) \in Page
  BY DEF Phone!Rendered, PhoneTypes, Page
<1>2. ASSUME NEW r \in Rooms, NEW events \in Seq(Phone!Texts), NEW draft \in Phone!Texts \cup {0},
             Phone!RenderRoom(r, events, draft)
      PROVE  page' \in Page
  BY <1>2 DEF Phone!RenderRoom, PhoneTypes, Page
<1> QED BY <1>1, <1>2

\* Every step keeps to the types; the room a handler is about is one of the
\* rooms because of what it has read (FlowsFit).
LEMMA TypesStep ==
    ASSUME Phone!RoomsAssumption, PhoneTypes, FlowsFit, DraftsFit, [Phone!Next]_(Phone!vars)
    PROVE  PhoneTypes'
<1> USE WriterTypes, HandlerTypes DEF Phone!database, HandlerSteps
<1>0. /\ \A f \in Flows : flow[f] \in Handler
      /\ flow \in [Flows -> Handler] /\ page.room \in Rooms
      /\ \A h \in Handler : /\ h.text \in Phone!Texts \cup {0} /\ h.events \in Seq(Phone!Texts)
                            /\ \A step \in HandlerSteps : [h EXCEPT !.pc = step] \in Handler
  <2>1. ASSUME NEW h \in Handler, NEW step \in HandlerSteps
        PROVE  [h EXCEPT !.pc = step] \in Handler
    BY DEF Handler
  <2>2. \A h \in Handler : h.text \in Phone!Texts \cup {0} /\ h.events \in Seq(Phone!Texts)
    BY DEF Handler
  <2>3. flow \in [Flows -> Handler] /\ page.room \in Rooms
    BY DEF PhoneTypes, Page
  <2> QED BY <2>1, <2>2, <2>3
<1>1. CASE UNCHANGED Phone!vars
  BY <1>1 DEF Phone!vars, PhoneTypes, Page
<1>2. ASSUME NEW text \in Phone!Texts \cup {0}, Phone!Type(text) PROVE PhoneTypes'
  BY <1>2 DEF Phone!Type, PhoneTypes, Page
<1>3. CASE Phone!RetryDraft
  BY <1>3 DEF Phone!RetryDraft, PhoneTypes, Page
<1>4. CASE Phone!WriteDraft
  <2>1. writer.next \in Draft /\ (IF writer.newest THEN ~up.ready ELSE writer.failed) \in BOOLEAN
    BY DEF PhoneTypes, Writer
  <2>2. writer' \in Writer
    BY <1>4, <2>1 DEF Phone!WriteDraft
  <2> QED BY <1>4, <2>2 DEF Phone!WriteDraft, Phone!SaveDraft, PhoneTypes, Writer, Draft
<1>5. CASE Phone!Show("picker") \/ Phone!Show("rooms")
  BY <1>5 DEF Phone!Show, PhoneTypes, Page
<1>6. ASSUME NEW f \in Flows, Phone!Blur(f) PROVE PhoneTypes'
  <2>1. [Phone!Idle EXCEPT !.kind = "blur", !.pc = "save", !.at = page.room, !.text = page.input] \in Handler
    BY IdleType DEF PhoneTypes, Handler, HandlerKinds, HandlerSteps, Page
  <2>2. flow' \in [Flows -> Handler]
    BY <1>6, <2>1, <1>0 DEF Phone!Blur
  <2> QED BY <1>6, <2>2 DEF Phone!Blur, PhoneTypes, Page
<1>7. ASSUME NEW f \in Flows, Phone!Cancel(f) PROVE PhoneTypes'
  <2>1. [Phone!Idle EXCEPT !.kind = "cancel", !.pc = "room", !.room = page.room, !.same = TRUE] \in Handler
    BY IdleType DEF PhoneTypes, Handler, HandlerKinds, HandlerSteps, Page
  <2>2. flow' \in [Flows -> Handler]
    BY <1>7, <2>1, <1>0 DEF Phone!Cancel
  <2> QED BY <1>7, <2>2 DEF Phone!Cancel, PhoneTypes, Page
<1>8. ASSUME NEW f \in Flows, Phone!Reconcile(f) PROVE PhoneTypes'
  <2>1. [Phone!Idle EXCEPT !.kind = "reproject", !.pc = "status"] \in Handler
    BY IdleType DEF PhoneTypes, Handler, HandlerKinds, HandlerSteps
  <2>2. flow' \in [Flows -> Handler]
    BY <1>8, <2>1, <1>0 DEF Phone!Reconcile
  <2> QED BY <1>8, <2>2 DEF Phone!Reconcile, PhoneTypes, Page
<1>9. ASSUME NEW f \in Flows, Phone!Submit(f) PROVE PhoneTypes'
  <2>1. [Phone!Idle EXCEPT !.kind = "submit", !.pc = "status", !.room = page.room, !.same = TRUE] \in Handler
    BY IdleType DEF PhoneTypes, Handler, HandlerKinds, HandlerSteps, Page
  <2>2. flow' \in [Flows -> Handler]
    BY <1>9, <2>1, <1>0 DEF Phone!Submit
  <2> QED BY <1>9, <2>2 DEF Phone!Submit, PhoneTypes, Page
<1>10. ASSUME NEW f \in Flows, NEW r \in Rooms, Phone!OpenRoom(f, r) PROVE PhoneTypes'
  <2>1. [Phone!Idle EXCEPT !.kind = "open", !.pc = "select", !.room = r] \in Handler
    BY IdleType DEF PhoneTypes, Handler, HandlerKinds, HandlerSteps
  <2>2. flow' \in [Flows -> Handler]
    BY <1>10, <2>1, <1>0 DEF Phone!OpenRoom
  <2> QED BY <1>10, <2>2 DEF Phone!OpenRoom, PhoneTypes, Page
<1>11. ASSUME NEW f \in Flows, NEW r \in Rooms, Phone!Create(f, r) PROVE PhoneTypes'
  <2>1. [Phone!Idle EXCEPT !.kind = "create", !.pc = "create", !.room = r] \in Handler
    BY IdleType DEF PhoneTypes, Handler, HandlerKinds, HandlerSteps
  <2>2. flow' \in [Flows -> Handler]
    BY <1>11, <2>1, <1>0 DEF Phone!Create
  <2> QED BY <1>11, <2>2 DEF Phone!Create, PhoneTypes, Page
<1>12. ASSUME NEW f \in Flows, Phone!Blurred(f) PROVE PhoneTypes'
  <2>1. stored' \in [Rooms -> Phone!Texts \cup {0}]
    BY <1>12, <1>0 DEF Phone!Blurred, Phone!SaveDraft, PhoneTypes, Page
  <2>2. writer' \in Writer
    BY <1>12 DEF Phone!Blurred, PhoneTypes, Writer
  <2>3. flow' \in [Flows -> Handler]
    BY <1>12, <1>0, IdleType DEF Phone!Blurred
  <2> QED BY <1>12, <2>1, <2>2, <2>3 DEF Phone!Blurred, PhoneTypes, Page
<1>13. ASSUME NEW f \in Flows, Phone!Unreadable(f) PROVE PhoneTypes'
  BY <1>13, <1>0 DEF Phone!Unreadable, Phone!Rendered, PhoneTypes, Page
<1>14. ASSUME NEW f \in Flows, Phone!StatusForRoom(f) PROVE PhoneTypes'
  <2>0. flow[f] \in Handler
    BY <1>0
  <2>1. [flow[f] EXCEPT !.pc = "select", !.room = page.room, !.same = TRUE] \in Handler
    BY <2>0 DEF Handler, HandlerSteps, PhoneTypes, Page
  <2>2. flow' \in [Flows -> Handler]
    BY <1>14, <2>1, <1>0 DEF Phone!StatusForRoom
  <2> QED BY <1>14, <2>2 DEF Phone!StatusForRoom, Phone!Rendered, PhoneTypes, Page
<1>15. ASSUME NEW f \in Flows, Phone!SelectRoom(f) PROVE PhoneTypes'
  <2>1. flow' \in [Flows -> Handler]
    BY <1>15, <1>0 DEF Phone!SelectRoom
  <2>2. flow[f].room \in made
    BY <1>15 DEF Phone!SelectRoom, Phone!At, FlowsFit, Fits
  <2> QED BY <1>15, <2>1, <2>2 DEF Phone!SelectRoom, PhoneTypes, Page
<1>16. ASSUME NEW f \in Flows, Phone!FindRoom(f) PROVE PhoneTypes'
  BY <1>16, <1>0 DEF Phone!FindRoom, PhoneTypes, Page
<1>17. ASSUME NEW f \in Flows, Phone!ReadEvents(f) PROVE PhoneTypes'
  <2>1. flow[f].room \in Rooms /\ lines[flow[f].room] \in Seq(Phone!Texts)
    BY <1>17 DEF Phone!ReadEvents, Phone!At, FlowsFit, Fits, PhoneTypes, Page
  <2>0. flow[f] \in Handler
    BY <1>0
  <2>2. [flow[f] EXCEPT !.pc = "draft", !.events = lines[flow[f].room]] \in Handler
    BY <2>0, <2>1 DEF Handler, HandlerSteps, PhoneTypes, Page
  <2>3. flow' \in [Flows -> Handler]
    BY <1>17, <2>2, <1>0 DEF Phone!ReadEvents
  <2> QED BY <1>17, <2>3 DEF Phone!ReadEvents, PhoneTypes, Page
<1>18. ASSUME NEW f \in Flows, Phone!ReadDraft(f) PROVE PhoneTypes'
  <2>1. stored[flow[f].room] \in Phone!Texts \cup {0}
    BY <1>18 DEF Phone!ReadDraft, Phone!At, FlowsFit, Fits, PhoneTypes, Page
  <2>0. flow[f] \in Handler
    BY <1>0
  <2>2. [flow[f] EXCEPT !.pc = "confirm", !.text = stored[flow[f].room]] \in Handler
    BY <2>0, <2>1 DEF Handler, HandlerSteps, PhoneTypes, Page
  <2>3. flow' \in [Flows -> Handler]
    BY <1>18, <2>2, <1>0 DEF Phone!ReadDraft
  <2> QED BY <1>18, <2>3 DEF Phone!ReadDraft, PhoneTypes, Page
<1>19. ASSUME NEW f \in Flows, Phone!Reopen(f) PROVE PhoneTypes'
  <2>1. [Phone!Idle EXCEPT !.kind = "open", !.pc = "status"] \in Handler
    BY IdleType DEF PhoneTypes, Handler, HandlerKinds, HandlerSteps
  <2>2. flow' \in [Flows -> Handler]
    BY <1>19, <2>1, <1>0 DEF Phone!Reopen
  <2>3. flow[f].room \in Rooms
    BY <1>19 DEF Phone!Reopen, Phone!At, FlowsFit, Fits, PhoneTypes, Page
  <2>4. page' \in Page
    BY <1>19, <2>3, <1>0, PageTypes DEF Phone!Reopen, PhoneTypes, Page
  <2> QED BY <1>19, <2>2, <2>4 DEF Phone!Reopen, PhoneTypes, Page
<1>20. ASSUME NEW f \in Flows, Phone!RefreshGate(f) PROVE PhoneTypes'
  BY <1>20, <1>0 DEF Phone!RefreshGate, Phone!Refreshed, Phone!Rendered, PhoneTypes, Page
<1>21. ASSUME NEW f \in Flows, Phone!CommitRoom(f) PROVE PhoneTypes'
  <2>1. flow[f].room \in Rooms
    BY <1>21 DEF Phone!CommitRoom, Phone!At, FlowsFit, Fits
  <2>2. flow' \in [Flows -> Handler]
    BY <1>21, <1>0 DEF Phone!CommitRoom
  <2> QED BY <1>21, <2>1, <2>2 DEF Phone!CommitRoom, PhoneTypes, Page
<1>22. ASSUME NEW f \in Flows, Phone!ShowCreated(f) PROVE PhoneTypes'
  <2>1. flow[f].room \in Rooms
    BY <1>22 DEF Phone!ShowCreated, Phone!At, FlowsFit, Fits
  <2>2. flow' \in [Flows -> Handler]
    BY <1>22, <1>0 DEF Phone!ShowCreated
  <2>3. <<>> \in Seq(Phone!Texts) /\ 0 \in Phone!Texts \cup {0}
    OBVIOUS
  <2>4. page' \in Page
    BY <1>22, <2>1, <2>3, PageTypes DEF Phone!ShowCreated, PhoneTypes, Page
  <2> QED BY <1>22, <2>2, <2>4 DEF Phone!ShowCreated, PhoneTypes, Page
<1>23. ASSUME NEW f \in Flows, Phone!StatusForLine(f) PROVE PhoneTypes'
  <2>0. flow[f] \in Handler
    BY <1>0
  <2>1. [flow[f] EXCEPT !.pc = "save", !.at = page.room, !.text = page.input] \in Handler
    BY <2>0 DEF Handler, HandlerSteps, PhoneTypes, Page
  <2>2. flow' \in [Flows -> Handler]
    BY <1>23, <2>1, <1>0 DEF Phone!StatusForLine
  <2> QED BY <1>23, <2>2 DEF Phone!StatusForLine, Phone!Refreshed, Phone!Rendered, PhoneTypes, Page
<1>24. ASSUME NEW f \in Flows, Phone!PersistLine(f) PROVE PhoneTypes'
  <2>0. flow[f] \in Handler
    BY <1>0
  <2>1. [flow[f] EXCEPT !.pc = "events", !.at = None, !.text = page.input] \in Handler
    BY <2>0 DEF Handler, HandlerSteps, PhoneTypes, Page
  <2>2. flow' \in [Flows -> Handler]
    BY <1>24, <2>1, <1>0 DEF Phone!PersistLine
  <2>3. stored' \in [Rooms -> Phone!Texts \cup {0}]
    BY <1>24, <1>0 DEF Phone!PersistLine, Phone!SaveDraft, PhoneTypes, Page
  <2>4. writer' \in Writer
    BY <1>24 DEF Phone!PersistLine, PhoneTypes, Writer
  <2> QED BY <1>24, <2>2, <2>3, <2>4 DEF Phone!PersistLine, PhoneTypes, Page
<1>25. ASSUME NEW f \in Flows, Phone!ReadTurns(f) PROVE PhoneTypes'
  BY <1>25, <1>0 DEF Phone!ReadTurns, PhoneTypes, Page
<1>26. ASSUME NEW f \in Flows, Phone!ReadContext(f) PROVE PhoneTypes'
  <2>1. flow[f].room \in Rooms /\ lines[flow[f].room] \in Seq(Phone!Texts)
    BY <1>26 DEF Phone!ReadContext, Phone!At, FlowsFit, Fits, PhoneTypes, Page
  <2>0. flow[f] \in Handler
    BY <1>0
  <2>2. [flow[f] EXCEPT !.pc = "commit", !.events = lines[flow[f].room]] \in Handler
    BY <2>0, <2>1 DEF Handler, HandlerSteps, PhoneTypes, Page
  <2>3. flow' \in [Flows -> Handler]
    BY <1>26, <2>2, <1>0 DEF Phone!ReadContext
  <2> QED BY <1>26, <2>3 DEF Phone!ReadContext, PhoneTypes, Page
<1>27. ASSUME NEW f \in Flows, Phone!CommitTurn(f) PROVE PhoneTypes'
  <2>1. flow[f].text \in Phone!Texts /\ flow[f].room \in Rooms
    BY <1>27, <1>0 DEF Phone!CommitTurn, Phone!At, FlowsFit, Fits
  <2>2. Append(lines[flow[f].room], flow[f].text) \in Seq(Phone!Texts)
    BY <2>1, AppendProperties DEF PhoneTypes, Page
  <2>3. flow' \in [Flows -> Handler]
    BY <1>27, <1>0 DEF Phone!CommitTurn
  <2> QED BY <1>27, <2>1, <2>2, <2>3 DEF Phone!CommitTurn, Phone!SaveDraft, PhoneTypes, Page
<1>28. ASSUME NEW f \in Flows, Phone!ShowTurn(f) PROVE PhoneTypes'
  <2>1. flow[f].room \in Rooms
    BY <1>28 DEF Phone!ShowTurn, Phone!At, FlowsFit, Fits
  <2>2. flow' \in [Flows -> Handler]
    BY <1>28, <1>0 DEF Phone!ShowTurn
  <2> QED BY <1>28, <2>1, <2>2 DEF Phone!ShowTurn, PhoneTypes, Page
<1>29. ASSUME NEW f \in Flows, Phone!FailLine(f) PROVE PhoneTypes'
  BY <1>29, <1>0 DEF Phone!FailLine, PhoneTypes, Page
<1>30. CASE Phone!Lose \/ Phone!Return
  <2>1. up' \in [ready : BOOLEAN, downs : Nat]
    <3>1. up \in [ready : BOOLEAN, downs : Nat]
      BY DEF PhoneTypes
    <3>2. CASE Phone!Lose
      BY <3>1, <3>2 DEF Phone!Lose
    <3>3. CASE Phone!Return
      BY <3>1, <3>3 DEF Phone!Return
    <3> QED BY <1>30, <3>2, <3>3
  <2> QED BY <1>30, <2>1 DEF Phone!Lose, Phone!Return, PhoneTypes, Page
<1>31. CASE Phone!Relaunch
  <2>1. current \in Rooms /\ Phone!Opened(current) \in Page
    BY DEF Phone!Opened, PhoneTypes, Page
  <2>2. writer' \in Writer
    BY <1>31 DEF Phone!Relaunch, Writer, Draft, Phone!NoDraft
  <2>3. up' \in [ready : BOOLEAN, downs : Nat]
    BY <1>31 DEF Phone!Relaunch, PhoneTypes, Page
  <2>4. flow' \in [Flows -> Handler]
    BY <1>31, IdleType DEF Phone!Relaunch
  <2> QED BY <1>31, <2>1, <2>2, <2>3, <2>4 DEF Phone!Relaunch, PhoneTypes, Page
<1> QED
  BY <1>1, <1>2, <1>3, <1>4, <1>5, <1>6, <1>7, <1>8, <1>9, <1>10, <1>11, <1>12, <1>13, <1>14,
     <1>15, <1>16, <1>17, <1>18, <1>19, <1>20, <1>21, <1>22, <1>23, <1>24, <1>25, <1>26, <1>27,
     <1>28, <1>29, <1>30, <1>31 DEF Phone!Next

\* A transcript that grows has the same beginnings.
LEMMA PrefixProperties ==
    ASSUME NEW S
    PROVE  /\ \A s \in Seq(S) : IsPrefix(s, s) /\ IsPrefix(<<>>, s)
           /\ \A s, t \in Seq(S), e \in S : IsPrefix(s, t) => IsPrefix(s, Append(t, e))
<1>1. ASSUME NEW s \in Seq(S) PROVE IsPrefix(s, s) /\ IsPrefix(<<>>, s)
  <2>1. Len(s) \in Nat /\ Len(<<>>) = 0
    BY LenProperties
  <2>2. SubSeq(<<>>, 1, 0) = <<>> /\ SubSeq(s, 1, 0) = <<>>
    BY SubSeqEmpty
  <2> QED BY <2>1, <2>2 DEF IsPrefix
<1>2. ASSUME NEW s \in Seq(S), NEW t \in Seq(S), NEW e \in S, IsPrefix(s, t)
      PROVE  IsPrefix(s, Append(t, e))
  <2> DEFINE u == Append(t, e)
  <2>1. /\ Len(s) \in Nat /\ Len(t) \in Nat /\ Len(s) <= Len(t)
        /\ \A i \in 1..Len(s) : s[i] \in S
        /\ \A i \in 1..Len(t) : t[i] \in S
    BY <1>2, LenProperties, ElementOfSeq DEF IsPrefix
  <2>2. u \in Seq(S) /\ Len(u) = Len(t) + 1 /\ \A i \in 1..Len(t) : u[i] = t[i]
    BY <2>1, AppendProperties
  <2> HIDE DEF u
  <2>3. \A i \in 1..Len(s) : t[i] \in S /\ u[i] = t[i]
    BY <2>1, <2>2
  <2>4. /\ SubSeq(t, 1, Len(s)) \in Seq(S) /\ Len(SubSeq(t, 1, Len(s))) = Len(s)
        /\ \A i \in 1..Len(s) : SubSeq(t, 1, Len(s))[i] = t[i]
    BY <2>1, <2>3, SubSeqProperties
  <2>5. /\ SubSeq(u, 1, Len(s)) \in Seq(S) /\ Len(SubSeq(u, 1, Len(s))) = Len(s)
        /\ \A i \in 1..Len(s) : SubSeq(u, 1, Len(s))[i] = u[i]
    BY <2>1, <2>2, <2>3, SubSeqProperties
  <2>6. SubSeq(t, 1, Len(s)) = SubSeq(u, 1, Len(s))
    BY <2>3, <2>4, <2>5, SeqEqual
  <2>7. Len(s) <= Len(u)
    BY <2>1, <2>2
  <2> QED BY <1>2, <2>6, <2>7 DEF IsPrefix, u
<1> QED BY <1>1, <1>2

\* Rooms stay, what was typed stays typed where it was, transcripts grow.
Grows == /\ made \subseteq made'
         /\ \A t \in Phone!Texts : typedIn[t] # None => typedIn'[t] = typedIn[t]
         /\ \A r \in Rooms, s \in Seq(Phone!Texts) : IsPrefix(s, lines[r]) => IsPrefix(s, lines'[r])

\* What fits once, fits as the rooms, the texts and the transcripts grow.
LEMMA FitsKept ==
    ASSUME Phone!RoomsAssumption, PhoneTypes, Grows
    PROVE  /\ \A r, t : t \in Phone!Texts \cup {0} /\ Belongs(r, t, typedIn) => Belongs(r, t, typedIn')
           /\ \A h \in Handler :
                 /\ Fits(h, page.room, made, lines, typedIn)
                 /\ h.same => page'.room = page.room
                 => Fits(h, page'.room, made', lines', typedIn')
<1>1. ASSUME NEW r, NEW t \in Phone!Texts \cup {0}, Belongs(r, t, typedIn)
      PROVE  Belongs(r, t, typedIn')
  BY <1>1 DEF Belongs, Grows, Phone!RoomsAssumption
<1>2. ASSUME NEW h \in Handler, Fits(h, page.room, made, lines, typedIn),
             h.same => page'.room = page.room
      PROVE  Fits(h, page'.room, made', lines', typedIn')
  <2>1. h.text \in Phone!Texts \cup {0} /\ h.events \in Seq(Phone!Texts)
    BY DEF Handler
  <2>2. h.room \in made => h.room \in made' /\ h.room \in Rooms
    BY DEF Grows, PhoneTypes
  <2>3. h.pc \in {"draft", "confirm"} => h.room \in made' /\ IsPrefix(h.events, lines'[h.room])
    BY <1>2, <2>1, <2>2 DEF Fits, Grows
  <2> QED BY <1>1, <1>2, <2>1, <2>2, <2>3 DEF Fits
<1> QED BY <1>1, <1>2

\* A new view: what the handlers have noted of the old one is over.
LEMMA ViewFits ==
    ASSUME Phone!RoomsAssumption, PhoneTypes, FlowsFit, Grows, NEW g \in Flows
    PROVE  Fits(Phone!NewView[g], page'.room, made', lines', typedIn')
<1> DEFINE h == [flow[g] EXCEPT !.same = FALSE]
<1>1. flow[g] \in Handler /\ Fits(flow[g], page.room, made, lines, typedIn)
  BY DEF FlowsFit, PhoneTypes
<1>2. Phone!NewView[g] = h
  BY DEF Phone!NewView
<1>3. /\ h \in Handler /\ ~h.same
      /\ h.kind = flow[g].kind /\ h.pc = flow[g].pc /\ h.room = flow[g].room
      /\ h.at = flow[g].at /\ h.text = flow[g].text /\ h.events = flow[g].events
  BY <1>1 DEF Handler
<1>4. flow[g].kind = "idle" => h = Phone!Idle
  <2>1. Phone!Idle \in Handler /\ Phone!Idle.same = FALSE
    BY IdleType DEF Phone!Idle
  <2>2. Phone!Idle = [Phone!Idle EXCEPT !.same = Phone!Idle.same]
    BY <2>1 DEF Handler
  <2>3. flow[g].kind = "idle" => flow[g] = Phone!Idle
    BY <1>1 DEF Fits
  <2> QED BY <2>1, <2>2, <2>3
<1> HIDE DEF h
<1>5. Fits(h, page.room, made, lines, typedIn)
  BY <1>1, <1>3, <1>4 DEF Fits
<1> QED BY <1>2, <1>3, <1>5, FitsKept

\* A step of one handler: what it goes on with fits, so they all do.
LEMMA FlowsKept ==
    ASSUME Phone!RoomsAssumption, PhoneTypes, FlowsFit, Grows
    PROVE  \A f \in Flows, h \in Handler :
              /\ Fits(h, page'.room, made', lines', typedIn')
              /\ \/ flow' = [flow EXCEPT ![f] = h] /\ page'.room = page.room
                 \/ flow' = [Phone!NewView EXCEPT ![f] = h]
              => FlowsFit'
<1> SUFFICES ASSUME NEW f \in Flows, NEW h \in Handler,
                    Fits(h, page'.room, made', lines', typedIn'),
                    \/ flow' = [flow EXCEPT ![f] = h] /\ page'.room = page.room
                    \/ flow' = [Phone!NewView EXCEPT ![f] = h],
                    NEW g \in Flows
             PROVE  Fits(flow'[g], page'.room, made', lines', typedIn')
  BY DEF FlowsFit
<1>1. flow \in [Flows -> Handler] /\ Phone!NewView \in [Flows -> Handler]
  BY HandlerTypes DEF PhoneTypes
<1>2. Fits(flow[g], page.room, made, lines, typedIn)
  BY DEF FlowsFit
<1>3. CASE g = f
  BY <1>1, <1>3
<1>4. CASE g # f /\ flow' = [flow EXCEPT ![f] = h] /\ page'.room = page.room
  BY <1>1, <1>2, <1>4, FitsKept
<1>5. CASE g # f /\ flow' = [Phone!NewView EXCEPT ![f] = h]
  BY <1>1, <1>5, ViewFits
<1> QED BY <1>3, <1>4, <1>5

\* Nothing of the drafts, the transcripts and the room shown is touched.
Quiet == /\ Grows
         /\ page'.room = page.room /\ page'.events = page.events /\ page'.input = page.input
         /\ stored' = stored /\ typedIn' = typedIn
         /\ writer'.now = writer.now /\ writer'.next = writer.next

\* A step that is quiet keeps the drafts where they belong.
LEMMA QuietFits ==
    ASSUME Phone!RoomsAssumption, PhoneTypes, DraftsFit
    PROVE  /\ made' = made /\ lines' = lines /\ typedIn' = typedIn => Grows
           /\ Quiet => DraftsFit'
<1>1. made' = made /\ lines' = lines /\ typedIn' = typedIn => Grows
  BY DEF Grows
<1>2. Quiet => DraftsFit'
  <2> SUFFICES ASSUME Quiet PROVE DraftsFit'
    OBVIOUS
  <2>1. page.room \in made /\ page.room \in Rooms /\ page.events \in Seq(Phone!Texts)
    BY DEF DraftsFit, PhoneTypes, Page
  <2>2. page'.room \in made' /\ IsPrefix(page'.events, lines'[page'.room])
    BY <2>1 DEF Quiet, Grows, DraftsFit
  <2>3. /\ \A r \in Rooms : Belongs(r, stored'[r], typedIn')
        /\ Belongs(page'.room, page'.input, typedIn')
        /\ Belongs(writer'.now.room, writer'.now.text, typedIn')
        /\ Belongs(writer'.next.room, writer'.next.text, typedIn')
    BY DEF Quiet, DraftsFit
  <2>4. Phone!Typed' = Phone!Typed
    BY DEF Quiet, Phone!Typed
  <2> QED BY <2>2, <2>3, <2>4 DEF DraftsFit
<1> QED BY <1>1, <1>2

\* The handler gone on to is one of the kind that fits.
LEMMA FitsIdle ==
    ASSUME Phone!RoomsAssumption
    PROVE  \A shown, rooms, posted, typed :
              /\ Fits(Phone!Idle, shown, rooms, posted, typed)
              /\ Fits([Phone!Idle EXCEPT !.kind = "submit", !.pc = "status", !.same = TRUE],
                      shown, rooms, posted, typed)
              /\ Fits([Phone!Idle EXCEPT !.kind = "open", !.pc = "status"],
                      shown, rooms, posted, typed)
              /\ Fits([Phone!Idle EXCEPT !.kind = "reproject", !.pc = "status"],
                      shown, rooms, posted, typed)
  BY DEF Fits, Phone!Idle

\* The parts of a handler's step leave handlers that fit.
LEMMA HandlersFit ==
    ASSUME Phone!RoomsAssumption, PhoneTypes, FlowsFit, Grows
    PROVE  /\ \A f \in Flows, h \in Handler :
                 /\ Fits(h, page'.room, made', lines', typedIn')
                 /\ Phone!Awaits(f, h, flow) \/ Phone!Continues(f, h, flow)
                 /\ page'.room = page.room
                 => FlowsFit'
           /\ \A f \in Flows, h \in Handler :
                 /\ Fits(h, page'.room, made', lines', typedIn')
                 /\ Phone!Continues(f, h, Phone!NewView)
                 => FlowsFit'
           /\ \A f \in Flows : Phone!Done(f, flow) /\ page'.room = page.room => FlowsFit'
           /\ \A f \in Flows : Phone!Done(f, Phone!NewView) => FlowsFit'
           /\ \A f \in Flows : Phone!Ends(f) /\ page'.room = page.room => FlowsFit'
           /\ flow' = flow /\ page'.room = page.room => FlowsFit'
           /\ flow' = Phone!NewView => FlowsFit'
<1>1. ASSUME NEW f \in Flows, NEW h \in Handler,
             Fits(h, page'.room, made', lines', typedIn'),
             Phone!Awaits(f, h, flow) \/ Phone!Continues(f, h, flow), page'.room = page.room
      PROVE  FlowsFit'
  BY <1>1, FlowsKept DEF Phone!Awaits, Phone!Continues
<1>2. ASSUME NEW f \in Flows, NEW h \in Handler,
             Fits(h, page'.room, made', lines', typedIn'), Phone!Continues(f, h, Phone!NewView)
      PROVE  FlowsFit'
  BY <1>2, FlowsKept DEF Phone!Continues
<1>3. ASSUME NEW f \in Flows, Phone!Done(f, flow), page'.room = page.room PROVE FlowsFit'
  BY <1>3, FlowsKept, FitsIdle, IdleType DEF Phone!Done
<1>4. ASSUME NEW f \in Flows, Phone!Done(f, Phone!NewView) PROVE FlowsFit'
  BY <1>4, FlowsKept, FitsIdle, IdleType DEF Phone!Done
<1>5. ASSUME NEW f \in Flows, Phone!Ends(f), page'.room = page.room PROVE FlowsFit'
  <2> DEFINE h == [Phone!Idle EXCEPT !.kind = "submit", !.pc = "status", !.same = TRUE]
  <2>1. h \in Handler
    BY IdleType DEF Handler, HandlerKinds, HandlerSteps
  <2>2. Fits(h, page'.room, made', lines', typedIn')
    BY FitsIdle
  <2>3. Phone!Continues(f, h, flow) \/ Phone!Done(f, flow)
    BY <1>5 DEF Phone!Ends
  <2> HIDE DEF h
  <2> QED BY <2>1, <2>2, <2>3, <1>1, <1>3, <1>5
<1>6. ASSUME flow' = flow, page'.room = page.room PROVE FlowsFit'
  <2>1. \A g \in Flows : flow[g] \in Handler
    BY DEF PhoneTypes
  <2> QED BY <1>6, <2>1, FitsKept DEF FlowsFit
<1>7. ASSUME flow' = Phone!NewView PROVE FlowsFit'
  BY <1>7, ViewFits DEF FlowsFit
<1> QED BY <1>1, <1>2, <1>3, <1>4, <1>5, <1>6, <1>7

\* What the writer takes belongs to the room it was noted with.
LEMMA WriterFits ==
    ASSUME Phone!RoomsAssumption, PhoneTypes
    PROVE  /\ \A draft, failed, calls :
                 /\ Phone!Drained(draft, failed, calls)
                 /\ Belongs(draft.room, draft.text, typedIn')
                 => /\ Belongs(writer'.now.room, writer'.now.text, typedIn')
                    /\ Belongs(writer'.next.room, writer'.next.text, typedIn')
           /\ \A text :
                 /\ Phone!QueueDraft(text)
                 /\ Belongs(page.room, text, typedIn')
                 /\ Belongs(writer.now.room, writer.now.text, typedIn')
                 => /\ Belongs(writer'.now.room, writer'.now.text, typedIn')
                    /\ Belongs(writer'.next.room, writer'.next.text, typedIn')
<1>1. ASSUME NEW draft, NEW failed, NEW calls, Phone!Drained(draft, failed, calls),
             Belongs(draft.room, draft.text, typedIn')
      PROVE  /\ Belongs(writer'.now.room, writer'.now.text, typedIn')
             /\ Belongs(writer'.next.room, writer'.next.text, typedIn')
  <2>1. writer'.now \in {draft, Phone!NoDraft} /\ writer'.next = Phone!NoDraft
    BY <1>1 DEF Phone!Drained
  <2>2. Belongs(Phone!NoDraft.room, Phone!NoDraft.text, typedIn')
    BY DEF Belongs, Phone!NoDraft
  <2> QED BY <1>1, <2>1, <2>2
<1>2. ASSUME NEW text, Phone!QueueDraft(text), Belongs(page.room, text, typedIn'),
             Belongs(writer.now.room, writer.now.text, typedIn')
      PROVE  /\ Belongs(writer'.now.room, writer'.now.text, typedIn')
             /\ Belongs(writer'.next.room, writer'.next.text, typedIn')
  <2> DEFINE draft == [room |-> page.room, text |-> text]
  <2>1. draft.room = page.room /\ draft.text = text
    OBVIOUS
  <2>2. CASE writer.busy
    <3>1. writer' = [writer EXCEPT !.next = draft, !.newest = FALSE]
      BY <1>2, <2>2 DEF Phone!QueueDraft
    <3>2. writer'.now = writer.now /\ writer'.next = draft
      BY <3>1 DEF PhoneTypes, Writer
    <3> QED BY <1>2, <2>1, <3>2
  <2>3. CASE ~writer.busy
    <3>1. Phone!Drained(draft, writer.failed, queue)
      BY <1>2, <2>3 DEF Phone!QueueDraft
    <3> HIDE DEF draft
    <3> QED BY <1>1, <1>2, <2>1, <3>1
  <2> QED BY <2>2, <2>3
<1> QED BY <1>1, <1>2

\* The library's operators are the same ones inside the instance.
LEMMA PhoneOperators ==
    /\ \A S : Phone!Cardinality(S) = Cardinality(S)
    /\ \A s, t : Phone!IsPrefix(s, t) = IsPrefix(s, t)
    /\ \A s : Phone!Last(s) = Last(s)
<1>1. \A S : Phone!Cardinality(S) = Cardinality(S)
  BY DEF Phone!Cardinality, Cardinality
<1>2. \A s, t : Phone!IsPrefix(s, t) = IsPrefix(s, t)
  BY DEF Phone!IsPrefix, IsPrefix
<1>3. \A s : Phone!Last(s) = Last(s)
  BY DEF Phone!Last, Last
<1> QED BY <1>1, <1>2, <1>3

\* Every step keeps the drafts where they belong and the handlers fitting.
LEMMA FitsStep ==
    ASSUME Phone!RoomsAssumption, PhoneTypes, FlowsFit, DraftsFit, [Phone!Next]_(Phone!vars)
    PROVE  FlowsFit' /\ DraftsFit'
<1> USE DEF Phone!database, HandlerSteps
<1>0. /\ \A f \in Flows : /\ flow[f] \in Handler
                          /\ Fits(flow[f], page.room, made, lines, typedIn)
      /\ flow \in [Flows -> Handler] /\ page.room \in made /\ page.room \in Rooms
      /\ page.room # None /\ Phone!Idle \in Handler /\ made \subseteq Rooms
      /\ \A h \in Handler, step \in HandlerSteps : [h EXCEPT !.pc = step] \in Handler
      /\ page \in Page /\ writer \in Writer
  <2>1. ASSUME NEW h \in Handler, NEW step \in HandlerSteps
        PROVE  [h EXCEPT !.pc = step] \in Handler
    BY DEF Handler
  <2>2. page.room \in made /\ page.room \in Rooms /\ page.room # None
    BY DEF DraftsFit, PhoneTypes, Phone!RoomsAssumption
  <2>3. \A f \in Flows : flow[f] \in Handler /\ Fits(flow[f], page.room, made, lines, typedIn)
    BY DEF FlowsFit, PhoneTypes
  <2>4. flow \in [Flows -> Handler] /\ Phone!Idle \in Handler /\ made \subseteq Rooms
    BY IdleType DEF PhoneTypes
  <2> QED BY <2>1, <2>2, <2>3, <2>4 DEF PhoneTypes
<1>0a. /\ \A r \in made : IsPrefix(lines[r], lines[r]) /\ Belongs(r, stored[r], typedIn)
       /\ Belongs(page.room, page.input, typedIn) /\ page.room \in made /\ made \subseteq Rooms
  <2>1. made \subseteq Rooms /\ \A r \in made : lines[r] \in Seq(Phone!Texts)
    BY DEF PhoneTypes
  <2> QED BY <2>1, PrefixProperties DEF DraftsFit
<1>1. CASE UNCHANGED Phone!vars
  <2>1. Grows
    BY <1>1, QuietFits DEF Phone!vars
  <2>2. Quiet /\ flow' = flow
    BY <1>1, <2>1 DEF Phone!vars, Quiet
  <2> QED BY <2>1, <2>2, QuietFits, HandlersFit DEF Quiet
<1>2. ASSUME NEW text \in Phone!Texts \cup {0}, Phone!Type(text) PROVE FlowsFit' /\ DraftsFit'
  <2>1. PICK n \in Nat : Phone!Typed = 1..n
    BY DEF DraftsFit
  <2>2. Cardinality(Phone!Typed) = n
    BY <2>1, FS_Interval
  <2>3. \/ text = 0 /\ typedIn' = typedIn
        \/ text \in Phone!Texts /\ text = n + 1 /\ typedIn' = [typedIn EXCEPT ![text] = page.room]
    BY <1>2, <2>2, PhoneOperators DEF Phone!Type
  <2>4. /\ made' = made /\ lines' = lines /\ stored' = stored /\ flow' = flow
        /\ page' = [page EXCEPT !.input = text] /\ Phone!QueueDraft(text)
    BY <1>2 DEF Phone!Type
  <2>5. \A t \in Phone!Texts : typedIn[t] # None => typedIn'[t] = typedIn[t]
    <3>1. text \in Phone!Texts /\ text = n + 1 => typedIn[text] = None
      <4>1. text \in Phone!Texts /\ text = n + 1 => text \notin Phone!Typed
        BY <2>1
      <4> QED BY <4>1 DEF Phone!Typed
    <3> QED BY <2>3, <3>1 DEF PhoneTypes
  <2>6. Grows
    BY <2>4, <2>5 DEF Grows
  <2>7. Belongs(page.room, text, typedIn')
    BY <2>3, <1>0 DEF Belongs, PhoneTypes
  <2>8. Belongs(writer.now.room, writer.now.text, typedIn')
    <3>1. writer.now.text \in Phone!Texts \cup {0}
      BY <1>0 DEF Writer, Draft
    <3> QED BY <2>6, <3>1, FitsKept DEF DraftsFit
  <2>9. /\ Belongs(writer'.now.room, writer'.now.text, typedIn')
        /\ Belongs(writer'.next.room, writer'.next.text, typedIn')
    BY <2>4, <2>7, <2>8, WriterFits
  <2>10. \A r \in Rooms : Belongs(r, stored'[r], typedIn')
    <3>1. \A r \in Rooms : stored[r] \in Phone!Texts \cup {0} /\ Belongs(r, stored[r], typedIn)
      BY DEF PhoneTypes, DraftsFit
    <3> QED BY <2>4, <2>6, <3>1, FitsKept
  <2>11. page'.room = page.room /\ page'.input = text /\ page'.events = page.events
    BY <2>4, <1>0 DEF Page
  <2>12. \E m \in Nat : Phone!Typed' = 1..m
    <3>1. CASE text = 0 /\ typedIn' = typedIn
      BY <3>1, <2>1 DEF Phone!Typed
    <3>2. CASE text \in Phone!Texts /\ text = n + 1 /\ typedIn' = [typedIn EXCEPT ![text] = page.room]
      <4>1. typedIn \in [Phone!Texts -> Rooms \cup {None}]
        BY DEF PhoneTypes
      <4>2. \A t \in Phone!Texts : typedIn'[t] = IF t = n + 1 THEN page.room ELSE typedIn[t]
        BY <3>2, <4>1
      <4>3. Phone!Typed' = Phone!Typed \cup {n + 1}
        BY <3>2, <4>2, <1>0 DEF Phone!Typed
      <4>4. Phone!Typed' = 1..(n + 1) /\ n + 1 \in Nat
        BY <4>3, <2>1
      <4> QED BY <4>4
    <3> QED BY <2>3, <3>1, <3>2
  <2>13. FlowsFit'
    BY <2>4, <2>6, <2>11, HandlersFit
  <2>14. page'.room \in made' /\ IsPrefix(page'.events, lines'[page'.room])
    BY <2>4, <2>11 DEF DraftsFit
  <2> QED BY <2>7, <2>9, <2>10, <2>11, <2>12, <2>13, <2>14 DEF DraftsFit
<1>3. CASE Phone!RetryDraft
  <2>1. Grows /\ page'.room = page.room /\ flow' = flow
    BY <1>3, QuietFits DEF Phone!RetryDraft
  <2>2. /\ Belongs(page.room, page.input, typedIn')
        /\ Belongs(writer.now.room, writer.now.text, typedIn')
    BY <1>3 DEF Phone!RetryDraft, DraftsFit
  <2>3. /\ Belongs(writer'.now.room, writer'.now.text, typedIn')
        /\ Belongs(writer'.next.room, writer'.next.text, typedIn')
    BY <1>3, <2>2, WriterFits DEF Phone!RetryDraft
  <2> QED BY <1>3, <2>1, <2>3, HandlersFit DEF Phone!RetryDraft, DraftsFit, Phone!Typed
<1>4. CASE Phone!WriteDraft
  <2>1. Grows /\ page' = page /\ flow' = flow /\ typedIn' = typedIn /\ made' = made /\ lines' = lines
    BY <1>4, QuietFits DEF Phone!WriteDraft
  <2>2. /\ Belongs(writer'.now.room, writer'.now.text, typedIn')
        /\ Belongs(writer'.next.room, writer'.next.text, typedIn')
    <3>1. Belongs(writer.next.room, writer.next.text, typedIn')
      BY <2>1 DEF DraftsFit
    <3>2. PICK failed, calls : Phone!Drained(writer.next, failed, calls)
      BY <1>4 DEF Phone!WriteDraft
    <3> QED BY <3>1, <3>2, WriterFits
  <2>3. \A r \in Rooms : Belongs(r, stored'[r], typedIn')
    BY <1>4, <2>1 DEF Phone!WriteDraft, Phone!SaveDraft, PhoneTypes, DraftsFit, Belongs
  <2> QED BY <2>1, <2>2, <2>3, HandlersFit DEF DraftsFit, Phone!Typed
<1>5. CASE Phone!Show("picker") \/ Phone!Show("rooms")
  <2>1. Grows
    BY <1>5, QuietFits DEF Phone!Show
  <2>2. Quiet /\ flow' = Phone!NewView
    BY <1>5, <1>0, <2>1 DEF Phone!Show, Quiet, Page
  <2> QED BY <2>1, <2>2, QuietFits, HandlersFit
<1>6. ASSUME NEW f \in Flows, Phone!Blur(f) PROVE FlowsFit' /\ DraftsFit'
  <2> DEFINE h ==
      [Phone!Idle EXCEPT !.kind = "blur", !.pc = "save", !.at = page.room, !.text = page.input]
  <2>1. Grows
    BY <1>6, QuietFits DEF Phone!Blur
  <2>2. Quiet
    BY <1>6, <1>0, <2>1 DEF Phone!Blur, Quiet, Page
  <2>3. h \in Handler
    BY IdleType DEF PhoneTypes, Handler, HandlerKinds, HandlerSteps, Page
  <2>4. Phone!Awaits(f, h, flow)
    BY <1>6 DEF Phone!Blur
  <2>5. Fits(h, page.room, made, lines, typedIn)
    BY <1>6, <1>0 DEF Phone!Blur, Fits, Phone!Idle, DraftsFit
  <2> HIDE DEF h
  <2>6. Fits(h, page'.room, made', lines', typedIn')
    BY <2>1, <2>2, <2>3, <2>5, FitsKept DEF Quiet
  <2> QED BY <2>1, <2>2, <2>3, <2>4, <2>6, QuietFits, HandlersFit DEF Quiet
<1>7. ASSUME NEW f \in Flows, Phone!Cancel(f) PROVE FlowsFit' /\ DraftsFit'
  <2> DEFINE h ==
      [Phone!Idle EXCEPT !.kind = "cancel", !.pc = "room", !.room = page.room, !.same = TRUE]
  <2>1. Grows
    BY <1>7, QuietFits DEF Phone!Cancel
  <2>2. Quiet
    BY <1>7, <1>0, <2>1 DEF Phone!Cancel, Quiet, Page
  <2>3. h \in Handler
    BY IdleType DEF PhoneTypes, Handler, HandlerKinds, HandlerSteps, Page
  <2>4. Phone!Awaits(f, h, flow)
    BY <1>7 DEF Phone!Cancel
  <2>5. Fits(h, page.room, made, lines, typedIn)
    BY <1>7, <1>0 DEF Phone!Cancel, Fits, Phone!Idle, DraftsFit
  <2> HIDE DEF h
  <2>6. Fits(h, page'.room, made', lines', typedIn')
    BY <2>1, <2>2, <2>3, <2>5, FitsKept DEF Quiet
  <2> QED BY <2>1, <2>2, <2>3, <2>4, <2>6, QuietFits, HandlersFit DEF Quiet
<1>8. ASSUME NEW f \in Flows, Phone!Reconcile(f) PROVE FlowsFit' /\ DraftsFit'
  <2> DEFINE h == [Phone!Idle EXCEPT !.kind = "reproject", !.pc = "status"]
  <2>1. Grows
    BY <1>8, QuietFits DEF Phone!Reconcile
  <2>2. Quiet
    BY <1>8, <1>0, <2>1 DEF Phone!Reconcile, Quiet, Page
  <2>3. h \in Handler
    BY IdleType DEF PhoneTypes, Handler, HandlerKinds, HandlerSteps, Page
  <2>4. Phone!Awaits(f, h, flow)
    BY <1>8 DEF Phone!Reconcile
  <2>5. Fits(h, page.room, made, lines, typedIn)
    BY <1>8, <1>0 DEF Phone!Reconcile, Fits, Phone!Idle, DraftsFit
  <2> HIDE DEF h
  <2>6. Fits(h, page'.room, made', lines', typedIn')
    BY <2>1, <2>2, <2>3, <2>5, FitsKept DEF Quiet
  <2> QED BY <2>1, <2>2, <2>3, <2>4, <2>6, QuietFits, HandlersFit DEF Quiet
<1>9. ASSUME NEW f \in Flows, Phone!Submit(f) PROVE FlowsFit' /\ DraftsFit'
  <2> DEFINE h ==
      [Phone!Idle EXCEPT !.kind = "submit", !.pc = "status", !.room = page.room, !.same = TRUE]
  <2>1. Grows
    BY <1>9, QuietFits DEF Phone!Submit
  <2>2. Quiet
    BY <1>9, <1>0, <2>1 DEF Phone!Submit, Quiet, Page
  <2>3. h \in Handler
    BY IdleType DEF PhoneTypes, Handler, HandlerKinds, HandlerSteps, Page
  <2>4. Phone!Awaits(f, h, flow)
    BY <1>9 DEF Phone!Submit
  <2>5. Fits(h, page.room, made, lines, typedIn)
    BY <1>9, <1>0 DEF Phone!Submit, Fits, Phone!Idle, DraftsFit
  <2> HIDE DEF h
  <2>6. Fits(h, page'.room, made', lines', typedIn')
    BY <2>1, <2>2, <2>3, <2>5, FitsKept DEF Quiet
  <2> QED BY <2>1, <2>2, <2>3, <2>4, <2>6, QuietFits, HandlersFit DEF Quiet
<1>10. ASSUME NEW f \in Flows, NEW r \in Rooms, Phone!OpenRoom(f, r) PROVE FlowsFit' /\ DraftsFit'
  <2> DEFINE h == [Phone!Idle EXCEPT !.kind = "open", !.pc = "select", !.room = r]
  <2>1. Grows
    BY <1>10, QuietFits DEF Phone!OpenRoom
  <2>2. Quiet
    BY <1>10, <1>0, <2>1 DEF Phone!OpenRoom, Quiet, Page
  <2>3. h \in Handler
    BY IdleType DEF PhoneTypes, Handler, HandlerKinds, HandlerSteps, Page
  <2>4. Phone!Awaits(f, h, flow)
    BY <1>10 DEF Phone!OpenRoom
  <2>5. Fits(h, page.room, made, lines, typedIn)
    BY <1>10, <1>0 DEF Phone!OpenRoom, Fits, Phone!Idle, DraftsFit
  <2> HIDE DEF h
  <2>6. Fits(h, page'.room, made', lines', typedIn')
    BY <2>1, <2>2, <2>3, <2>5, FitsKept DEF Quiet
  <2> QED BY <2>1, <2>2, <2>3, <2>4, <2>6, QuietFits, HandlersFit DEF Quiet
<1>11. ASSUME NEW f \in Flows, NEW r \in Rooms, Phone!Create(f, r) PROVE FlowsFit' /\ DraftsFit'
  <2> DEFINE h == [Phone!Idle EXCEPT !.kind = "create", !.pc = "create", !.room = r]
  <2>1. Grows
    BY <1>11, QuietFits DEF Phone!Create
  <2>2. Quiet
    BY <1>11, <1>0, <2>1 DEF Phone!Create, Quiet, Page
  <2>3. h \in Handler
    BY IdleType DEF PhoneTypes, Handler, HandlerKinds, HandlerSteps, Page
  <2>4. Phone!Awaits(f, h, flow)
    BY <1>11 DEF Phone!Create
  <2>5. Fits(h, page.room, made, lines, typedIn)
    BY <1>11, <1>0 DEF Phone!Create, Fits, Phone!Idle, DraftsFit
  <2> HIDE DEF h
  <2>6. Fits(h, page'.room, made', lines', typedIn')
    BY <2>1, <2>2, <2>3, <2>5, FitsKept DEF Quiet
  <2> QED BY <2>1, <2>2, <2>3, <2>4, <2>6, QuietFits, HandlersFit DEF Quiet
<1>12. ASSUME NEW f \in Flows, Phone!Blurred(f) PROVE FlowsFit' /\ DraftsFit'
  <2>1. Grows /\ page' = page /\ typedIn' = typedIn /\ made' = made /\ lines' = lines
    BY <1>12, QuietFits DEF Phone!Blurred
  <2>2. writer'.now = writer.now /\ writer'.next = writer.next
    BY <1>12, <1>0 DEF Phone!Blurred, Writer
  <2>3. \A r \in Rooms : Belongs(r, stored'[r], typedIn')
    <3>1. Belongs(flow[f].at, flow[f].text, typedIn)
      BY <1>12, <1>0 DEF Phone!Blurred, Phone!At, Fits
    <3> QED BY <1>12, <2>1, <3>1 DEF Phone!Blurred, Phone!SaveDraft, PhoneTypes, DraftsFit, Belongs
  <2>4. DraftsFit'
    BY <2>1, <2>2, <2>3 DEF DraftsFit, Phone!Typed
  <2> QED BY <1>12, <2>1, <2>4, HandlersFit DEF Phone!Blurred
<1>13. ASSUME NEW f \in Flows, Phone!Unreadable(f) PROVE FlowsFit' /\ DraftsFit'
  <2>1. Grows
    BY <1>13, QuietFits DEF Phone!Unreadable
  <2>2. Quiet
    BY <1>13, <1>0, <2>1 DEF Phone!Unreadable, Quiet, Page, Phone!Rendered
  <2>3. Phone!Done(f, flow) \/ Phone!Ends(f)
    BY <1>13 DEF Phone!Unreadable
  <2> QED BY <2>1, <2>2, <2>3, QuietFits, HandlersFit DEF Quiet
<1>14. ASSUME NEW f \in Flows, Phone!StatusForRoom(f) PROVE FlowsFit' /\ DraftsFit'
  <2> DEFINE h == [flow[f] EXCEPT !.pc = "select", !.room = page.room, !.same = TRUE]
  <2>1. Grows
    BY <1>14, QuietFits DEF Phone!StatusForRoom
  <2>2. Quiet
    BY <1>14, <1>0, <2>1 DEF Phone!StatusForRoom, Quiet, Page, Phone!Rendered
  <2>3. h \in Handler
    <3>1. flow[f] \in Handler
      BY <1>14, <1>0 DEF Phone!StatusForRoom, Phone!At, Fits, PhoneTypes
    <3> QED BY <3>1 DEF Handler, HandlerSteps, PhoneTypes, Page
  <2>4. \/ Phone!Continues(f, h, flow)
        \/ Phone!Done(f, flow)
        \/ Phone!Ends(f)
    BY <1>14 DEF Phone!StatusForRoom
  <2>5. /\ h.kind = flow[f].kind /\ h.at = flow[f].at /\ h.text = flow[f].text
        /\ h.events = flow[f].events
        /\ h.pc = "select" /\ h.room = page.room /\ h.same = TRUE
    <3>1. flow[f] \in Handler
      BY <1>0
    <3> QED BY <3>1 DEF Handler
  <2> HIDE DEF h
  <2>6. Fits(h, page.room, made, lines, typedIn)
    <3>1. Fits(flow[f], page.room, made, lines, typedIn)
      BY <1>0
    <3> QED BY <1>14, <2>5, <3>1, <1>0a DEF Phone!StatusForRoom, Phone!At, Fits
  <2>7. Fits(h, page'.room, made', lines', typedIn')
    BY <2>1, <2>2, <2>3, <2>6, FitsKept DEF Quiet
  <2> QED BY <2>1, <2>2, <2>3, <2>4, <2>7, QuietFits, HandlersFit DEF Quiet
<1>15. ASSUME NEW f \in Flows, Phone!SelectRoom(f) PROVE FlowsFit' /\ DraftsFit'
  <2> DEFINE h == [flow[f] EXCEPT !.pc = "room"]
  <2>1. Grows
    BY <1>15, QuietFits DEF Phone!SelectRoom
  <2>2. Quiet
    BY <1>15, <1>0, <2>1 DEF Phone!SelectRoom, Quiet, Page
  <2>3. h \in Handler
    BY <1>0
  <2>4. \/ Phone!Continues(f, h, flow)
        \/ Phone!Done(f, flow)
        \/ Phone!Ends(f)
    BY <1>15 DEF Phone!SelectRoom
  <2>5. /\ h.kind = flow[f].kind /\ h.room = flow[f].room /\ h.at = flow[f].at
        /\ h.text = flow[f].text /\ h.events = flow[f].events /\ h.same = flow[f].same
        /\ h.pc = "room"
    <3>1. flow[f] \in Handler
      BY <1>0
    <3> QED BY <3>1 DEF Handler
  <2> HIDE DEF h
  <2>6. Fits(h, page.room, made, lines, typedIn)
    <3>1. Fits(flow[f], page.room, made, lines, typedIn)
      BY <1>0
    <3> QED BY <1>15, <2>5, <3>1, <1>0a DEF Phone!SelectRoom, Phone!At, Fits
  <2>7. Fits(h, page'.room, made', lines', typedIn')
    BY <2>1, <2>2, <2>3, <2>6, FitsKept DEF Quiet
  <2> QED BY <2>1, <2>2, <2>3, <2>4, <2>7, QuietFits, HandlersFit DEF Quiet
<1>16. ASSUME NEW f \in Flows, Phone!FindRoom(f) PROVE FlowsFit' /\ DraftsFit'
  <2> DEFINE h == [flow[f] EXCEPT !.pc = "events"]
  <2>1. Grows
    BY <1>16, QuietFits DEF Phone!FindRoom
  <2>2. Quiet
    BY <1>16, <1>0, <2>1 DEF Phone!FindRoom, Quiet, Page
  <2>3. h \in Handler
    BY <1>0
  <2>4. \/ Phone!Continues(f, h, flow)
        \/ Phone!Done(f, flow)
        \/ Phone!Ends(f)
    BY <1>16 DEF Phone!FindRoom
  <2>5. /\ h.kind = flow[f].kind /\ h.room = flow[f].room /\ h.at = flow[f].at
        /\ h.text = flow[f].text /\ h.events = flow[f].events /\ h.same = flow[f].same
        /\ h.pc = "events"
    <3>1. flow[f] \in Handler
      BY <1>0
    <3> QED BY <3>1 DEF Handler
  <2> HIDE DEF h
  <2>6. Fits(h, page.room, made, lines, typedIn)
    <3>1. Fits(flow[f], page.room, made, lines, typedIn)
      BY <1>0
    <3> QED BY <1>16, <2>5, <3>1, <1>0a DEF Phone!FindRoom, Phone!At, Fits
  <2>7. Fits(h, page'.room, made', lines', typedIn')
    BY <2>1, <2>2, <2>3, <2>6, FitsKept DEF Quiet
  <2> QED BY <2>1, <2>2, <2>3, <2>4, <2>7, QuietFits, HandlersFit DEF Quiet
<1>17. ASSUME NEW f \in Flows, Phone!ReadEvents(f) PROVE FlowsFit' /\ DraftsFit'
  <2> DEFINE h == [flow[f] EXCEPT !.pc = "draft", !.events = lines[flow[f].room]]
  <2>1. Grows
    BY <1>17, QuietFits DEF Phone!ReadEvents
  <2>2. Quiet
    BY <1>17, <1>0, <2>1 DEF Phone!ReadEvents, Quiet, Page
  <2>3. h \in Handler
    <3>1. flow[f] \in Handler /\ lines[flow[f].room] \in Seq(Phone!Texts)
      BY <1>17, <1>0 DEF Phone!ReadEvents, Phone!At, Fits, PhoneTypes
    <3> QED BY <3>1 DEF Handler, HandlerSteps, PhoneTypes, Page
  <2>4. \/ Phone!Continues(f, h, flow)
        \/ Phone!Done(f, flow)
        \/ Phone!Ends(f)
    BY <1>17 DEF Phone!ReadEvents
  <2>5. /\ h.kind = flow[f].kind /\ h.room = flow[f].room /\ h.at = flow[f].at
        /\ h.text = flow[f].text /\ h.same = flow[f].same
        /\ h.pc = "draft" /\ h.events = lines[flow[f].room]
    <3>1. flow[f] \in Handler
      BY <1>0
    <3> QED BY <3>1 DEF Handler
  <2> HIDE DEF h
  <2>6. Fits(h, page.room, made, lines, typedIn)
    <3>1. Fits(flow[f], page.room, made, lines, typedIn)
      BY <1>0
    <3> QED BY <1>17, <2>5, <3>1, <1>0a DEF Phone!ReadEvents, Phone!At, Fits
  <2>7. Fits(h, page'.room, made', lines', typedIn')
    BY <2>1, <2>2, <2>3, <2>6, FitsKept DEF Quiet
  <2> QED BY <2>1, <2>2, <2>3, <2>4, <2>7, QuietFits, HandlersFit DEF Quiet
<1>18. ASSUME NEW f \in Flows, Phone!ReadDraft(f) PROVE FlowsFit' /\ DraftsFit'
  <2> DEFINE h == [flow[f] EXCEPT !.pc = "confirm", !.text = stored[flow[f].room]]
  <2>1. Grows
    BY <1>18, QuietFits DEF Phone!ReadDraft
  <2>2. Quiet
    BY <1>18, <1>0, <2>1 DEF Phone!ReadDraft, Quiet, Page
  <2>3. h \in Handler
    <3>1. flow[f] \in Handler /\ stored[flow[f].room] \in Phone!Texts \cup {0}
      BY <1>18, <1>0 DEF Phone!ReadDraft, Phone!At, Fits, PhoneTypes
    <3> QED BY <3>1 DEF Handler, HandlerSteps, PhoneTypes, Page
  <2>4. \/ Phone!Continues(f, h, flow)
        \/ Phone!Done(f, flow)
        \/ Phone!Ends(f)
    BY <1>18 DEF Phone!ReadDraft
  <2>5. /\ h.kind = flow[f].kind /\ h.room = flow[f].room /\ h.at = flow[f].at
        /\ h.events = flow[f].events /\ h.same = flow[f].same
        /\ h.pc = "confirm" /\ h.text = stored[flow[f].room]
    <3>1. flow[f] \in Handler
      BY <1>0
    <3> QED BY <3>1 DEF Handler
  <2> HIDE DEF h
  <2>6. Fits(h, page.room, made, lines, typedIn)
    <3>1. Fits(flow[f], page.room, made, lines, typedIn)
      BY <1>0
    <3> QED BY <1>18, <2>5, <3>1, <1>0a DEF Phone!ReadDraft, Phone!At, Fits
  <2>7. Fits(h, page'.room, made', lines', typedIn')
    BY <2>1, <2>2, <2>3, <2>6, FitsKept DEF Quiet
  <2> QED BY <2>1, <2>2, <2>3, <2>4, <2>7, QuietFits, HandlersFit DEF Quiet
<1>19. ASSUME NEW f \in Flows, Phone!Reopen(f) PROVE FlowsFit' /\ DraftsFit'
  <2>1. Grows
    BY <1>19, QuietFits DEF Phone!Reopen
  <2>2. CASE ~Phone!MayRender(f)
    <3>1. Quiet
      BY <1>19, <2>2, <1>0, <2>1 DEF Phone!Reopen, Quiet, Page, Phone!Rendered
    <3>2. Phone!Done(f, flow)
      BY <1>19, <2>2 DEF Phone!Reopen
    <3> QED BY <2>1, <3>1, <3>2, QuietFits, HandlersFit DEF Quiet
  <2>3. CASE Phone!MayRender(f)
    <3> DEFINE h == [Phone!Idle EXCEPT !.kind = "open", !.pc = "status"]
    <3>1. Phone!Continues(f, h, Phone!NewView) \/ Phone!Done(f, Phone!NewView)
      BY <1>19, <2>3 DEF Phone!Reopen
    <3>2. h \in Handler
      BY IdleType DEF Handler, HandlerKinds, HandlerSteps
    <3>3. Fits(h, page'.room, made', lines', typedIn')
      BY FitsIdle
    <3> HIDE DEF h
    <3>4. FlowsFit'
      BY <2>1, <3>1, <3>2, <3>3, HandlersFit
    <3>5. /\ page'.room = flow[f].room /\ page'.events = flow[f].events /\ page'.input = flow[f].text
      BY <1>19, <2>3 DEF Phone!Reopen, Phone!RenderRoom
    <3>6. /\ flow[f].room \in made /\ IsPrefix(flow[f].events, lines[flow[f].room])
          /\ Belongs(flow[f].room, flow[f].text, typedIn)
      BY <1>19, <1>0 DEF Phone!Reopen, Phone!At, Fits
    <3> QED BY <1>19, <3>4, <3>5, <3>6 DEF Phone!Reopen, DraftsFit, Phone!Typed
  <2> QED BY <2>2, <2>3
<1>20. ASSUME NEW f \in Flows, Phone!RefreshGate(f) PROVE FlowsFit' /\ DraftsFit'
  <2>1. Grows
    BY <1>20, QuietFits DEF Phone!RefreshGate
  <2>2. Quiet
    BY <1>20, <1>0, <2>1 DEF Phone!RefreshGate, Quiet, Page, Phone!Refreshed, Phone!Rendered
  <2>3. Phone!Done(f, flow) \/ Phone!Ends(f)
    BY <1>20 DEF Phone!RefreshGate
  <2> QED BY <2>1, <2>2, <2>3, QuietFits, HandlersFit DEF Quiet
<1>21. ASSUME NEW f \in Flows, Phone!CommitRoom(f) PROVE FlowsFit' /\ DraftsFit'
  <2> DEFINE h == [flow[f] EXCEPT !.pc = "current"]
  <2>1. Grows
    BY <1>21 DEF Phone!CommitRoom, Grows
  <2>2. Quiet
    BY <1>21, <2>1 DEF Phone!CommitRoom, Quiet
  <2>3. h \in Handler
    BY <1>0
  <2>4. Phone!Continues(f, h, flow)
    BY <1>21 DEF Phone!CommitRoom
  <2>5. Fits(h, page'.room, made', lines', typedIn')
    <3>1. flow[f] \in Handler /\ Fits(flow[f], page.room, made, lines, typedIn)
      BY <1>0
    <3> QED BY <1>21, <3>1 DEF Phone!CommitRoom, Phone!At, Fits, Handler
  <2> HIDE DEF h
  <2> QED BY <2>1, <2>2, <2>3, <2>4, <2>5, QuietFits, HandlersFit DEF Quiet
<1>22. ASSUME NEW f \in Flows, Phone!ShowCreated(f) PROVE FlowsFit' /\ DraftsFit'
  <2>1. Grows
    BY <1>22, QuietFits DEF Phone!ShowCreated
  <2>2. CASE current = flow[f].room
    <3>1. page'.room = flow[f].room /\ page'.events = <<>> /\ page'.input = 0
      BY <1>22, <2>2 DEF Phone!ShowCreated, Phone!RenderRoom
    <3>2. flow[f].room \in made
      BY <1>22, <1>0 DEF Phone!ShowCreated, Phone!At, Fits
    <3>3. IsPrefix(<<>>, lines[flow[f].room])
      BY <3>2, PrefixProperties DEF PhoneTypes
    <3>4. FlowsFit'
      BY <1>22, <2>1, <2>2, HandlersFit DEF Phone!ShowCreated
    <3> QED BY <1>22, <3>1, <3>2, <3>3, <3>4 DEF Phone!ShowCreated, DraftsFit, Phone!Typed, Belongs
  <2>3. CASE current # flow[f].room
    <3>1. Quiet /\ Phone!Done(f, flow)
      BY <1>22, <2>1, <2>3 DEF Phone!ShowCreated, Quiet
    <3> QED BY <2>1, <3>1, QuietFits, HandlersFit DEF Quiet
  <2> QED BY <2>2, <2>3
<1>23. ASSUME NEW f \in Flows, Phone!StatusForLine(f) PROVE FlowsFit' /\ DraftsFit'
  <2> DEFINE h == [flow[f] EXCEPT !.pc = "save", !.at = page.room, !.text = page.input]
  <2>1. Grows
    BY <1>23, QuietFits DEF Phone!StatusForLine
  <2>2. Quiet
    BY <1>23, <1>0, <2>1 DEF Phone!StatusForLine, Quiet, Page, Phone!Refreshed, Phone!Rendered
  <2>3. h \in Handler
    <3>1. flow[f] \in Handler
      BY <1>23, <1>0 DEF Phone!StatusForLine, Phone!At, Fits, PhoneTypes
    <3> QED BY <3>1 DEF Handler, HandlerSteps, PhoneTypes, Page
  <2>4. \/ Phone!Continues(f, h, flow)
        \/ Phone!Done(f, flow)
        \/ Phone!Ends(f)
    BY <1>23 DEF Phone!StatusForLine
  <2>5. /\ h.kind = flow[f].kind /\ h.room = flow[f].room /\ h.events = flow[f].events
        /\ h.same = flow[f].same
        /\ h.pc = "save" /\ h.at = page.room /\ h.text = page.input
    <3>1. flow[f] \in Handler
      BY <1>0
    <3> QED BY <3>1 DEF Handler
  <2> HIDE DEF h
  <2>6. Fits(h, page.room, made, lines, typedIn)
    <3>1. Fits(flow[f], page.room, made, lines, typedIn)
      BY <1>0
    <3>2. flow[f].room \in Rooms \cup {None}
      <4>1. flow[f] \in Handler
        BY <1>0
      <4> QED BY <4>1 DEF Handler
    <3> QED BY <1>23, <2>5, <3>1, <1>0a, <3>2 DEF Phone!StatusForLine, Phone!At, Fits
  <2>7. Fits(h, page'.room, made', lines', typedIn')
    BY <2>1, <2>2, <2>3, <2>6, FitsKept DEF Quiet
  <2> QED BY <2>1, <2>2, <2>3, <2>4, <2>7, QuietFits, HandlersFit DEF Quiet
<1>24. ASSUME NEW f \in Flows, Phone!PersistLine(f) PROVE FlowsFit' /\ DraftsFit'
  <2>1. Grows /\ page' = page /\ typedIn' = typedIn /\ made' = made /\ lines' = lines
    BY <1>24, QuietFits DEF Phone!PersistLine
  <2>2. writer'.now = writer.now /\ writer'.next = writer.next
    BY <1>24, <1>0 DEF Phone!PersistLine, Writer
  <2>3. \A r \in Rooms : Belongs(r, stored'[r], typedIn')
    <3>1. Belongs(flow[f].at, flow[f].text, typedIn)
      BY <1>24, <1>0 DEF Phone!PersistLine, Phone!At, Fits
    <3> QED BY <1>24, <2>1, <3>1 DEF Phone!PersistLine, Phone!SaveDraft, PhoneTypes, DraftsFit, Belongs
  <2>4. DraftsFit'
    BY <2>1, <2>2, <2>3 DEF DraftsFit, Phone!Typed
  <2>5. CASE Phone!Ends(f)
    BY <2>1, <2>4, <2>5, HandlersFit
  <2>6. CASE ~Phone!Ends(f)
    <3> DEFINE h == [flow[f] EXCEPT !.pc = "events", !.at = None, !.text = page.input]
    <3>1. Phone!Continues(f, h, flow) /\ page.input # 0
      BY <1>24, <2>6 DEF Phone!PersistLine
    <3>2. flow[f] \in Handler /\ Fits(flow[f], page.room, made, lines, typedIn)
      BY <1>0
    <3>3. h \in Handler
      BY <3>2 DEF Handler, HandlerSteps, PhoneTypes, Page
    <3>4. Belongs(page.room, page.input, typedIn)
      BY DEF DraftsFit
    <3>5. flow[f].kind = "submit" /\ flow[f].pc = "save"
      BY <1>24 DEF Phone!PersistLine, Phone!At
    <3>5a. /\ h.kind = "submit" /\ h.pc = "events" /\ h.room = flow[f].room /\ h.same = flow[f].same
           /\ h.text = page.input
      BY <3>2, <3>5 DEF Handler
    <3> HIDE DEF h
    <3>6. Fits(h, page.room, made, lines, typedIn)
      BY <1>0a, <3>1, <3>2, <3>4, <3>5, <3>5a DEF Fits, Phone!RoomsAssumption
    <3>7. Fits(h, page'.room, made', lines', typedIn')
      BY <2>1, <3>6
    <3> QED BY <2>1, <2>4, <3>1, <3>3, <3>7, HandlersFit
  <2> QED BY <2>5, <2>6
<1>25. ASSUME NEW f \in Flows, Phone!ReadTurns(f) PROVE FlowsFit' /\ DraftsFit'
  <2> DEFINE h == [flow[f] EXCEPT !.pc = "context"]
  <2>1. Grows
    BY <1>25, QuietFits DEF Phone!ReadTurns
  <2>2. Quiet
    BY <1>25, <1>0, <2>1 DEF Phone!ReadTurns, Quiet, Page
  <2>3. h \in Handler
    BY <1>0
  <2>4. \/ Phone!Continues(f, h, flow)
        \/ Phone!Done(f, flow)
        \/ Phone!Ends(f)
    BY <1>25 DEF Phone!ReadTurns
  <2>5. /\ h.kind = flow[f].kind /\ h.room = flow[f].room /\ h.at = flow[f].at
        /\ h.text = flow[f].text /\ h.events = flow[f].events /\ h.same = flow[f].same
        /\ h.pc = "context"
    <3>1. flow[f] \in Handler
      BY <1>0
    <3> QED BY <3>1 DEF Handler
  <2> HIDE DEF h
  <2>6. Fits(h, page.room, made, lines, typedIn)
    <3>1. Fits(flow[f], page.room, made, lines, typedIn)
      BY <1>0
    <3> QED BY <1>25, <2>5, <3>1, <1>0a DEF Phone!ReadTurns, Phone!At, Fits
  <2>7. Fits(h, page'.room, made', lines', typedIn')
    BY <2>1, <2>2, <2>3, <2>6, FitsKept DEF Quiet
  <2> QED BY <2>1, <2>2, <2>3, <2>4, <2>7, QuietFits, HandlersFit DEF Quiet
<1>26. ASSUME NEW f \in Flows, Phone!ReadContext(f) PROVE FlowsFit' /\ DraftsFit'
  <2> DEFINE h == [flow[f] EXCEPT !.pc = "commit", !.events = lines[flow[f].room]]
  <2>1. Grows
    BY <1>26, QuietFits DEF Phone!ReadContext
  <2>2. Quiet
    BY <1>26, <1>0, <2>1 DEF Phone!ReadContext, Quiet, Page
  <2>3. h \in Handler
    <3>1. flow[f] \in Handler /\ lines[flow[f].room] \in Seq(Phone!Texts)
      BY <1>26, <1>0 DEF Phone!ReadContext, Phone!At, Fits, PhoneTypes
    <3> QED BY <3>1 DEF Handler, HandlerSteps, PhoneTypes, Page
  <2>4. \/ Phone!Continues(f, h, flow)
        \/ Phone!Done(f, flow)
        \/ Phone!Ends(f)
    BY <1>26 DEF Phone!ReadContext
  <2>5. /\ h.kind = flow[f].kind /\ h.room = flow[f].room /\ h.at = flow[f].at
        /\ h.text = flow[f].text /\ h.same = flow[f].same
        /\ h.pc = "commit" /\ h.events = lines[flow[f].room]
    <3>1. flow[f] \in Handler
      BY <1>0
    <3> QED BY <3>1 DEF Handler
  <2> HIDE DEF h
  <2>6. Fits(h, page.room, made, lines, typedIn)
    <3>1. Fits(flow[f], page.room, made, lines, typedIn)
      BY <1>0
    <3> QED BY <1>26, <2>5, <3>1, <1>0a DEF Phone!ReadContext, Phone!At, Fits
  <2>7. Fits(h, page'.room, made', lines', typedIn')
    BY <2>1, <2>2, <2>3, <2>6, FitsKept DEF Quiet
  <2> QED BY <2>1, <2>2, <2>3, <2>4, <2>7, QuietFits, HandlersFit DEF Quiet
<1>27. ASSUME NEW f \in Flows, Phone!CommitTurn(f) PROVE FlowsFit' /\ DraftsFit'
  <2> DEFINE h == [flow[f] EXCEPT !.pc = "committed"]
  <2>0. flow[f].room \in Rooms /\ flow[f].text \in Phone!Texts /\ flow[f] \in Handler
    <3>1. flow[f] \in Handler /\ flow[f].room \in Rooms /\ flow[f].text # 0
      BY <1>27, <1>0 DEF Phone!CommitTurn, Phone!At, Fits
    <3> QED BY <3>1 DEF Handler
  <2>1. \A r \in Rooms, s \in Seq(Phone!Texts) : IsPrefix(s, lines[r]) => IsPrefix(s, lines'[r])
    <3>1. \A r \in Rooms : lines[r] \in Seq(Phone!Texts)
      BY DEF PhoneTypes
    <3>2. \A r \in Rooms : lines'[r] = IF r = flow[f].room THEN Append(lines[r], flow[f].text) ELSE lines[r]
      BY <1>27, <2>0 DEF Phone!CommitTurn, PhoneTypes
    <3> QED BY <2>0, <3>1, <3>2, PrefixProperties
  <2>2. Grows
    BY <1>27, <2>1 DEF Phone!CommitTurn, Grows
  <2>3. h \in Handler
    BY <1>0
  <2>4. Phone!Continues(f, h, flow) /\ page' = page
    BY <1>27 DEF Phone!CommitTurn
  <2>5. Fits(h, page.room, made, lines, typedIn)
    <3>1. flow[f] \in Handler /\ Fits(flow[f], page.room, made, lines, typedIn)
      BY <1>0
    <3> QED BY <1>27, <3>1 DEF Phone!CommitTurn, Phone!At, Fits, Handler
  <2> HIDE DEF h
  <2>6. Fits(h, page'.room, made', lines', typedIn')
    BY <2>2, <2>3, <2>4, <2>5, FitsKept
  <2>7. FlowsFit'
    BY <2>2, <2>3, <2>4, <2>6, HandlersFit
  <2>8. \A r \in Rooms : Belongs(r, stored'[r], typedIn')
    BY <1>27, <2>0 DEF Phone!CommitTurn, Phone!SaveDraft, PhoneTypes, DraftsFit, Belongs
  <2>9. IsPrefix(page'.events, lines'[page'.room])
    BY <2>1, <2>4, <1>0 DEF DraftsFit, Page
  <2> QED BY <1>27, <2>7, <2>8, <2>9 DEF Phone!CommitTurn, DraftsFit, Phone!Typed
<1>28. ASSUME NEW f \in Flows, Phone!ShowTurn(f) PROVE FlowsFit' /\ DraftsFit'
  <2>1. Grows
    BY <1>28, QuietFits DEF Phone!ShowTurn
  <2>2. page'.room = page.room
    BY <1>28, <1>0 DEF Phone!ShowTurn, Page
  <2>3. FlowsFit'
    BY <1>28, <2>1, <2>2, HandlersFit DEF Phone!ShowTurn
  <2>4. CASE flow[f].same
    <3>1. flow[f].room = page.room
      BY <1>28, <2>4, <1>0 DEF Phone!ShowTurn, Phone!At, Fits, Phone!RoomsAssumption
    <3>2. page'.events = lines[page.room] /\ page'.input = 0
      BY <1>28, <2>4, <3>1, <1>0 DEF Phone!ShowTurn, Page
    <3>3. IsPrefix(lines[page.room], lines[page.room])
      BY <1>0, PrefixProperties DEF PhoneTypes
    <3> QED BY <1>28, <2>2, <2>3, <3>2, <3>3 DEF Phone!ShowTurn, DraftsFit, Phone!Typed, Belongs
  <2>5. CASE ~flow[f].same
    <3>1. Quiet
      BY <1>28, <2>1, <2>5 DEF Phone!ShowTurn, Quiet
    <3> QED BY <2>3, <3>1, QuietFits
  <2> QED BY <2>4, <2>5
<1>29. ASSUME NEW f \in Flows, Phone!FailLine(f) PROVE FlowsFit' /\ DraftsFit'
  <2>1. Grows
    BY <1>29, QuietFits DEF Phone!FailLine
  <2>2. Quiet
    BY <1>29, <1>0, <2>1 DEF Phone!FailLine, Quiet, Page
  <2>3. Phone!Done(f, flow) \/ Phone!Ends(f)
    BY <1>29 DEF Phone!FailLine
  <2> QED BY <2>1, <2>2, <2>3, QuietFits, HandlersFit DEF Quiet
<1>30. CASE Phone!Lose \/ Phone!Return
  <2>1. Grows
    BY <1>30, QuietFits DEF Phone!Lose, Phone!Return
  <2>2. Quiet /\ flow' = flow
    BY <1>30, <2>1 DEF Phone!Lose, Phone!Return, Quiet
  <2> QED BY <2>1, <2>2, QuietFits, HandlersFit DEF Quiet
<1>31. CASE Phone!Relaunch
  <2>1. current \in made /\ current \in Rooms
    BY DEF PhoneTypes
  <2>2. page'.room = current /\ page'.events = lines[current] /\ page'.input = stored[current]
    BY <1>31 DEF Phone!Relaunch, Phone!Opened
  <2>3. IsPrefix(lines[current], lines[current])
    BY <2>1, PrefixProperties DEF PhoneTypes
  <2>4. FlowsFit'
    BY <1>31, FitsIdle DEF Phone!Relaunch, FlowsFit
  <2>5. /\ Belongs(writer'.now.room, writer'.now.text, typedIn')
        /\ Belongs(writer'.next.room, writer'.next.text, typedIn')
    BY <1>31 DEF Phone!Relaunch, Phone!NoDraft, Belongs
  <2> QED BY <1>31, <2>1, <2>2, <2>3, <2>4, <2>5 DEF Phone!Relaunch, DraftsFit, Phone!Typed
<1> QED
  BY <1>1, <1>2, <1>3, <1>4, <1>5, <1>6, <1>7, <1>8, <1>9, <1>10, <1>11, <1>12, <1>13, <1>14,
     <1>15, <1>16, <1>17, <1>18, <1>19, <1>20, <1>21, <1>22, <1>23, <1>24, <1>25, <1>26, <1>27,
     <1>28, <1>29, <1>30, <1>31 DEF Phone!Next

\* The inductive invariant.
PhoneInv == PhoneTypes /\ FlowsFit /\ DraftsFit

\* The invariant holds at first, and always.
LEMMA PhoneInit == ASSUME Phone!RoomsAssumption, Phone!Init PROVE PhoneInv
<1>1. First \in Saved /\ Saved \subseteq Rooms
  BY DEF Phone!RoomsAssumption
<1>2. <<>> \in Seq(Phone!Texts) /\ Phone!Idle \in Handler /\ Phone!NoDraft \in Draft
  BY IdleType DEF Phone!NoDraft, Draft
<1>3. PhoneTypes
  <2>1. page \in Page
    BY <1>1, <1>2 DEF Phone!Init, Phone!Opened, Page
  <2>2. writer \in Writer
    BY <1>2 DEF Phone!Init, Writer
  <2>3. up \in [ready : BOOLEAN, downs : Nat] /\ flow \in [Flows -> Handler]
    BY <1>2 DEF Phone!Init
  <2> QED BY <1>1, <1>2, <2>1, <2>2, <2>3 DEF Phone!Init, PhoneTypes
<1>4. FlowsFit
  BY FitsIdle DEF Phone!Init, FlowsFit
<1>5. DraftsFit
  <2>1. Phone!Typed = 1..0
    BY DEF Phone!Init, Phone!Typed
  <2>2. page.room = First /\ page.events = <<>> /\ page.input = 0 /\ lines[First] = <<>>
    BY <1>1 DEF Phone!Init, Phone!Opened
  <2>3. IsPrefix(<<>>, <<>>)
    BY <1>2, PrefixProperties
  <2>4. writer.now.text = 0 /\ writer.next.text = 0
    BY DEF Phone!Init, Phone!NoDraft
  <2>5. \A r \in Rooms : stored[r] = 0
    BY DEF Phone!Init
  <2>6. First \in made
    BY <1>1 DEF Phone!Init
  <2> QED BY <2>1, <2>2, <2>3, <2>4, <2>5, <2>6 DEF DraftsFit, Belongs
<1> QED BY <1>3, <1>4, <1>5 DEF PhoneInv

LEMMA PhoneInvariant == ASSUME Phone!RoomsAssumption PROVE Phone!Spec => []PhoneInv
<1>1. Phone!Init => PhoneInv
  BY PhoneInit
<1>2. PhoneInv /\ [Phone!Next]_(Phone!vars) => PhoneInv'
  BY TypesStep, FitsStep DEF PhoneInv
<1> QED BY <1>1, <1>2, PTL DEF Phone!Spec

\* A draft is kept and shown only in the room it was typed in: what is written
\* and what is shown is noted, read and carried together with its room
\* (saveLocalDraft, renderRoom).
THEOREM PhoneDrafts == ASSUME Phone!RoomsAssumption PROVE Phone!Spec => []Phone!DraftsStayInTheirRoom
<1>1. PhoneInv => Phone!DraftsStayInTheirRoom
  BY DEF PhoneInv, DraftsFit, Belongs, Phone!DraftsStayInTheirRoom
<1> QED BY <1>1, PhoneInvariant, PTL

\* The transcript on the page is a beginning of the one of the room on the
\* page, whatever handler wrote it there (renderRoom, the submit handler).
THEOREM PhoneTranscript == ASSUME Phone!RoomsAssumption PROVE Phone!Spec => []Phone!TranscriptIsOfTheRoom
<1>1. PhoneInv => Phone!TranscriptIsOfTheRoom
  BY PhoneOperators DEF PhoneInv, DraftsFit, Phone!TranscriptIsOfTheRoom
<1> QED BY <1>1, PhoneInvariant, PTL

\* A handler that was already running shows no other room and leaves no other
\* view than the user has chosen (reprojectVisibleRoom, reopenAuthoritativeRoom).
THEOREM PhoneNavigation ==
    ASSUME Phone!RoomsAssumption
    PROVE  Phone!Spec => [][Phone!NavigationHolds]_(Phone!vars)
<1>1. PhoneInv /\ [Phone!Next]_(Phone!vars) => [Phone!NavigationHolds]_(Phone!vars)
  <2> SUFFICES ASSUME PhoneInv, Phone!Next, up' = up PROVE Phone!NavigationHolds
    BY DEF Phone!NavigationHolds
  <2> DEFINE Holds == /\ page'.room = page.room
                      /\ page'.view = "room" => page.view = "room"
  <2>1. Holds => Phone!NavigationHolds
    BY DEF Phone!NavigationHolds
  <2>2. page \in Page
    BY DEF PhoneInv, PhoneTypes
  <2>3. page' = page => Holds
    OBVIOUS
  <2>4. \A open : page' = Phone!Rendered(open) => Holds
    BY <2>2 DEF Phone!Rendered, Page
  <2> HIDE DEF Holds
  <2>5. ASSUME NEW text \in Phone!Texts \cup {0}, Phone!Type(text) PROVE Holds
    BY <2>2, <2>5 DEF Phone!Type, Page, Holds
  <2>6. CASE Phone!RetryDraft \/ Phone!WriteDraft
    BY <2>1, <2>3, <2>6 DEF Phone!RetryDraft, Phone!WriteDraft
  <2>7. CASE Phone!Show("picker") \/ Phone!Show("rooms")
    BY <2>2, <2>1, <2>7 DEF Phone!Show, Page, Holds
  <2>8. ASSUME NEW f \in Flows,
               \/ Phone!Blur(f) \/ Phone!Cancel(f) \/ Phone!Reconcile(f)
               \/ Phone!Blurred(f) \/ Phone!SelectRoom(f) \/ Phone!FindRoom(f)
               \/ Phone!ReadEvents(f) \/ Phone!ReadDraft(f) \/ Phone!CommitRoom(f)
               \/ Phone!PersistLine(f) \/ Phone!ReadTurns(f) \/ Phone!ReadContext(f)
               \/ Phone!CommitTurn(f) \/ Phone!FailLine(f)
        PROVE  page' = page
    BY <2>8 DEF Phone!Blur, Phone!Cancel, Phone!Reconcile, Phone!Blurred, Phone!SelectRoom,
                Phone!FindRoom, Phone!ReadEvents, Phone!ReadDraft, Phone!CommitRoom,
                Phone!PersistLine, Phone!ReadTurns, Phone!ReadContext, Phone!CommitTurn, Phone!FailLine
  <2>9. ASSUME NEW f \in Flows, NEW r \in Rooms, Phone!OpenRoom(f, r) \/ Phone!Create(f, r)
        PROVE  page' = page
    BY <2>9 DEF Phone!OpenRoom, Phone!Create
  <2>10. ASSUME NEW f \in Flows,
                \/ Phone!Unreadable(f) \/ Phone!StatusForRoom(f) \/ Phone!RefreshGate(f)
                \/ Phone!StatusForLine(f)
         PROVE  page' = page \/ \E open : page' = Phone!Rendered(open)
    BY <2>10 DEF Phone!Unreadable, Phone!StatusForRoom, Phone!RefreshGate, Phone!StatusForLine,
                 Phone!Refreshed
  <2>11. ASSUME NEW f \in Flows, Phone!Submit(f) \/ Phone!ShowTurn(f) PROVE Holds
    BY <2>2, <2>11 DEF Phone!Submit, Phone!ShowTurn, Page, Holds
  <2>12. ASSUME NEW f \in Flows, Phone!ShowCreated(f) PROVE Phone!NavigationHolds
    BY <2>12 DEF Phone!ShowCreated, Phone!At, Phone!NavigationHolds
  <2>13. ASSUME NEW f \in Flows, Phone!Reopen(f) PROVE Phone!NavigationHolds
    <3>1. CASE ~Phone!MayRender(f)
      BY <2>1, <2>3, <2>4, <2>13, <3>1 DEF Phone!Reopen
    <3>2. CASE Phone!MayRender(f)
      <4>1. page'.room = flow[f].room
        BY <2>13, <3>2 DEF Phone!Reopen, Phone!RenderRoom
      <4>2. /\ Phone!Served(f) /\ flow[f].kind \in {"open", "cancel", "reproject"} /\ flow[f].pc = "confirm"
            /\ Fits(flow[f], page.room, made, lines, typedIn)
        BY <2>13 DEF Phone!Reopen, Phone!At, PhoneInv, FlowsFit
      <4>3. CASE flow[f].kind = "open"
        BY <4>2, <4>3 DEF Phone!NavigationHolds
      <4>4. CASE flow[f].kind = "cancel"
        <5>1. flow[f].same
          BY <3>2, <4>4 DEF Phone!MayRender
        <5>2. page'.room = page.room
          BY <4>1, <4>2, <5>1 DEF Fits, PhoneInv, PhoneTypes, Phone!RoomsAssumption
        <5> QED BY <4>2, <4>4, <5>1, <5>2 DEF Phone!NavigationHolds
      <4>5. CASE flow[f].kind = "reproject"
        <5>1. flow[f].same /\ page.view = "room"
          BY <3>2, <4>5 DEF Phone!MayRender
        <5>2. page'.room = page.room
          BY <4>1, <4>2, <5>1 DEF Fits, PhoneInv, PhoneTypes, Phone!RoomsAssumption
        <5> QED BY <5>1, <5>2 DEF Phone!NavigationHolds
      <4> QED BY <4>2, <4>3, <4>4, <4>5
    <3> QED BY <3>1, <3>2
  <2>14. ~Phone!Relaunch /\ ~Phone!Lose /\ ~Phone!Return
    BY DEF Phone!Relaunch, Phone!Lose, Phone!Return, PhoneInv, PhoneTypes
  <2> QED
    BY <2>1, <2>3, <2>4, <2>5, <2>6, <2>7, <2>8, <2>9, <2>10, <2>11, <2>12, <2>13, <2>14
    DEF Phone!Next
<1> QED BY <1>1, PhoneInvariant, PTL DEF Phone!Spec

\* A line goes to the room its text was typed in as long as its sender still
\* has the view it was sent from (the submit handler, renderRoom).
THEOREM PhoneLines ==
    ASSUME Phone!RoomsAssumption
    PROVE  Phone!Spec => [][Phone!LinesStayInTheirRoom]_(Phone!vars)
<1>1. PhoneInv /\ [Phone!Next]_(Phone!vars) => [Phone!LinesStayInTheirRoom]_(Phone!vars)
  <2> SUFFICES ASSUME PhoneInv, Phone!Next PROVE Phone!LinesStayInTheirRoom
    OBVIOUS
  <2>1. lines' = lines => Phone!LinesStayInTheirRoom
    BY DEF Phone!LinesStayInTheirRoom
  <2>2. ASSUME NEW f \in Flows, Phone!CommitTurn(f) PROVE Phone!LinesStayInTheirRoom
    <3> DEFINE r == flow[f].room
    <3>1. /\ Head(queue) = f /\ flow[f].kind = "submit" /\ flow[f].pc = "commit"
          /\ lines' = [lines EXCEPT ![r] = Append(@, flow[f].text)]
      BY <2>2 DEF Phone!CommitTurn, Phone!At, Phone!Served
    <3>2. flow[f] \in Handler /\ Fits(flow[f], page.room, made, lines, typedIn)
      BY DEF PhoneInv, PhoneTypes, FlowsFit
    <3>3. r \in Rooms /\ flow[f].text # 0 /\ (flow[f].same => Belongs(r, flow[f].text, typedIn))
      BY <3>1, <3>2 DEF Fits
    <3>4. flow[f].text \in Phone!Texts /\ lines[r] \in Seq(Phone!Texts)
      BY <3>2, <3>3 DEF Handler, PhoneInv, PhoneTypes
    <3>5. /\ lines'[r] = Append(lines[r], flow[f].text)
          /\ \A s \in Rooms : s # r => lines'[s] = lines[s]
      BY <3>1, <3>3 DEF PhoneInv, PhoneTypes
    <3>6. Last(lines'[r]) = flow[f].text
      BY <3>4, <3>5, AppendProperties DEF Last
    <3>7. Phone!Last(lines'[r]) = flow[f].text
      BY <3>6, PhoneOperators
    <3> HIDE DEF r
    <3> QED BY <3>1, <3>3, <3>5, <3>7 DEF Phone!LinesStayInTheirRoom, Belongs
  <2>3. lines' = lines \/ \E f \in Flows : Phone!CommitTurn(f)
    BY DEF Phone!Next, Phone!database, Phone!Type, Phone!RetryDraft, Phone!WriteDraft, Phone!Show,
       Phone!Blur,
           Phone!Cancel, Phone!Reconcile, Phone!Submit, Phone!OpenRoom, Phone!Create, Phone!Blurred,
           Phone!Unreadable, Phone!StatusForRoom, Phone!SelectRoom, Phone!FindRoom, Phone!ReadEvents,
           Phone!ReadDraft, Phone!Reopen, Phone!RefreshGate, Phone!CommitRoom, Phone!ShowCreated,
           Phone!StatusForLine, Phone!PersistLine, Phone!ReadTurns, Phone!ReadContext, Phone!ShowTurn,
           Phone!FailLine, Phone!Lose, Phone!Return, Phone!Relaunch
  <2> QED BY <2>1, <2>2, <2>3
<1> QED BY <1>1, PhoneInvariant, PTL DEF Phone!Spec

\* The calls of the bridge: a call joins the queue, ...
LEMMA NewAtTheEnd ==
    ASSUME NEW S, NEW s \in Seq(S), NEW r \in S, IsInjective(s), r \notin ToSet(s)
    PROVE  /\ Append(s, r) \in Seq(S) /\ IsInjective(Append(s, r))
           /\ \A e : e \in ToSet(Append(s, r)) <=> e \in ToSet(s) \/ e = r
  BY NewAtEnd

\* ... and is served.
LEMMA FirstLeaves ==
    ASSUME NEW S, NEW s \in Seq(S), IsInjective(s), s # <<>>
    PROVE  /\ Tail(s) \in Seq(S) /\ IsInjective(Tail(s)) /\ Head(s) \in ToSet(s)
           /\ \A e : e \in ToSet(Tail(s)) <=> e \in ToSet(s) /\ e # Head(s)
<1> DEFINE t == Tail(s)
<1>1. Len(s) \in Nat /\ Len(s) >= 1 /\ DOMAIN s = 1..Len(s) /\ Head(s) = s[1]
  BY LenProperties, EmptySeq
<1>2. /\ t \in Seq(S) /\ Len(t) = Len(s) - 1 /\ DOMAIN t = 1..Len(s) - 1
      /\ \A i \in 1..Len(s) - 1 : t[i] = s[i + 1]
  BY HeadTailProperties, LenProperties
<1> HIDE DEF t
<1>3. IsInjective(t)
  <2> SUFFICES ASSUME NEW i \in 1..Len(s) - 1, NEW j \in 1..Len(s) - 1, t[i] = t[j] PROVE i = j
    BY <1>2 DEF IsInjective
  <2>1. i + 1 \in 1..Len(s) /\ j + 1 \in 1..Len(s) /\ s[i + 1] = s[j + 1]
    BY <1>1, <1>2
  <2>2. i + 1 = j + 1
    BY <1>1, <2>1 DEF IsInjective
  <2> QED BY <2>2
<1>4. ASSUME NEW e \in ToSet(t) PROVE e \in ToSet(s) /\ e # Head(s)
  <2>1. PICK i \in 1..Len(s) - 1 : e = s[i + 1]
    BY <1>2 DEF ToSet
  <2> QED BY <1>1, <2>1 DEF ToSet, IsInjective
<1>5. ASSUME NEW e \in ToSet(s), e # Head(s) PROVE e \in ToSet(t)
  <2>1. PICK i \in 1..Len(s) : e = s[i]
    BY <1>1 DEF ToSet
  <2>2. i - 1 \in 1..Len(s) - 1 /\ s[(i - 1) + 1] = e
    BY <1>1, <1>5, <2>1
  <2> QED BY <1>2, <2>2 DEF ToSet
<1> QED BY <1>1, <1>2, <1>3, <1>4, <1>5 DEF t, ToSet

\* A sequence that repeats nothing is as long as the set of its elements.
LEMMA AsLongAsItsSet ==
    ASSUME NEW S, NEW s \in Seq(S), IsInjective(s)
    PROVE  Len(s) = Cardinality(ToSet(s))
<1>1. Len(s) \in Nat /\ DOMAIN s = 1..Len(s) /\ s \in [1..Len(s) -> S]
  BY LenProperties
<1>2. s \in [1..Len(s) -> ToSet(s)] /\ \A e \in ToSet(s) : \E i \in 1..Len(s) : s[i] = e
  BY <1>1 DEF ToSet
<1>3. s \in Bijection(1..Len(s), ToSet(s))
  BY <1>2 DEF Bijection, Injection, Surjection
<1>4. ExistsBijection(1..Len(s), ToSet(s))
  BY <1>3 DEF ExistsBijection
<1> QED BY <1>1, <1>4, FS_CountingElements

\* Every running handler awaits one call, and so does the writer.
QueueFits ==
    /\ queue \in Seq(Flows \cup {"writer"}) /\ IsInjective(queue)
    /\ \A f \in Flows : flow[f].kind = "idle" <=> f \notin ToSet(queue)
    /\ writer.busy <=> "writer" \in ToSet(queue)

\* A handler's step keeps one call waiting for each handler that runs, ...
LEMMA QueueSteps ==
    ASSUME Phone!RoomsAssumption, PhoneTypes, QueueFits, writer'.busy = writer.busy
    PROVE  /\ \A h : \A f \in Flows :
                 Phone!Awaits(f, h, flow) /\ flow[f] = Phone!Idle /\ h.kind # "idle" => QueueFits'
           /\ \A h : \A f \in Flows, flows \in {flow, Phone!NewView} :
                 Phone!Served(f) /\ Phone!Continues(f, h, flows) /\ h.kind # "idle" => QueueFits'
           /\ \A f \in Flows, flows \in {flow, Phone!NewView} :
                 Phone!Served(f) /\ Phone!Done(f, flows) => QueueFits'
           /\ \A f \in Flows : Phone!Served(f) /\ Phone!Ends(f) => QueueFits'
           /\ flow' \in {flow, Phone!NewView} /\ queue' = queue => QueueFits'
<1> DEFINE S == Flows \cup {"writer"}
<1>0. queue \in Seq(S) /\ IsInjective(queue) /\ "writer" \notin Flows
  BY DEF QueueFits, Phone!RoomsAssumption
<1> HIDE DEF S
<1>0a. Flows \subseteq S /\ "writer" \in S
  BY DEF S
<1>1. ASSUME NEW flows \in {flow, Phone!NewView}
      PROVE  flows \in [Flows -> Handler] /\ \A g \in Flows : flows[g].kind = flow[g].kind
  <2>1. flow \in [Flows -> Handler] /\ Phone!NewView \in [Flows -> Handler]
    BY HandlerTypes DEF PhoneTypes
  <2>2. ASSUME NEW g \in Flows PROVE Phone!NewView[g].kind = flow[g].kind
    <3>1. flow[g] \in Handler
      BY <2>1
    <3> QED BY <3>1 DEF Phone!NewView, Handler
  <2> QED BY <2>1, <2>2
<1>2. ASSUME NEW f \in Flows, NEW h,
             Phone!Awaits(f, h, flow), flow[f] = Phone!Idle, h.kind # "idle"
      PROVE  QueueFits'
  <2>1. queue' = Append(queue, f) /\ flow' = [flow EXCEPT ![f] = h]
    BY <1>2 DEF Phone!Awaits
  <2>2. f \notin ToSet(queue)
    BY <1>2 DEF QueueFits, Phone!Idle
  <2>3. /\ queue' \in Seq(S) /\ IsInjective(queue')
        /\ \A e : e \in ToSet(queue') <=> e \in ToSet(queue) \/ e = f
    BY <1>0, <1>0a, <2>1, <2>2, NewAtTheEnd
  <2>4. \A g \in Flows : flow'[g] = IF g = f THEN h ELSE flow[g]
    BY <2>1, <1>1
  <2> QED BY <1>0, <1>2, <2>3, <2>4 DEF QueueFits, S
<1>3. ASSUME NEW f \in Flows, NEW h, NEW flows \in {flow, Phone!NewView},
             Phone!Served(f), Phone!Continues(f, h, flows), h.kind # "idle"
      PROVE  QueueFits'
  <2>1. /\ queue' = Append(Tail(queue), f) /\ flow' = [flows EXCEPT ![f] = h]
        /\ queue # <<>> /\ Head(queue) = f
    BY <1>3 DEF Phone!Continues, Phone!Served
  <2>2. /\ Tail(queue) \in Seq(S) /\ IsInjective(Tail(queue)) /\ f \in ToSet(queue)
        /\ \A e : e \in ToSet(Tail(queue)) <=> e \in ToSet(queue) /\ e # f
    BY <1>0, <2>1, FirstLeaves
  <2>3. /\ queue' \in Seq(S) /\ IsInjective(queue')
        /\ \A e : e \in ToSet(queue') <=> e \in ToSet(Tail(queue)) \/ e = f
    <3> DEFINE calls == Tail(queue)
    <3>1. /\ calls \in Seq(S) /\ IsInjective(calls) /\ f \in S /\ f \notin ToSet(calls)
          /\ queue' = Append(calls, f)
      BY <1>0a, <2>1, <2>2
    <3> HIDE DEF calls
    <3>2. /\ queue' \in Seq(S) /\ IsInjective(queue')
          /\ \A e : e \in ToSet(queue') <=> e \in ToSet(calls) \/ e = f
      BY <3>1, NewAtTheEnd
    <3> QED BY <3>2 DEF calls
  <2>4. \A g \in Flows : flow'[g].kind = IF g = f THEN h.kind ELSE flow[g].kind
    BY <2>1, <1>1
  <2> QED BY <1>0, <1>3, <2>2, <2>3, <2>4 DEF QueueFits, S
<1>4. ASSUME NEW f \in Flows, NEW flows \in {flow, Phone!NewView}, Phone!Served(f), Phone!Done(f, flows)
      PROVE  QueueFits'
  <2>1. /\ queue' = Tail(queue) /\ flow' = [flows EXCEPT ![f] = Phone!Idle]
        /\ queue # <<>> /\ Head(queue) = f
    BY <1>4 DEF Phone!Done, Phone!Served
  <2>2. /\ queue' \in Seq(S) /\ IsInjective(queue')
        /\ \A e : e \in ToSet(queue') <=> e \in ToSet(queue) /\ e # f
    BY <1>0, <2>1, FirstLeaves
  <2>3. \A g \in Flows : flow'[g].kind = IF g = f THEN "idle" ELSE flow[g].kind
    BY <2>1, <1>1 DEF Phone!Idle
  <2> QED BY <1>0, <2>2, <2>3 DEF QueueFits, S
<1>5. ASSUME NEW f \in Flows, Phone!Served(f), Phone!Ends(f) PROVE QueueFits'
  <2> DEFINE h == [Phone!Idle EXCEPT !.kind = "submit", !.pc = "status", !.same = TRUE]
  <2>1. h.kind # "idle"
    BY DEF Phone!Idle
  <2>2. Phone!Continues(f, h, flow) \/ Phone!Done(f, flow)
    BY <1>5 DEF Phone!Ends
  <2> HIDE DEF h
  <2> QED BY <1>3, <1>4, <1>5, <2>1, <2>2
<1>6. ASSUME flow' \in {flow, Phone!NewView}, queue' = queue PROVE QueueFits'
  BY <1>1, <1>6 DEF QueueFits
<1> QED BY <1>2, <1>3, <1>4, <1>5, <1>6

\* ... and the writer's one for itself.
LEMMA QueueWriter ==
    ASSUME Phone!RoomsAssumption, PhoneTypes, QueueFits, flow' = flow
    PROVE  /\ \A text : Phone!QueueDraft(text) => QueueFits'
           /\ \A draft, failed :
                 Phone!Served("writer") /\ Phone!Drained(draft, failed, Tail(queue)) => QueueFits'
<1> DEFINE S == Flows \cup {"writer"}
<1>0. queue \in Seq(S) /\ IsInjective(queue) /\ "writer" \notin Flows
  BY DEF QueueFits, Phone!RoomsAssumption
<1> HIDE DEF S
<1>0a. "writer" \in S
  BY DEF S
<1>1. ASSUME NEW calls \in Seq(S), IsInjective(calls), "writer" \notin ToSet(calls),
             \A f \in Flows : f \in ToSet(calls) <=> f \in ToSet(queue),
             NEW draft, NEW failed, Phone!Drained(draft, failed, calls)
      PROVE  QueueFits'
  <2>1. CASE draft # Phone!NoDraft /\ gate
    <3>1. queue' = Append(calls, "writer") /\ writer'.busy
      BY <1>1, <2>1 DEF Phone!Drained
    <3>2. /\ queue' \in Seq(S) /\ IsInjective(queue')
          /\ \A e : e \in ToSet(queue') <=> e \in ToSet(calls) \/ e = "writer"
      <4> DEFINE w == "writer"
      <4>1. /\ w \in S /\ w \notin ToSet(calls) /\ queue' = Append(calls, w)
            /\ calls \in Seq(S) /\ IsInjective(calls)
        BY <1>0a, <1>1, <3>1
      <4> HIDE DEF w
      <4>2. /\ queue' \in Seq(S) /\ IsInjective(queue')
            /\ \A e : e \in ToSet(queue') <=> e \in ToSet(calls) \/ e = w
        BY <4>1, NewAtTheEnd
      <4> QED BY <4>2 DEF w
    <3> QED BY <1>0, <1>1, <3>1, <3>2 DEF QueueFits, S
  <2>2. CASE ~(draft # Phone!NoDraft /\ gate)
    <3>1. queue' = calls /\ ~writer'.busy
      BY <1>1, <2>2 DEF Phone!Drained
    <3> QED BY <1>0, <1>1, <3>1 DEF QueueFits, S
  <2> QED BY <2>1, <2>2
<1>2. ASSUME NEW text, Phone!QueueDraft(text) PROVE QueueFits'
  <2> DEFINE draft == [room |-> page.room, text |-> text]
  <2>1. CASE writer.busy
    <3>1. writer'.busy = writer.busy /\ queue' = queue
      BY <1>2, <2>1 DEF Phone!QueueDraft, PhoneTypes, Writer
    <3> QED BY <3>1, QueueSteps
  <2>2. CASE ~writer.busy
    <3>1. Phone!Drained(draft, writer.failed, queue)
      BY <1>2, <2>2 DEF Phone!QueueDraft
    <3>2. "writer" \notin ToSet(queue)
      BY <2>2 DEF QueueFits
    <3> HIDE DEF draft
    <3> QED BY <1>0, <1>1, <3>1, <3>2
  <2> QED BY <2>1, <2>2
<1>3. ASSUME NEW draft, NEW failed, Phone!Served("writer"), Phone!Drained(draft, failed, Tail(queue))
      PROVE  QueueFits'
  <2>1. queue # <<>> /\ Head(queue) = "writer"
    BY <1>3 DEF Phone!Served
  <2>2. /\ Tail(queue) \in Seq(S) /\ IsInjective(Tail(queue))
        /\ \A e : e \in ToSet(Tail(queue)) <=> e \in ToSet(queue) /\ e # "writer"
    BY <1>0, <2>1, FirstLeaves
  <2>3. \A f \in Flows : f \in ToSet(Tail(queue)) <=> f \in ToSet(queue)
    BY <1>0, <2>2
  <2> QED BY <1>1, <1>3, <2>2, <2>3
<1> QED BY <1>2, <1>3

\* Every step does.
LEMMA QueueStep ==
    ASSUME Phone!RoomsAssumption, PhoneTypes, FlowsFit, QueueFits, [Phone!Next]_(Phone!vars)
    PROVE  QueueFits'
<1>0. Phone!Idle \in Handler /\ \A f \in Flows : flow[f] \in Handler
  BY IdleType DEF PhoneTypes
<1>1. CASE UNCHANGED Phone!vars
  BY <1>1, QueueSteps DEF Phone!vars
<1>2. ASSUME NEW text \in Phone!Texts \cup {0}, Phone!Type(text) PROVE QueueFits'
  BY <1>2, QueueWriter DEF Phone!Type
<1>3. CASE Phone!RetryDraft
  BY <1>3, QueueWriter DEF Phone!RetryDraft
<1>4. CASE Phone!WriteDraft
  BY <1>4, QueueWriter DEF Phone!WriteDraft
<1>5. CASE \/ Phone!Show("picker") \/ Phone!Show("rooms") \/ Phone!Lose \/ Phone!Return
  BY <1>5, QueueSteps DEF Phone!Show, Phone!Lose, Phone!Return
\* A handler begins: ...
<1>6. ASSUME NEW f \in Flows,
             Phone!Blur(f) \/ Phone!Cancel(f) \/ Phone!Reconcile(f) \/ Phone!Submit(f)
      PROVE  QueueFits'
  <2>1. /\ flow[f] = Phone!Idle /\ writer' = writer
        /\ \E h : Phone!Awaits(f, h, flow) /\ h.kind # "idle"
    <3>1. CASE Phone!Blur(f)
      <4> DEFINE h ==
          [Phone!Idle EXCEPT !.kind = "blur", !.pc = "save", !.at = page.room, !.text = page.input]
      <4>1. h.kind # "idle"
        BY DEF Phone!Idle
      <4>2. flow[f] = Phone!Idle /\ writer' = writer /\ Phone!Awaits(f, h, flow)
        BY <3>1 DEF Phone!Blur
      <4> HIDE DEF h
      <4> QED BY <4>1, <4>2
    <3>2. CASE Phone!Cancel(f)
      <4> DEFINE h ==
          [Phone!Idle EXCEPT !.kind = "cancel", !.pc = "room", !.room = page.room, !.same = TRUE]
      <4>1. h.kind # "idle"
        BY DEF Phone!Idle
      <4>2. flow[f] = Phone!Idle /\ writer' = writer /\ Phone!Awaits(f, h, flow)
        BY <3>2 DEF Phone!Cancel
      <4> HIDE DEF h
      <4> QED BY <4>1, <4>2
    <3>3. CASE Phone!Reconcile(f)
      <4> DEFINE h == [Phone!Idle EXCEPT !.kind = "reproject", !.pc = "status"]
      <4>1. h.kind # "idle"
        BY DEF Phone!Idle
      <4>2. flow[f] = Phone!Idle /\ writer' = writer /\ Phone!Awaits(f, h, flow)
        BY <3>3 DEF Phone!Reconcile
      <4> HIDE DEF h
      <4> QED BY <4>1, <4>2
    <3>4. CASE Phone!Submit(f)
      <4> DEFINE h ==
          [Phone!Idle EXCEPT !.kind = "submit", !.pc = "status", !.room = page.room, !.same = TRUE]
      <4>1. h.kind # "idle"
        BY DEF Phone!Idle
      <4>2. flow[f] = Phone!Idle /\ writer' = writer /\ Phone!Awaits(f, h, flow)
        BY <3>4 DEF Phone!Submit
      <4> HIDE DEF h
      <4> QED BY <4>1, <4>2
    <3> QED BY <1>6, <3>1, <3>2, <3>3, <3>4
  <2> QED BY <2>1, QueueSteps
<1>6a. ASSUME NEW f \in Flows, NEW r \in Rooms, Phone!OpenRoom(f, r) \/ Phone!Create(f, r)
       PROVE  QueueFits'
  <2>1. /\ flow[f] = Phone!Idle /\ writer' = writer
        /\ \E h : Phone!Awaits(f, h, flow) /\ h.kind # "idle"
    <3>1. CASE Phone!OpenRoom(f, r)
      <4> DEFINE h == [Phone!Idle EXCEPT !.kind = "open", !.pc = "select", !.room = r]
      <4>1. h.kind # "idle"
        BY DEF Phone!Idle
      <4>2. flow[f] = Phone!Idle /\ writer' = writer /\ Phone!Awaits(f, h, flow)
        BY <3>1 DEF Phone!OpenRoom
      <4> HIDE DEF h
      <4> QED BY <4>1, <4>2
    <3>2. CASE Phone!Create(f, r)
      <4> DEFINE h == [Phone!Idle EXCEPT !.kind = "create", !.pc = "create", !.room = r]
      <4>1. h.kind # "idle"
        BY DEF Phone!Idle
      <4>2. flow[f] = Phone!Idle /\ writer' = writer /\ Phone!Awaits(f, h, flow)
        BY <3>2 DEF Phone!Create
      <4> HIDE DEF h
      <4> QED BY <4>1, <4>2
    <3> QED BY <1>6a, <3>1, <3>2
  <2> QED BY <2>1, QueueSteps
\* ... goes on, or is done.
<1>7. ASSUME NEW f \in Flows, writer'.busy = writer.busy, Phone!Served(f),
             \/ \E h : /\ h.kind # "idle"
                       /\ Phone!Continues(f, h, flow) \/ Phone!Continues(f, h, Phone!NewView)
             \/ Phone!Done(f, flow) \/ Phone!Done(f, Phone!NewView) \/ Phone!Ends(f)
      PROVE  QueueFits'
  <2>1. ASSUME NEW h, h.kind # "idle",
               Phone!Continues(f, h, flow) \/ Phone!Continues(f, h, Phone!NewView)
        PROVE  QueueFits'
    <3>1. ASSUME NEW flows \in {flow, Phone!NewView}, Phone!Continues(f, h, flows) PROVE QueueFits'
      BY <1>7, <2>1, <3>1, QueueSteps
    <3> QED BY <2>1, <3>1
  <2>2. CASE Phone!Done(f, flow) \/ Phone!Done(f, Phone!NewView) \/ Phone!Ends(f)
    BY <1>7, <2>2, QueueSteps
  <2> QED BY <1>7, <2>1, <2>2
<1>8. \A f \in Flows : /\ flow[f].kind # "idle" =>
                            /\ \A step : [flow[f] EXCEPT !.pc = step].kind # "idle"
                            /\ \A step, events :
                                  [flow[f] EXCEPT !.pc = step, !.events = events].kind # "idle"
                            /\ \A step, text : [flow[f] EXCEPT !.pc = step, !.text = text].kind # "idle"
                            /\ \A step, at, text :
                                  [flow[f] EXCEPT !.pc = step, !.at = at, !.text = text].kind # "idle"
                            /\ \A step, room :
                                  [flow[f] EXCEPT !.pc = step, !.room = room, !.same = TRUE].kind # "idle"
  <2> SUFFICES ASSUME NEW f \in Flows, flow[f] \in Handler, flow[f].kind # "idle"
               PROVE  /\ \A step : [flow[f] EXCEPT !.pc = step].kind # "idle"
                      /\ \A step, events :
                            [flow[f] EXCEPT !.pc = step, !.events = events].kind # "idle"
                      /\ \A step, text : [flow[f] EXCEPT !.pc = step, !.text = text].kind # "idle"
                      /\ \A step, at, text :
                            [flow[f] EXCEPT !.pc = step, !.at = at, !.text = text].kind # "idle"
                      /\ \A step, room :
                            [flow[f] EXCEPT !.pc = step, !.room = room, !.same = TRUE].kind # "idle"
    BY <1>0
  <2> QED BY DEF Handler
<1>9. ASSUME NEW f \in Flows, Phone!StatusForRoom(f) PROVE QueueFits'
  <2>1. flow[f].kind # "idle" /\ Phone!Served(f)
    BY <1>9 DEF Phone!StatusForRoom, Phone!At
  <2> QED BY <1>9, <2>1, <1>7, <1>8 DEF Phone!StatusForRoom
<1>10. ASSUME NEW f \in Flows, Phone!SelectRoom(f) PROVE QueueFits'
  <2>1. flow[f].kind # "idle" /\ Phone!Served(f)
    BY <1>10 DEF Phone!SelectRoom, Phone!At
  <2> QED BY <1>10, <2>1, <1>7, <1>8 DEF Phone!SelectRoom
<1>11. ASSUME NEW f \in Flows, Phone!FindRoom(f) PROVE QueueFits'
  <2>1. flow[f].kind # "idle" /\ Phone!Served(f)
    BY <1>11 DEF Phone!FindRoom, Phone!At
  <2> QED BY <1>11, <2>1, <1>7, <1>8 DEF Phone!FindRoom
<1>12. ASSUME NEW f \in Flows, Phone!ReadEvents(f) PROVE QueueFits'
  <2>1. flow[f].kind # "idle" /\ Phone!Served(f)
    BY <1>12 DEF Phone!ReadEvents, Phone!At
  <2> QED BY <1>12, <2>1, <1>7, <1>8 DEF Phone!ReadEvents
<1>13. ASSUME NEW f \in Flows, Phone!ReadDraft(f) PROVE QueueFits'
  <2>1. flow[f].kind # "idle" /\ Phone!Served(f)
    BY <1>13 DEF Phone!ReadDraft, Phone!At
  <2> QED BY <1>13, <2>1, <1>7, <1>8 DEF Phone!ReadDraft
<1>14. ASSUME NEW f \in Flows, Phone!CommitRoom(f) PROVE QueueFits'
  <2>1. flow[f].kind # "idle" /\ Phone!Served(f)
    BY <1>14 DEF Phone!CommitRoom, Phone!At
  <2> QED BY <1>14, <2>1, <1>7, <1>8 DEF Phone!CommitRoom
<1>15. ASSUME NEW f \in Flows, Phone!StatusForLine(f) PROVE QueueFits'
  <2>1. flow[f].kind # "idle" /\ Phone!Served(f)
    BY <1>15 DEF Phone!StatusForLine, Phone!At
  <2> QED BY <1>15, <2>1, <1>7, <1>8 DEF Phone!StatusForLine
<1>16. ASSUME NEW f \in Flows, Phone!PersistLine(f) PROVE QueueFits'
  <2>1. writer'.busy = writer.busy
    BY <1>16 DEF Phone!PersistLine, PhoneTypes, Writer
  <2>2. flow[f].kind # "idle" /\ Phone!Served(f)
    BY <1>16 DEF Phone!PersistLine, Phone!At
  <2>3. CASE Phone!Ends(f)
    BY <2>1, <2>2, <2>3, <1>7
  <2>4. CASE ~Phone!Ends(f)
    <3> DEFINE h == [flow[f] EXCEPT !.pc = "events", !.at = None, !.text = page.input]
    <3>1. Phone!Continues(f, h, flow)
      BY <1>16, <2>4 DEF Phone!PersistLine
    <3>2. h.kind # "idle"
      BY <2>2, <1>8
    <3> HIDE DEF h
    <3> QED BY <2>1, <2>2, <3>1, <3>2, <1>7
  <2> QED BY <2>3, <2>4
<1>17. ASSUME NEW f \in Flows, Phone!ReadTurns(f) PROVE QueueFits'
  <2>1. flow[f].kind # "idle" /\ Phone!Served(f)
    BY <1>17 DEF Phone!ReadTurns, Phone!At
  <2> QED BY <1>17, <2>1, <1>7, <1>8 DEF Phone!ReadTurns
<1>18. ASSUME NEW f \in Flows, Phone!ReadContext(f) PROVE QueueFits'
  <2>1. flow[f].kind # "idle" /\ Phone!Served(f)
    BY <1>18 DEF Phone!ReadContext, Phone!At
  <2> QED BY <1>18, <2>1, <1>7, <1>8 DEF Phone!ReadContext
<1>19. ASSUME NEW f \in Flows, Phone!CommitTurn(f) PROVE QueueFits'
  <2>1. flow[f].kind # "idle" /\ Phone!Served(f)
    BY <1>19 DEF Phone!CommitTurn, Phone!At
  <2> QED BY <1>19, <2>1, <1>7, <1>8 DEF Phone!CommitTurn
<1>20. ASSUME NEW f \in Flows, Phone!Blurred(f) PROVE QueueFits'
  <2>1. writer'.busy = writer.busy
    BY <1>20 DEF Phone!Blurred, PhoneTypes, Writer
  <2> QED BY <1>20, <2>1, <1>7 DEF Phone!Blurred, Phone!At
<1>21. ASSUME NEW f \in Flows, Phone!Unreadable(f) PROVE QueueFits'
  BY <1>21, <1>7 DEF Phone!Unreadable, Phone!At
<1>22. ASSUME NEW f \in Flows, Phone!RefreshGate(f) PROVE QueueFits'
  BY <1>22, <1>7 DEF Phone!RefreshGate, Phone!At
<1>23. ASSUME NEW f \in Flows, Phone!ShowCreated(f) PROVE QueueFits'
  BY <1>23, <1>7 DEF Phone!ShowCreated, Phone!At
<1>24. ASSUME NEW f \in Flows, Phone!ShowTurn(f) PROVE QueueFits'
  BY <1>24, <1>7 DEF Phone!ShowTurn, Phone!At
<1>25. ASSUME NEW f \in Flows, Phone!FailLine(f) PROVE QueueFits'
  BY <1>25, <1>7 DEF Phone!FailLine, Phone!At
<1>26. ASSUME NEW f \in Flows, Phone!Reopen(f) PROVE QueueFits'
  <2> DEFINE h == [Phone!Idle EXCEPT !.kind = "open", !.pc = "status"]
  <2>1. h.kind # "idle"
    BY DEF Phone!Idle
  <2>2. \/ Phone!Continues(f, h, Phone!NewView)
        \/ Phone!Done(f, flow) \/ Phone!Done(f, Phone!NewView)
    BY <1>26 DEF Phone!Reopen
  <2> HIDE DEF h
  <2> QED BY <1>26, <2>1, <2>2, <1>7 DEF Phone!Reopen, Phone!At
<1>27. CASE Phone!Relaunch
  <2>1. queue' = <<>> /\ ~writer'.busy /\ \A f \in Flows : flow'[f].kind = "idle"
    BY <1>27 DEF Phone!Relaunch, Phone!Idle
  <2> QED BY <2>1 DEF QueueFits, IsInjective, ToSet
<1> QED
  BY <1>1, <1>2, <1>3, <1>4, <1>5, <1>6, <1>6a, <1>9, <1>10, <1>11, <1>12, <1>13, <1>14, <1>15,
     <1>16, <1>17, <1>18, <1>19, <1>20, <1>21, <1>22, <1>23, <1>24, <1>25, <1>26, <1>27 DEF
     Phone!Next

\* The calls that wait on the bridge are one for each handler that runs and one
\* for the writer, while a draft is written.
THEOREM PhoneTyping == ASSUME Phone!RoomsAssumption PROVE Phone!Spec => []Phone!TypeOK
<1>1. Phone!Init => PhoneInv /\ QueueFits
  <2>1. Phone!Init => QueueFits
    BY DEF Phone!Init, QueueFits, Phone!Idle, IsInjective, ToSet
  <2> QED BY <2>1, PhoneInit
<1>2. PhoneInv /\ QueueFits /\ [Phone!Next]_(Phone!vars) => PhoneInv' /\ QueueFits'
  BY TypesStep, FitsStep, QueueStep DEF PhoneInv
<1>3. PhoneInv /\ QueueFits => Phone!TypeOK
  <2> SUFFICES ASSUME PhoneInv, QueueFits PROVE Phone!TypeOK
    OBVIOUS
  <2>1. Phone!Range(queue) = ToSet(queue)
    BY DEF Phone!Range, ToSet
  <2>2. Len(queue) = Phone!Cardinality(Phone!Range(queue))
    BY <2>1, AsLongAsItsSet, PhoneOperators DEF QueueFits
  <2>3. \A r \in Rooms : lines[r] \in Seq(Phone!Texts)
    BY DEF PhoneInv, PhoneTypes
  <2> QED BY <2>1, <2>2, <2>3 DEF Phone!TypeOK, PhoneInv, PhoneTypes, DraftsFit, QueueFits, Page
<1> QED BY <1>1, <1>2, <1>3, PTL DEF Phone!Spec

=============================================================================
