-------------------------- MODULE CredentialProofs --------------------------
(***************************************************************************)
(* Proofs about ProviderCredentials, for every set of keys and mutation    *)
(* ids and every bound on revisions, and in the second half about          *)
(* PhoneCredentials, the key of the iPhone, for every bound on revisions,  *)
(* reservations, faults and stops.                                         *)
(***************************************************************************)
EXTENDS ProviderCredentials, SequenceTheorems, FiniteSetTheorems, TLAPS

\* The iPhone application: the bounds and the state of PhoneCredentials.
CONSTANTS MaxRevision, MaxMutations, MaxFaults, MaxStops

VARIABLES rows, item, selected, room, process, booted, reconciled, holder, work, sheet, save, removal,
          target, said, minted, faults, stops

Phone == INSTANCE PhoneCredentials

-----------------------------------------------------------------------------
(* The entries of the store *)

\* The three sorts of entry differ, and a whole secret names its request.
LEMMA EntryKinds ==
    /\ Absent.kind = "absent" /\ Torn.kind = "torn"
    /\ \A k, m : Whole(k, m).kind = "whole" /\ Whole(k, m).by = m
    /\ Torn # Absent
    /\ \A k, m : Whole(k, m) # Absent
<1>1. Absent.kind = "absent" /\ Torn.kind = "torn"
  BY DEF Absent, Torn
<1>2. \A k, m : Whole(k, m).kind = "whole" /\ Whole(k, m).by = m
  BY DEF Whole
<1>3. QED
  BY <1>1, <1>2

LEMMA EntryTypes ==
    /\ Absent \in Entries /\ Torn \in Entries
    /\ \A k \in Keys, m \in Mutations \cup {NoMutation} : Whole(k, m) \in Entries
  BY DEF Entries

\* The record of a mutation under way keeps its request from step to step.
LEMMA OpFields ==
    ASSUME TypeOK, NEW at \in Steps, NEW reply \in Replies
    PROVE  /\ Proceed(at) => /\ op'.kind = op.kind /\ op'.expected = op.expected
                             /\ op'.mid = op.mid /\ op'.key = op.key
                             /\ op'.attempt = op.attempt /\ op'.at = at
                             /\ op'.reply = op.reply
           /\ Reply(reply) => /\ op'.kind = op.kind /\ op'.expected = op.expected
                              /\ op'.mid = op.mid /\ op'.key = op.key
                              /\ op'.attempt = op.attempt /\ op'.at = "idle"
                              /\ op'.reply = reply
  BY DEF TypeOK, Proceed, Reply

-----------------------------------------------------------------------------
(* The invariant *)

LEMMA InitCredInv == Init => CredInv
<1> SUFFICES ASSUME Init PROVE CredInv
  OBVIOUS
<1>1. TypeOK
  BY CredentialAssumption, EntryTypes
     DEF Init, TypeOK, Revisions, Kinds, Steps, Replies, Attempts
<1>2. op.kind = "create" /\ op.expected = 0 /\ op.mid = NoMutation /\ op.at = "idle"
  BY DEF Init
<1>3. RowShape /\ RequestShape
  BY <1>2 DEF Init, RowShape, RequestShape
<1>4. Serialised /\ Prepared
  BY <1>2 DEF Serialised, Prepared
<1>5. ResidueBounded
  BY DEF Init, ResidueBounded, Holds
<1>6. SecretMatchesMutation
  BY DEF Init, SecretMatchesMutation
<1>7. QED
  BY <1>1, <1>3, <1>4, <1>5, <1>6 DEF CredInv

\* A request starts a mutation from the row it read, or is answered at once.
LEMMA RequestStep == CredInv /\ Request => CredInv'
<1> SUFFICES ASSUME CredInv, Request PROVE CredInv'
  OBVIOUS
<1>1. UNCHANGED <<rev, status, mutation, vault>>
  BY DEF Request, Create, Replace, Disable, Delete, row
<1>2. op' \in [kind : Kinds, expected : 0 .. MaxRev - 1,
               mid : Mutations \cup {NoMutation}, key : Keys,
               attempt : Attempts, at : Steps, reply : Replies]
  <2> USE CredentialAssumption DEF Kinds, Steps, Replies, Attempts, Started, Answered, CleansFirst
  <2>1. CASE \E key \in Keys : Create(key)
    BY <2>1 DEF Create, CredInv, TypeOK
  <2>2. CASE \E key \in Keys, expected \in 1 .. MaxRev - 1, mid \in Mutations :
                Replace(expected, mid, key)
    BY <2>2 DEF Replace
  <2>3. CASE \E key \in Keys, expected \in 1 .. MaxRev - 1 : Disable(expected, key)
    BY <2>3 DEF Disable
  <2>4. CASE \E key \in Keys, expected \in 1 .. MaxRev - 1 : Delete(expected, key)
    BY <2>4 DEF Delete
  <2>5. QED
    BY <2>1, <2>2, <2>3, <2>4 DEF Request
<1>3. TypeOK'
  BY <1>1, <1>2 DEF CredInv, TypeOK
<1>4. RequestShape' /\ Serialised' /\ Prepared'
  <2> USE DEF Started, Answered, CleansFirst
  <2>1. CASE \E key \in Keys : Create(key)
    BY <1>1, <2>1 DEF Create, CredInv, RowShape, RequestShape, Serialised, Prepared, Target
  <2>2. CASE \E key \in Keys, expected \in 1 .. MaxRev - 1, mid \in Mutations :
                Replace(expected, mid, key)
    <3> PICK key \in Keys, expected \in 1 .. MaxRev - 1, mid \in Mutations :
                Replace(expected, mid, key)
      BY <2>2
    <3>1. expected \in Nat /\ expected >= 1
      BY CredentialAssumption
    <3>2. expected > 1 \/ expected = 1
      BY <3>1
    <3>3. QED
      BY <1>1, <3>1, <3>2
         DEF Replace, Replaced, SameMutation, RequestShape, Serialised, Prepared, Target
  <2>3. CASE \E key \in Keys, expected \in 1 .. MaxRev - 1 : Disable(expected, key)
    BY <1>1, <2>3, CredentialAssumption
       DEF Disable, RequestShape, Serialised, Prepared, Target
  <2>4. CASE \E key \in Keys, expected \in 1 .. MaxRev - 1 : Delete(expected, key)
    BY <1>1, <2>4, CredentialAssumption
       DEF Delete, RequestShape, Serialised, Prepared, Target
  <2>5. QED
    BY <2>1, <2>2, <2>3, <2>4 DEF Request
<1>5. RowShape' /\ ResidueBounded' /\ SecretMatchesMutation'
  BY <1>1 DEF CredInv, RowShape, ResidueBounded, Holds, SecretMatchesMutation
<1>6. QED
  BY <1>3, <1>4, <1>5 DEF CredInv

\* Where the revisions of the mutation under way lie.
LEMMA TargetType ==
    ASSUME TypeOK
    PROVE  /\ op.expected \in Nat /\ rev \in Nat
           /\ Target \in Revisions /\ Target = op.expected + 1
           /\ op.expected > 1 => op.expected - 1 \in Revisions
           /\ Revisions \subseteq Nat /\ \A r \in Revisions : r >= 1
  BY CredentialAssumption DEF TypeOK, Target, Revisions

LEMMA ProbeStep == CredInv /\ Probe => CredInv'
<1> SUFFICES ASSUME CredInv, Probe PROVE CredInv'
  OBVIOUS
<1>1. UNCHANGED <<rev, status, mutation, vault>>
  BY DEF Probe, row
<1>2. /\ op'.kind = op.kind /\ op'.expected = op.expected /\ op'.mid = op.mid
      /\ op'.key = op.key /\ op'.attempt = op.attempt
      /\ op'.at \in {"idle", "write"}
  BY OpFields DEF Probe, CredInv, Steps, Replies
<1>3. TypeOK'
  BY <1>1 DEF CredInv, TypeOK, Probe, Proceed, Reply, Steps, Replies
<1>4. RowShape' /\ RequestShape' /\ ResidueBounded' /\ SecretMatchesMutation'
  BY <1>1, <1>2
     DEF CredInv, RowShape, RequestShape, ResidueBounded, Holds, SecretMatchesMutation
<1>5. Serialised' /\ Prepared'
  BY <1>1, <1>2 DEF CredInv, Serialised, Prepared, Probe, Target
<1>6. QED
  BY <1>3, <1>4, <1>5 DEF CredInv

\* An entry of the store is written, or removed, and nothing else changes.
LEMMA VaultType ==
    ASSUME TypeOK, NEW r \in Revisions, NEW e \in Entries,
           vault' = [vault EXCEPT ![r] = e]
    PROVE  /\ vault' \in [Revisions -> Entries]
           /\ vault'[r] = e
           /\ \A s \in Revisions : s # r => vault'[s] = vault[s]
  BY DEF TypeOK

\* Removing an entry keeps the residue bounded.
LEMMA RemovalBounded ==
    ASSUME CredInv, NEW r, rev' = rev, vault' = [vault EXCEPT ![r] = Absent]
    PROVE  ResidueBounded'
  BY DEF CredInv, TypeOK, ResidueBounded, Holds

LEMMA PredropStep == CredInv /\ Predrop => CredInv'
<1> SUFFICES ASSUME CredInv, Predrop PROVE CredInv'
  OBVIOUS
<1>1. /\ UNCHANGED <<rev, status, mutation>>
      /\ vault' = [vault EXCEPT ![op.expected - 1] = Absent]
      /\ op.at = "predrop" /\ op.attempt = "first" /\ op.expected > 1
      /\ op.kind # "create" /\ rev = op.expected
  BY DEF Predrop, row, CredInv, Serialised
<1>2. /\ op'.kind = op.kind /\ op'.expected = op.expected /\ op'.mid = op.mid
      /\ op'.key = op.key /\ op'.attempt = op.attempt
      /\ op'.at = IF op.kind = "replace" THEN "write" ELSE "commit"
  BY DEF Predrop, Proceed, CredInv, TypeOK
<1>3. TypeOK
  BY DEF CredInv
<1>4. /\ op.expected - 1 \in Revisions
      /\ vault' \in [Revisions -> Entries]
      /\ vault'[op.expected - 1] = Absent
      /\ \A s \in Revisions : s # op.expected - 1 => vault'[s] = vault[s]
  BY <1>1, <1>3, TargetType, VaultType, EntryTypes
<1>5. TypeOK'
  BY <1>1, <1>3, <1>4 DEF TypeOK, Predrop, Proceed, Steps
<1>6. RowShape' /\ RequestShape'
  BY <1>1, <1>2 DEF CredInv, RowShape, RequestShape
<1>7. Serialised'
  BY <1>1, <1>2, <1>3 DEF Serialised, TypeOK, Kinds
<1>8. Prepared'
  BY <1>1, <1>2, <1>4 DEF Prepared
<1>9. ResidueBounded'
  BY <1>1, RemovalBounded
<1>10. SecretMatchesMutation'
  <2>1. status = "enabled" => rev \in Revisions /\ rev # op.expected - 1
    BY <1>1, <1>3, TargetType DEF TypeOK, Revisions
  <2>2. QED
    BY <1>1, <1>4, <2>1 DEF CredInv, SecretMatchesMutation
<1>11. QED
  BY <1>5, <1>6, <1>7, <1>8, <1>9, <1>10 DEF CredInv

\* Writing the target keeps the residue to two neighbours: a first attempt has
\* cleared the revision two behind, a retry writes the current one.
LEMMA TargetBounded ==
    ASSUME CredInv, op.at = "write", NEW e \in Entries,
           rev' = rev, vault' = [vault EXCEPT ![Target] = e]
    PROVE  ResidueBounded'
<1> TypeOK
  BY DEF CredInv
<1>1. /\ \A s \in Revisions : s # Target => vault'[s] = vault[s]
      /\ op.expected \in Nat /\ Target = op.expected + 1 /\ rev \in Nat
      /\ Revisions \subseteq Nat /\ \A r \in Revisions : r >= 1
  BY VaultType, TargetType
<1>2. \A r \in Revisions : Holds(r) => r <= rev + 1 /\ rev <= r + 1
  BY DEF CredInv, ResidueBounded
<1>3. \A r, s \in Revisions : Holds(r) /\ Holds(s) => r <= s + 1
  BY DEF CredInv, ResidueBounded
<1>4. CASE op.attempt = "first"
  <2>1. rev = op.expected
    BY <1>4 DEF CredInv, Serialised
  <2>2. op.expected > 1 => ~Holds(op.expected - 1)
    BY <1>4 DEF CredInv, Prepared, Holds
  <2>3. \A r \in Revisions : Holds(r) => r = rev \/ r = rev + 1
    BY <1>1, <1>2, <2>1, <2>2
  <2>4. \A r \in Revisions : Holds(r)' => r = rev \/ r = rev + 1
    BY <1>1, <2>1, <2>3 DEF Holds
  <2>5. QED
    BY <1>1, <2>4 DEF ResidueBounded
<1>5. CASE op.attempt = "again"
  <2>1. rev = Target
    BY <1>5 DEF CredInv, Serialised
  <2>2. \A r \in Revisions : Holds(r)' => Holds(r) \/ r = rev
    BY <1>1, <2>1 DEF Holds
  <2>3. QED
    BY <1>1, <1>2, <1>3, <2>2 DEF ResidueBounded
<1>6. QED
  BY <1>4, <1>5 DEF TypeOK, Attempts

\* What a whole or a torn write of the target leaves untouched.
LEMMA WriteOutcome ==
    ASSUME CredInv, op.at = "write", NEW e \in Entries,
           UNCHANGED row, vault' = [vault EXCEPT ![Target] = e],
           e.kind = "whole" => e.by = op.mid
    PROVE  RowShape' /\ ResidueBounded' /\ SecretMatchesMutation'
<1> TypeOK
  BY DEF CredInv
<1>1. UNCHANGED <<rev, status, mutation>>
  BY DEF row
<1>2. /\ vault'[Target] = e
      /\ \A s \in Revisions : s # Target => vault'[s] = vault[s]
      /\ Target = op.expected + 1 /\ op.expected \in Nat
  BY VaultType, TargetType
<1>3. ResidueBounded'
  BY <1>1, TargetBounded
<1>4. RowShape'
  BY <1>1 DEF CredInv, RowShape
<1>5. SecretMatchesMutation'
  <2> SUFFICES ASSUME status = "enabled", vault'[rev].kind = "whole"
               PROVE  vault'[rev].by = mutation
    BY <1>1 DEF SecretMatchesMutation
  <2>1. rev \in Revisions
    BY DEF CredInv, RowShape, TypeOK, Revisions
  <2>2. CASE rev = Target
    <3>1. op.attempt = "again"
      BY <1>2, <2>2 DEF CredInv, Serialised, TypeOK, Attempts
    <3>2. mutation = op.mid
      BY <3>1 DEF CredInv, Serialised
    <3>3. QED
      BY <1>2, <2>2, <3>2
  <2>3. CASE rev # Target
    BY <1>2, <2>1, <2>3 DEF CredInv, SecretMatchesMutation
  <2>4. QED
    BY <2>2, <2>3
<1>6. QED
  BY <1>3, <1>4, <1>5

LEMMA SubmittedEntry ==
    ASSUME TypeOK
    PROVE  /\ Whole(op.key, op.mid) \in Entries
           /\ Whole(op.key, op.mid).kind = "whole"
           /\ Whole(op.key, op.mid).by = op.mid
  BY EntryTypes, EntryKinds DEF TypeOK

LEMMA WriteStep == CredInv /\ Write => CredInv'
<1> SUFFICES ASSUME CredInv, Write PROVE CredInv'
  OBVIOUS
<1> TypeOK
  BY DEF CredInv
<1>1. /\ op.at = "write" /\ UNCHANGED row /\ UNCHANGED <<rev, status, mutation>>
      /\ vault' = [vault EXCEPT ![Target] = Whole(op.key, op.mid)]
  BY DEF Write, row, Stored
<1>2. RowShape' /\ ResidueBounded' /\ SecretMatchesMutation'
  BY <1>1, SubmittedEntry, WriteOutcome
<1>3. /\ vault' \in [Revisions -> Entries]
      /\ vault'[Target] = Whole(op.key, op.mid)
      /\ \A s \in Revisions : s # Target => vault'[s] = vault[s]
      /\ Target = op.expected + 1 /\ op.expected \in Nat
      /\ op.expected > 1 => op.expected - 1 \in Revisions
  BY <1>1, SubmittedEntry, VaultType, TargetType
<1>4. /\ op'.kind = op.kind /\ op'.expected = op.expected /\ op'.mid = op.mid
      /\ op'.key = op.key /\ op'.attempt = op.attempt
      /\ \/ op.attempt = "first" /\ op'.at = "commit"
         \/ op.attempt = "again" /\ op.kind = "create" /\ op'.at = "idle"
         \/ op.attempt = "again" /\ op.kind = "replace" /\ op'.at = "drop"
  BY DEF Write, Proceed, Reply, TypeOK
<1>5. TypeOK'
  BY <1>1, <1>3 DEF TypeOK, Write, Proceed, Reply, Steps, Replies
<1>6. RequestShape'
  BY <1>4 DEF CredInv, RequestShape
<1>7. Serialised'
  BY <1>1, <1>4 DEF CredInv, Serialised, Target
<1>8. Prepared'
  <2>1. Target' = Target
    BY <1>4 DEF Target
  <2>2. op.attempt = "first" /\ op.expected > 1 => vault'[op.expected - 1] = Absent
    BY <1>1, <1>3 DEF CredInv, Prepared
  <2>3. QED
    BY <1>3, <1>4, <2>1, <2>2 DEF Prepared
<1>9. QED
  BY <1>2, <1>5, <1>6, <1>7, <1>8 DEF CredInv

LEMMA CommitStep == CredInv /\ Commit => CredInv'
<1> SUFFICES ASSUME CredInv, Commit PROVE CredInv'
  OBVIOUS
<1> TypeOK
  BY DEF CredInv
<1>1. /\ op.at = "commit" /\ op.attempt = "first" /\ rev = op.expected
      /\ rev' = op.expected + 1 /\ mutation' = op.mid /\ vault' = vault
      /\ op.kind = "disable" => status' = "disabled"
      /\ op.kind = "delete" => status' = "deleted"
      /\ op.kind \in {"create", "replace"} => status' = "enabled"
  BY DEF Commit, CredInv, Serialised, Target
<1>2. /\ op'.kind = op.kind /\ op'.expected = op.expected /\ op'.mid = op.mid
      /\ op'.key = op.key /\ op'.attempt = op.attempt
      /\ op.kind = "create" => op'.at = "idle"
      /\ op.kind # "create" => op'.at = "drop"
  BY DEF Commit, Proceed, Reply, TypeOK
<1>3. /\ op.expected \in Nat /\ Target \in Revisions /\ Target = op.expected + 1
      /\ op.expected > 1 => op.expected - 1 \in Revisions
      /\ Revisions \subseteq Nat /\ \A r \in Revisions : r >= 1
  BY TargetType
<1>4. op.kind \in Kinds /\ Target' = Target
  BY <1>2 DEF TypeOK, Target
<1>5. TypeOK'
  <2>1. rev' \in 0 .. MaxRev
    BY <1>1, <1>3 DEF Revisions
  <2>2. status' \in {"none", "enabled", "disabled", "deleted"}
    BY <1>1, <1>4 DEF Kinds
  <2>3. QED
    BY <1>1, <2>1, <2>2 DEF TypeOK, Commit, Proceed, Reply, Steps, Replies
<1>6. RowShape'
  BY <1>1, <1>3, <1>4 DEF CredInv, RequestShape, RowShape, Kinds
<1>7. RequestShape'
  BY <1>2 DEF CredInv, RequestShape
<1>8. Serialised'
  BY <1>1, <1>2, <1>3, <1>4 DEF Serialised
<1>9. Prepared'
  BY <1>1, <1>2, <1>4 DEF CredInv, Prepared
<1>10. ResidueBounded'
  <2>1. \A r \in Revisions : Holds(r)' <=> Holds(r)
    BY <1>1 DEF Holds
  <2>2. op.expected > 1 => ~Holds(op.expected - 1)
    BY <1>1 DEF CredInv, Prepared, Holds
  <2>3. \A r \in Revisions : Holds(r) => r = rev \/ r = rev + 1
    BY <1>1, <1>3, <2>2 DEF CredInv, ResidueBounded
  <2>4. QED
    BY <1>1, <1>3, <2>1, <2>3 DEF ResidueBounded
<1>11. SecretMatchesMutation'
  BY <1>1, <1>3, <1>4, EntryKinds
     DEF CredInv, Prepared, SecretMatchesMutation, Kinds
<1>12. QED
  BY <1>5, <1>6, <1>7, <1>8, <1>9, <1>10, <1>11 DEF CredInv

\* A mutation that ends with the row as it was leaves nothing under way.
LEMMA ReplyShape ==
    ASSUME CredInv, NEW reply \in Replies, Reply(reply), UNCHANGED row,
           vault' \in [Revisions -> Entries]
    PROVE  TypeOK' /\ RowShape' /\ RequestShape' /\ Serialised' /\ Prepared'
<1> TypeOK
  BY DEF CredInv
<1>1. /\ op'.kind = op.kind /\ op'.expected = op.expected /\ op'.mid = op.mid
      /\ op'.at = "idle" /\ UNCHANGED <<rev, status, mutation>>
  BY OpFields DEF Steps, row
<1>2. TypeOK'
  BY <1>1 DEF TypeOK, Reply, Steps
<1>3. RowShape' /\ RequestShape'
  BY <1>1 DEF CredInv, RowShape, RequestShape
<1>4. Serialised' /\ Prepared'
  BY <1>1 DEF Serialised, Prepared
<1>5. QED
  BY <1>2, <1>3, <1>4

\* Removing a secret other than the current one.
LEMMA RemovalMatches ==
    ASSUME CredInv, NEW r, r # rev, UNCHANGED row, r \in Revisions,
           vault' = [vault EXCEPT ![r] = Absent]
    PROVE  vault' \in [Revisions -> Entries] /\ ResidueBounded' /\ SecretMatchesMutation'
<1> TypeOK
  BY DEF CredInv
<1>1. /\ vault' \in [Revisions -> Entries]
      /\ \A s \in Revisions : s # r => vault'[s] = vault[s]
  BY VaultType, EntryTypes
<1>2. UNCHANGED <<rev, status, mutation>>
  BY DEF row
<1>3. ResidueBounded'
  BY <1>2, RemovalBounded
<1>4. status = "enabled" => rev \in Revisions
  BY DEF CredInv, RowShape, TypeOK, Revisions
<1>5. SecretMatchesMutation'
  BY <1>1, <1>2, <1>4 DEF CredInv, SecretMatchesMutation
<1>6. QED
  BY <1>1, <1>3, <1>5

\* The secret the last step removes is the one before the current.
LEMMA DropTarget ==
    ASSUME CredInv, op.at = "drop"
    PROVE  op.expected \in Revisions /\ op.expected # rev
<1> TypeOK
  BY DEF CredInv
<1>1. rev = op.expected + 1 /\ op.kind # "create"
  BY DEF CredInv, Serialised, Target
<1>2. op.expected >= 1
  BY <1>1 DEF CredInv, RequestShape
<1>3. QED
  BY <1>1, <1>2, CredentialAssumption DEF TypeOK, Revisions

LEMMA DropStep == CredInv /\ Drop => CredInv'
<1> SUFFICES ASSUME CredInv, Drop PROVE CredInv'
  OBVIOUS
<1>1. /\ op.at = "drop" /\ UNCHANGED row /\ Reply("ok")
      /\ vault' = [vault EXCEPT ![op.expected] = Absent]
  BY DEF Drop, Superseded
<1>2. vault' \in [Revisions -> Entries] /\ ResidueBounded' /\ SecretMatchesMutation'
  BY <1>1, DropTarget, RemovalMatches
<1>3. QED
  BY <1>1, <1>2, ReplyShape DEF CredInv, Replies

-----------------------------------------------------------------------------
(* Failures *)

LEMMA AbandonStep == CredInv /\ Abandon => CredInv'
<1> SUFFICES ASSUME CredInv, Abandon PROVE CredInv'
  OBVIOUS
<1>1. Reply("failed") /\ UNCHANGED row /\ UNCHANGED vault
  BY DEF Abandon
<1>2. vault' \in [Revisions -> Entries]
  BY <1>1 DEF CredInv, TypeOK
<1>3. ResidueBounded' /\ SecretMatchesMutation'
  BY <1>1 DEF CredInv, ResidueBounded, Holds, SecretMatchesMutation, row
<1>4. QED
  BY <1>1, <1>2, <1>3, ReplyShape DEF CredInv, Replies

LEMMA WriteUnconfirmedStep == CredInv /\ WriteUnconfirmed => CredInv'
<1> SUFFICES ASSUME CredInv, WriteUnconfirmed PROVE CredInv'
  OBVIOUS
<1> TypeOK
  BY DEF CredInv
<1>1. op.at = "write" /\ Reply("failed") /\ UNCHANGED row
  BY DEF WriteUnconfirmed
<1>2. PICK e \in Entries : /\ vault' = [vault EXCEPT ![Target] = e]
                           /\ e.kind = "whole" => e.by = op.mid
  BY SubmittedEntry, EntryKinds, EntryTypes DEF WriteUnconfirmed, Stored
<1>3. ResidueBounded' /\ SecretMatchesMutation'
  BY <1>1, <1>2, WriteOutcome
<1>4. vault' \in [Revisions -> Entries]
  BY <1>2, VaultType, TargetType
<1>5. QED
  BY <1>1, <1>3, <1>4, ReplyShape DEF CredInv, Replies

LEMMA PredropTarget ==
    ASSUME CredInv, op.at = "predrop"
    PROVE  op.expected - 1 \in Revisions /\ op.expected - 1 # rev
<1> TypeOK
  BY DEF CredInv
<1>1. rev = op.expected /\ op.expected > 1
  BY DEF CredInv, Serialised
<1>2. QED
  BY <1>1, TargetType

LEMMA DropUnconfirmedStep == CredInv /\ DropUnconfirmed => CredInv'
<1> SUFFICES ASSUME CredInv, DropUnconfirmed PROVE CredInv'
  OBVIOUS
<1>1. Reply("failed") /\ UNCHANGED row
  BY DEF DropUnconfirmed
<1>2. PICK r \in Revisions : r # rev /\ vault' = [vault EXCEPT ![r] = Absent]
  BY PredropTarget, DropTarget DEF DropUnconfirmed, Superseded
<1>3. vault' \in [Revisions -> Entries] /\ ResidueBounded' /\ SecretMatchesMutation'
  BY <1>1, <1>2, RemovalMatches
<1>4. QED
  BY <1>1, <1>3, ReplyShape DEF CredInv, Replies

LEMMA StoreLosesStep == CredInv /\ StoreLoses => CredInv'
<1> SUFFICES ASSUME CredInv, StoreLoses PROVE CredInv'
  OBVIOUS
<1> TypeOK
  BY DEF CredInv
<1>1. op.at = "idle" /\ UNCHANGED op /\ UNCHANGED <<rev, status, mutation>>
  BY DEF StoreLoses, row
<1>2. PICK r \in Revisions : vault' = [vault EXCEPT ![r] = Absent]
  BY DEF StoreLoses
<1>3. /\ vault' \in [Revisions -> Entries]
      /\ vault'[r] = Absent
      /\ \A s \in Revisions : s # r => vault'[s] = vault[s]
  BY <1>2, VaultType, EntryTypes
<1>4. TypeOK' /\ RowShape' /\ RequestShape'
  BY <1>1, <1>3 DEF CredInv, TypeOK, RowShape, RequestShape
<1>5. Serialised' /\ Prepared'
  BY <1>1 DEF Serialised, Prepared
<1>6. ResidueBounded'
  BY <1>1, <1>2, RemovalBounded
<1>7. status = "enabled" => rev \in Revisions
  BY DEF CredInv, RowShape, TypeOK, Revisions
<1>8. SecretMatchesMutation'
  BY <1>1, <1>3, <1>7, EntryKinds DEF CredInv, SecretMatchesMutation
<1>9. QED
  BY <1>4, <1>5, <1>6, <1>8 DEF CredInv

LEMMA NextCredInv == CredInv /\ [Next]_vars => CredInv'
<1> SUFFICES ASSUME CredInv, [Next]_vars PROVE CredInv'
  OBVIOUS
<1>1. CASE UNCHANGED vars
  BY <1>1 DEF vars, CredInv, TypeOK, RowShape, RequestShape, Serialised, Prepared,
              Target, ResidueBounded, Holds, SecretMatchesMutation
<1>2. CASE Next
  BY <1>2, RequestStep, ProbeStep, PredropStep, WriteStep, CommitStep, DropStep,
     AbandonStep, WriteUnconfirmedStep, DropUnconfirmedStep, StoreLosesStep DEF Next
<1>3. QED
  BY <1>1, <1>2

-----------------------------------------------------------------------------
(* Theorems *)

\* Whatever fails and whoever retries, the row and the store stay as every
\* step of a credential mutation expects them.
THEOREM CredentialInvariant == Spec => []CredInv
  BY InitCredInv, NextCredInv, PTL DEF Spec

\* The state of the credential routes keeps its type.
THEOREM TypeCorrect == Spec => []TypeOK
<1>1. CredInv => TypeOK
  BY DEF CredInv
<1>2. QED
  BY <1>1, CredentialInvariant, PTL

\* The store holds secrets of at most two neighbouring revisions.
THEOREM ResidueStaysBounded == Spec => []ResidueBounded
<1>1. CredInv => ResidueBounded
  BY DEF CredInv
<1>2. QED
  BY <1>1, CredentialInvariant, PTL

\* An enabled row and the secret stored for it come from the same request.
THEOREM SecretsMatchRows == Spec => []SecretMatchesMutation
<1>1. CredInv => SecretMatchesMutation
  BY DEF CredInv
<1>2. QED
  BY <1>1, CredentialInvariant, PTL

\* No mutation takes the usable secret of an enabled connection away.
THEOREM SecretsKept == Spec => SecretKept
<1>1. ASSUME CredInv, [Next]_vars
      PROVE  [Usable /\ status' = "enabled" => Usable' \/ WriteUnconfirmed \/ StoreLoses]_vars
  <2> SUFFICES ASSUME Next, Usable, status' = "enabled", ~WriteUnconfirmed, ~StoreLoses
               PROVE  Usable'
    BY <1>1
  <2> TypeOK /\ status = "enabled"
    BY <1>1 DEF CredInv, Usable
  <2>1. /\ rev \in Revisions /\ vault[rev].kind = "whole"
        /\ op.expected \in Nat /\ Target \in Revisions /\ Target = op.expected + 1
    BY <1>1, TargetType DEF CredInv, RowShape, Usable, TypeOK, Revisions
  <2>2. CASE Request \/ Probe \/ Abandon
    <3>1. UNCHANGED <<rev, status, vault>>
      BY <2>2 DEF Request, Create, Replace, Disable, Delete, Probe, Abandon, row
    <3>2. QED
      BY <3>1, <2>1 DEF Usable
  <2>3. CASE Predrop \/ Drop \/ DropUnconfirmed
    <3>1. UNCHANGED <<rev, status>>
      BY <2>3 DEF Predrop, Drop, DropUnconfirmed, row
    <3>2. PICK r \in Revisions : r # rev /\ vault' = [vault EXCEPT ![r] = Absent]
      BY <1>1, <2>3, PredropTarget, DropTarget DEF Predrop, Drop, DropUnconfirmed, Superseded
    <3>3. vault'[rev] = vault[rev]
      BY <2>1, <3>2, VaultType, EntryTypes
    <3>4. QED
      BY <2>1, <3>1, <3>3 DEF Usable
  <2>4. CASE Write
    <3>1. UNCHANGED <<rev, status>> /\ vault' = [vault EXCEPT ![Target] = Whole(op.key, op.mid)]
      BY <2>4 DEF Write, row, Stored
    <3>2. vault'[rev] = vault[rev] \/ vault'[rev] = Whole(op.key, op.mid)
      BY <2>1, <3>1, VaultType, SubmittedEntry
    <3>3. QED
      BY <2>1, <3>1, <3>2, SubmittedEntry DEF Usable
  <2>5. CASE Commit
    <3>1. rev' = Target /\ vault' = vault /\ op.at = "commit"
      BY <2>5 DEF Commit
    <3>2. op.kind \in {"create", "replace"}
      BY <2>5 DEF Commit, TypeOK, Kinds
    <3>3. vault[Target] = Whole(op.key, op.mid)
      BY <1>1, <3>1, <3>2 DEF CredInv, Prepared
    <3>4. QED
      BY <3>1, <3>3, SubmittedEntry DEF Usable
  <2>6. QED
    BY <2>2, <2>3, <2>4, <2>5 DEF Next
<1>2. QED
  BY <1>1, CredentialInvariant, PTL DEF Spec, SecretKept

\* The steps that answer a mutation with success.
LEMMA SuccessSteps ==
    ASSUME CredInv, Next, Succeeds
    PROVE  \/ Write /\ op.kind = "create" /\ op.attempt = "again"
           \/ Commit /\ op.kind = "create"
           \/ Drop
<1> TypeOK
  BY DEF CredInv
<1>1. op.at # "idle" /\ op'.at = "idle" /\ op'.reply = "ok"
  BY DEF Succeeds
<1>2. ~Request
  BY <1>1 DEF Request, Create, Replace, Disable, Delete, Sends
<1>3. ~Probe /\ ~Predrop /\ ~Abandon /\ ~WriteUnconfirmed /\ ~DropUnconfirmed /\ ~StoreLoses
  BY <1>1 DEF Probe, Predrop, Abandon, WriteUnconfirmed, DropUnconfirmed, StoreLoses,
              Proceed, Reply, TypeOK
<1>4. Write => op.kind = "create" /\ op.attempt = "again"
  BY <1>1 DEF Write, Proceed, Reply, TypeOK
<1>5. Commit => op.kind = "create"
  BY <1>1 DEF Commit, Proceed, Reply, TypeOK
<1>6. QED
  BY <1>2, <1>3, <1>4, <1>5 DEF Next

\* Success of create and replace: the submitted key is the one stored.
THEOREM AnswersTellTheTruth == Spec => AnsweredSecretStored
<1>1. ASSUME CredInv, [Next]_vars
      PROVE  [Succeeds /\ op.kind \in {"create", "replace"} =>
                 /\ rev' = Target /\ status' = "enabled"
                 /\ vault'[Target] = Whole(op.key, op.mid)]_vars
  <2> SUFFICES ASSUME Next, Succeeds, op.kind \in {"create", "replace"}
               PROVE  /\ rev' = Target /\ status' = "enabled"
                      /\ vault'[Target] = Whole(op.key, op.mid)
    BY <1>1
  <2> TypeOK /\ Target \in Revisions /\ Target = op.expected + 1 /\ op.expected \in Nat
    BY <1>1, TargetType DEF CredInv
  <2>1. CASE Write /\ op.kind = "create" /\ op.attempt = "again"
    <3>1. op.at = "write" /\ UNCHANGED <<rev, status>> /\ vault' = [vault EXCEPT ![Target] = Whole(op.key, op.mid)]
      BY <2>1 DEF Write, row, Stored
    <3>2. QED
      BY <1>1, <2>1, <3>1, VaultType, SubmittedEntry DEF CredInv, Serialised
  <2>2. CASE Commit /\ op.kind = "create"
    BY <1>1, <2>2 DEF Commit, CredInv, Prepared
  <2>3. CASE Drop
    <3>1. /\ op.at = "drop" /\ UNCHANGED <<rev, status>>
          /\ vault' = [vault EXCEPT ![op.expected] = Absent]
      BY <2>3 DEF Drop, Superseded, row
    <3>2. op.kind = "replace"
      BY <1>1, <3>1 DEF CredInv, Serialised
    <3>3. op.expected \in Revisions
      BY <1>1, <3>1, DropTarget
    <3>4. vault'[Target] = vault[Target]
      BY <3>1, <3>3, VaultType, EntryTypes
    <3>5. QED
      BY <1>1, <3>1, <3>2, <3>4 DEF CredInv, Serialised, Prepared
  <2>4. QED
    BY <1>1, <2>1, <2>2, <2>3, SuccessSteps
<1>2. QED
  BY <1>1, CredentialInvariant, PTL DEF Spec, AnsweredSecretStored

\* Success leaves no secret of an earlier revision behind.
THEOREM OldSecretsGone == Spec => OldSecretsRevoked
<1>1. ASSUME CredInv, [Next]_vars
      PROVE  [Succeeds => \A r \in Revisions : r < rev' => vault'[r] = Absent]_vars
  <2> SUFFICES ASSUME Next, Succeeds, NEW r \in Revisions, r < rev'
               PROVE  vault'[r] = Absent
    BY <1>1
  <2> /\ TypeOK /\ Target = op.expected + 1 /\ op.expected \in Nat
      /\ r \in Nat /\ r >= 1 /\ rev \in Nat
    BY <1>1, TargetType DEF CredInv
  <2>1. ~(Write /\ op.kind = "create" /\ op.attempt = "again")
    BY <1>1 DEF Write, row, CredInv, Serialised, RequestShape
  <2>2. ~(Commit /\ op.kind = "create")
    BY <1>1 DEF Commit, CredInv, RequestShape
  <2>3. Drop
    BY <1>1, <2>1, <2>2, SuccessSteps
  <2>4. /\ op.at = "drop" /\ rev' = rev
        /\ vault' = [vault EXCEPT ![op.expected] = Absent]
    BY <2>3 DEF Drop, Superseded, row
  <2>5. rev = op.expected + 1 /\ op.expected \in Revisions
    BY <1>1, <2>4, DropTarget DEF CredInv, Serialised
  <2>6. r # op.expected => ~Holds(r)
    BY <1>1, <2>4, <2>5 DEF CredInv, ResidueBounded
  <2>7. QED
    BY <2>4, <2>5, <2>6, VaultType, EntryTypes DEF Holds
<1>2. QED
  BY <1>1, CredentialInvariant, PTL DEF Spec, OldSecretsRevoked

\* Row and store fit each other, whatever failed: residue is bounded and a
\* secret belongs to its row.
THEOREM StoreAlwaysFitsRow == Spec => []StoreFitsRow
<1>1. ResidueBounded /\ SecretMatchesMutation => StoreFitsRow
  BY DEF StoreFitsRow
<1>2. QED
  BY <1>1, ResidueStaysBounded, SecretsMatchRows, PTL

\* No step of a mutation takes a usable secret away, and every success it
\* answers with is true of the new key and of the old ones.
THEOREM MutationsStaySound == Spec => MutationsSound
  BY SecretsKept, AnswersTellTheTruth, OldSecretsGone DEF MutationsSound

-----------------------------------------------------------------------------
(* The key of the iPhone application *)

\* The latest revision, the one that has a reservation.
Latest == Len(rows)

Rows == [mutation : 1..MaxMutations, state : Phone!States, tombstoned : BOOLEAN]
Wanted == [rev : 0..MaxRevision, mutation : 0..MaxMutations]
AnEffect == [kind : {"forget", "store", "mark", "bury"}, rev : Phone!Revisions, to : Phone!States]

PhoneTypes ==
    /\ rows \in Seq(Rows) /\ Latest <= MaxRevision
    /\ item \in [Phone!Revisions -> 0..Phone!Foreign]
    /\ selected \in 0..Latest
    /\ room \in {"none", "demo", "provider"}
    /\ process \in {"off", "closed", "open"}
    /\ booted \in BOOLEAN /\ reconciled \in BOOLEAN
    /\ holder \in [op : {"none", "reconcile", "prepare", "complete", "delete"},
                   for : {"none", "boot", "save", "removal", "sheet"},
                   then : {"none", "present", "ready", "reject"},
                   rev : 0..MaxRevision, mutation : 0..MaxMutations]
    /\ work \in Seq(AnEffect)
    /\ sheet \in [rev : 0..MaxRevision, mutation : 0..MaxMutations, tapped : BOOLEAN]
    /\ save \in [step : {"idle", "read", "reserve", "consent", "sheet", "asked"},
                 rev : 0..MaxRevision, mutation : 0..MaxMutations, ask : BOOLEAN]
    /\ removal \in [step : {"idle", "read", "delete", "status"},
                    rev : 0..MaxRevision, mutation : 0..MaxMutations, ask : BOOLEAN]
    /\ target \in [rev : 0..MaxRevision, mutation : 0..MaxMutations]
    /\ said \subseteq 1..MaxMutations /\ minted \in Nat

\* What the flows of the page know of what they ask for, ...
PageFlows ==
    /\ save.step \in {"reserve", "consent", "sheet", "asked"} =>
          save.rev \in Phone!Revisions /\ save.mutation \in 1..MaxMutations
    /\ target # Phone!NoTarget => target.mutation \in 1..MaxMutations
    /\ removal.step # "idle" => removal.mutation \in 1..MaxMutations
    /\ sheet # Phone!NoSheet => save.step \in {"idle", "asked"}

\* ... and who may hold the lock: a flow of the page waits for its operation,
\* unless the page was loaded anew in the meantime.
LockFlows ==
    /\ holder.op = "none" => holder = Phone!Nobody
    /\ holder.op = "prepare" =>
          /\ sheet = Phone!NoSheet
          /\ \/ holder.for = "save" /\ save.step = "sheet"
             \/ holder.for = "none" /\ save = Phone!Resting /\ ~booted
    /\ holder.op = "delete" =>
          \/ holder.for = "removal" /\ removal.step = "delete"
          \/ holder.for = "none"
    /\ Phone!Locked => process = "open" /\ (reconciled <=> holder.op # "reconcile")
    /\ reconciled => process = "open"
    /\ ~Phone!Locked => work = <<>>

Flowing == PageFlows /\ LockFlows

\* Whether the work w still has effect e to apply.
Does(w, e) == \E i \in 1..Len(w) : w[i] = e

\* No item but the latest revision's.
OneItem(items, n) == \A r \in Phone!Revisions : items[r] # 0 => r = n

\* The shape of an operation's work: keys are forgotten, of the latest revision
\* one may be stored and its row marked; the mark comes last.
Shape(w, n) ==
    /\ \A i \in 1..Len(w) :
          \/ \E r \in Phone!Revisions : w[i] = Phone!Forget(r)
          \/ n # 0 /\ i = 1 /\ w[i] \in {Phone!Store(n), Phone!Bury(n)}
          \/ n # 0 /\ i = Len(w) /\ w[i] \in {Phone!MarkReady(n), Phone!MarkMissing(n)}
    /\ Does(w, Phone!Store(n)) => Does(w, Phone!MarkReady(n))

\* ... what the work will do is what rows and items need, ...
Works(w, task, then, n, items, recon) ==
    /\ Shape(w, n)
    /\ Does(w, Phone!Bury(n)) => task = "delete" /\ ~rows[n].tombstoned
    /\ Does(w, Phone!MarkReady(n)) =>
          /\ task \in {"reconcile", "prepare", "complete"}
          /\ rows[n].state = "credential_pending" /\ ~rows[n].tombstoned /\ ~Does(w, Phone!Forget(n))
          /\ items[n] = rows[n].mutation \/ Does(w, Phone!Store(n))
    /\ Does(w, Phone!MarkMissing(n)) => items[n] = 0 \/ Does(w, Phone!Forget(n))
    /\ n # 0 /\ rows[n].state = "ready" =>
          IF task = "reconcile"
          THEN \/ Does(w, Phone!MarkMissing(n))
               \/ items[n] = rows[n].mutation /\ ~Does(w, Phone!Forget(n))
          ELSE recon => /\ items[n] = rows[n].mutation
                        /\ Does(w, Phone!Forget(n)) => Does(w, Phone!Bury(n))
    /\ task \in {"reconcile", "prepare", "complete"} =>
          \A r \in Phone!Revisions : items[r] # 0 /\ r # n => Does(w, Phone!Forget(r))
    /\ task = "prepare" /\ then = "present" => items[n] = 0 /\ ~Does(w, Phone!MarkReady(n)) /\ n # 0

\* ... and the rows and items that the last operations left.
Stores ==
    /\ Works(work, holder.op, holder.then, Latest, item, reconciled)
    /\ reconciled => \A r \in Phone!Revisions : r > Latest => item[r] = 0
    /\ reconciled /\ sheet # Phone!NoSheet => OneItem(item, Latest)
    /\ reconciled /\ Latest # 0 /\ rows[Latest].state = "ready" => OneItem(item, Latest)
    /\ \A r \in 1..Latest : rows[r].tombstoned =>
          \/ rows[r].state = "delete_pending"
          \/ rows[r].state = "missing" /\ item[r] # rows[r].mutation

PhoneInv == PhoneTypes /\ Flowing /\ Stores

-----------------------------------------------------------------------------
(* What the effects of an operation do *)

\* The effects differ in what they do, and in the revision they do it to.
LEMMA EffectsDiffer ==
    /\ \A r : /\ Phone!Forget(r).kind = "forget" /\ Phone!Forget(r).rev = r
              /\ Phone!Store(r).kind = "store" /\ Phone!Store(r).rev = r
              /\ Phone!Bury(r).kind = "bury" /\ Phone!Bury(r).rev = r
              /\ Phone!Bury(r).to = "delete_pending"
              /\ Phone!MarkReady(r).kind = "mark" /\ Phone!MarkReady(r).rev = r
              /\ Phone!MarkReady(r).to = "ready"
              /\ Phone!MarkMissing(r).kind = "mark" /\ Phone!MarkMissing(r).rev = r
              /\ Phone!MarkMissing(r).to = "missing"
              /\ Phone!MarkUnavailable(r) = Phone!MarkMissing(r)
    /\ \A r \in Phone!Revisions :
          {Phone!Forget(r), Phone!Store(r), Phone!Bury(r), Phone!MarkReady(r), Phone!MarkMissing(r)}
             \subseteq AnEffect
<1> USE DEF Phone!Forget, Phone!Store, Phone!Bury, Phone!MarkReady, Phone!MarkMissing, Phone!MarkUnavailable
<1>1. \A r : /\ Phone!Forget(r).kind = "forget" /\ Phone!Forget(r).rev = r
              /\ Phone!Store(r).kind = "store" /\ Phone!Store(r).rev = r
              /\ Phone!Bury(r).kind = "bury" /\ Phone!Bury(r).rev = r
              /\ Phone!Bury(r).to = "delete_pending"
  OBVIOUS
<1>2. \A r : /\ Phone!MarkReady(r).kind = "mark" /\ Phone!MarkReady(r).rev = r
             /\ Phone!MarkReady(r).to = "ready"
             /\ Phone!MarkMissing(r).kind = "mark" /\ Phone!MarkMissing(r).rev = r
             /\ Phone!MarkMissing(r).to = "missing"
             /\ Phone!MarkUnavailable(r) = Phone!MarkMissing(r)
  OBVIOUS
<1>3. \A r \in Phone!Revisions :
          {Phone!Forget(r), Phone!Store(r), Phone!Bury(r), Phone!MarkReady(r), Phone!MarkMissing(r)}
             \subseteq AnEffect
  BY DEF AnEffect, Phone!States
<1> QED BY <1>1, <1>2, <1>3

\* The first effect of a work, and what is left.
LEMMA WorkHead ==
    ASSUME NEW w \in Seq(AnEffect), w # <<>>, NEW n, Shape(w, n)
    PROVE  /\ Tail(w) \in Seq(AnEffect) /\ Head(w) \in AnEffect /\ Shape(Tail(w), n)
           /\ \A e : Does(w, e) <=> e = Head(w) \/ Does(Tail(w), e)
           /\ \/ \E r \in Phone!Revisions : Head(w) = Phone!Forget(r)
              \/ n # 0 /\ Head(w) \in {Phone!Store(n), Phone!Bury(n)}
              \/ n # 0 /\ Head(w) \in {Phone!MarkReady(n), Phone!MarkMissing(n)} /\ Tail(w) = <<>>
           /\ ~Does(Tail(w), Phone!Store(n)) /\ ~Does(Tail(w), Phone!Bury(n))
<1> DEFINE t == Tail(w)
<1>1. Len(w) \in Nat /\ Len(w) >= 1 /\ Head(w) = w[1]
  BY LenProperties, EmptySeq
<1>2. /\ t \in Seq(AnEffect) /\ Head(w) \in AnEffect /\ Len(t) = Len(w) - 1
      /\ \A i \in 1..Len(w) - 1 : t[i] = w[i + 1]
  BY HeadTailProperties
<1> HIDE DEF t
<1>3. Len(w) = 1 => t = <<>>
  <2>1. \A s \in Seq(AnEffect) : s # <<>> => Len(s) \in Nat \ {0}
    BY EmptySeq
  <2> QED BY <1>2, <2>1
<1>4. ASSUME NEW e PROVE Does(w, e) <=> e = Head(w) \/ Does(t, e)
  <2>1. ASSUME Does(w, e) PROVE e = Head(w) \/ Does(t, e)
    <3>1. PICK i \in 1..Len(w) : w[i] = e
      BY <2>1 DEF Does
    <3>2. i = 1 \/ (i - 1 \in 1..Len(t) /\ t[i - 1] = w[(i - 1) + 1])
      BY <1>1, <1>2
    <3>3. i = 1 \/ (i - 1 \in 1..Len(t) /\ t[i - 1] = e)
      BY <1>1, <3>1, <3>2
    <3> QED BY <1>1, <3>1, <3>3 DEF Does
  <2>2. ASSUME e = Head(w) PROVE Does(w, e)
    BY <1>1, <2>2 DEF Does
  <2>3. ASSUME Does(t, e) PROVE Does(w, e)
    <3>1. PICK i \in 1..Len(t) : t[i] = e
      BY <2>3 DEF Does
    <3>2. i + 1 \in 1..Len(w) /\ w[i + 1] = e
      BY <1>1, <1>2, <3>1
    <3> QED BY <3>2 DEF Does
  <2> QED BY <2>1, <2>2, <2>3
<1>5. \A i \in 1..Len(t) :
         /\ t[i] = w[i + 1]
         /\ \/ \E r \in Phone!Revisions : t[i] = Phone!Forget(r)
            \/ n # 0 /\ i = Len(t) /\ t[i] \in {Phone!MarkReady(n), Phone!MarkMissing(n)}
  <2> TAKE i \in 1..Len(t)
  <2>1. i + 1 \in 1..Len(w) /\ i + 1 # 1 /\ t[i] = w[i + 1] /\ (i + 1 = Len(w) => i = Len(t))
    BY <1>1, <1>2
  <2> QED BY <2>1 DEF Shape
<1>6. ~Does(t, Phone!Store(n)) /\ ~Does(t, Phone!Bury(n))
  BY <1>5, EffectsDiffer DEF Does
<1>7. Shape(t, n)
  BY <1>5, <1>6 DEF Shape
<1>8. \/ \E r \in Phone!Revisions : Head(w) = Phone!Forget(r)
      \/ n # 0 /\ Head(w) \in {Phone!Store(n), Phone!Bury(n)}
      \/ n # 0 /\ Head(w) \in {Phone!MarkReady(n), Phone!MarkMissing(n)} /\ t = <<>>
  <2>1. 1 \in 1..Len(w) /\ Head(w) = w[1]
    BY <1>1
  <2>2. \/ \E r \in Phone!Revisions : w[1] = Phone!Forget(r)
        \/ n # 0 /\ w[1] \in {Phone!Store(n), Phone!Bury(n)}
        \/ n # 0 /\ 1 = Len(w) /\ w[1] \in {Phone!MarkReady(n), Phone!MarkMissing(n)}
    BY <2>1 DEF Shape
  <2> QED BY <1>3, <2>1, <2>2
<1> QED BY <1>2, <1>4, <1>6, <1>7, <1>8 DEF t

\* A work that is done does nothing.
LEMMA NoWork == \A e : ~Does(<<>>, e)
  BY DEF Does

\* What a short work does, ...
LEMMA ShortWorks ==
    /\ \A a : \A e : Does(<<a>>, e) <=> e = a
    /\ \A a, b : \A e : Does(<<a, b>>, e) <=> e = a \/ e = b
    /\ \A a, b, c : \A e : Does(<<a, b, c>>, e) <=> e = a \/ e = b \/ e = c
<1>1. ASSUME NEW a, NEW e PROVE Does(<<a>>, e) <=> e = a
  BY DEF Does
<1>2. ASSUME NEW a, NEW b, NEW e PROVE Does(<<a, b>>, e) <=> e = a \/ e = b
  <2>1. /\ Len(<<a, b>>) = 2 /\ 1 \in 1..2 /\ 2 \in 1..2 /\ \A i \in 1..2 : i = 1 \/ i = 2
        /\ <<a, b>>[1] = a /\ <<a, b>>[2] = b
    OBVIOUS
  <2> QED BY <2>1 DEF Does
<1>3. ASSUME NEW a, NEW b, NEW c, NEW e PROVE Does(<<a, b, c>>, e) <=> e = a \/ e = b \/ e = c
  <2>1. /\ Len(<<a, b, c>>) = 3 /\ 1 \in 1..3 /\ 2 \in 1..3 /\ 3 \in 1..3
        /\ \A i \in 1..3 : i = 1 \/ i = 2 \/ i = 3
        /\ <<a, b, c>>[1] = a /\ <<a, b, c>>[2] = b /\ <<a, b, c>>[3] = c
    OBVIOUS
  <2> QED BY <2>1 DEF Does
<1> QED BY <1>1, <1>2, <1>3

\* ... and the works an operation can have, after the keys it forgets first.
LEMMA ShortShapes ==
    ASSUME NEW n \in Nat, n \in Phone!Revisions \/ n = 0
    PROVE  /\ <<>> \in Seq(AnEffect) /\ Shape(<<>>, n)
           /\ n # 0 => \A w \in {<<Phone!Forget(n)>>, <<Phone!MarkReady(n)>>, <<Phone!MarkMissing(n)>>,
                                 <<Phone!Forget(n), Phone!MarkMissing(n)>>,
                                 <<Phone!Store(n), Phone!MarkReady(n)>>,
                                 <<Phone!Bury(n), Phone!Forget(n), Phone!MarkMissing(n)>>} :
                 w \in Seq(AnEffect) /\ Shape(w, n)
<1>1. <<>> \in Seq(AnEffect) /\ Shape(<<>>, n)
  BY NoWork DEF Shape
<1> SUFFICES ASSUME n # 0
    PROVE  \A w \in {<<Phone!Forget(n)>>, <<Phone!MarkReady(n)>>, <<Phone!MarkMissing(n)>>,
                     <<Phone!Forget(n), Phone!MarkMissing(n)>>,
                     <<Phone!Store(n), Phone!MarkReady(n)>>,
                     <<Phone!Bury(n), Phone!Forget(n), Phone!MarkMissing(n)>>} :
               w \in Seq(AnEffect) /\ Shape(w, n)
  BY <1>1
<1>2. {Phone!Forget(n), Phone!Store(n), Phone!Bury(n), Phone!MarkReady(n), Phone!MarkMissing(n)}
        \subseteq AnEffect
  BY EffectsDiffer
<1>3. ASSUME NEW a, NEW b, NEW c
      PROVE  /\ \A i \in 1..Len(<<a>>) : i = 1 /\ i = Len(<<a>>) /\ <<a>>[i] = a
             /\ \A i \in 1..Len(<<a, b>>) :
                   (i = 1 /\ <<a, b>>[i] = a) \/ (i = Len(<<a, b>>) /\ <<a, b>>[i] = b)
             /\ \A i \in 1..Len(<<a, b, c>>) :
                   \/ i = 1 /\ <<a, b, c>>[i] = a
                   \/ <<a, b, c>>[i] = b
                   \/ i = Len(<<a, b, c>>) /\ <<a, b, c>>[i] = c
  OBVIOUS
<1>4. /\ Phone!Store(n) \notin {Phone!Forget(n), Phone!MarkReady(n), Phone!MarkMissing(n), Phone!Bury(n)}
      /\ n \in Phone!Revisions
  BY EffectsDiffer
<1> HIDE DEF Phone!Forget, Phone!Store, Phone!Bury, Phone!MarkReady, Phone!MarkMissing
<1>5. \A a \in {Phone!Forget(n), Phone!MarkReady(n), Phone!MarkMissing(n)} :
         <<a>> \in Seq(AnEffect) /\ Shape(<<a>>, n)
  BY <1>2, <1>3, <1>4, ShortWorks DEF Shape
<1>6. /\ <<Phone!Forget(n), Phone!MarkMissing(n)>> \in Seq(AnEffect)
      /\ Shape(<<Phone!Forget(n), Phone!MarkMissing(n)>>, n)
  BY <1>2, <1>3, <1>4, ShortWorks DEF Shape
<1>7. /\ <<Phone!Store(n), Phone!MarkReady(n)>> \in Seq(AnEffect)
      /\ Shape(<<Phone!Store(n), Phone!MarkReady(n)>>, n)
  BY <1>2, <1>3, <1>4, ShortWorks DEF Shape
<1>8. /\ <<Phone!Bury(n), Phone!Forget(n), Phone!MarkMissing(n)>> \in Seq(AnEffect)
      /\ Shape(<<Phone!Bury(n), Phone!Forget(n), Phone!MarkMissing(n)>>, n)
  BY <1>2, <1>3, <1>4, ShortWorks DEF Shape
<1> QED BY <1>5, <1>6, <1>7, <1>8

\* One work after another does what both do; forgetting may come before a work
\* that neither stores nor buries.
LEMMA WorksInOrder ==
    ASSUME NEW u \in Seq(AnEffect), NEW v \in Seq(AnEffect)
    PROVE  /\ u \o v \in Seq(AnEffect)
           /\ \A e : Does(u \o v, e) <=> Does(u, e) \/ Does(v, e)
           /\ \A n : /\ \A i \in 1..Len(u) : \E r \in Phone!Revisions : u[i] = Phone!Forget(r)
                     /\ Shape(v, n) /\ ~Does(v, Phone!Store(n)) /\ ~Does(v, Phone!Bury(n))
                     => Shape(u \o v, n)
<1> DEFINE w == u \o v
<1>1. /\ w \in Seq(AnEffect) /\ Len(w) = Len(u) + Len(v) /\ Len(u) \in Nat /\ Len(v) \in Nat
      /\ \A i \in 1..Len(u) + Len(v) : w[i] = IF i <= Len(u) THEN u[i] ELSE v[i - Len(u)]
  BY ConcatProperties, LenProperties
<1> HIDE DEF w
<1>2. ASSUME NEW e PROVE Does(w, e) <=> Does(u, e) \/ Does(v, e)
  <2>1. ASSUME Does(w, e) PROVE Does(u, e) \/ Does(v, e)
    <3>1. PICK i \in 1..Len(w) : w[i] = e
      BY <2>1 DEF Does
    <3>2. CASE i <= Len(u)
      <4>1. i \in 1..Len(u) /\ u[i] = e
        BY <1>1, <3>1, <3>2
      <4> QED BY <4>1 DEF Does
    <3>3. CASE ~(i <= Len(u))
      <4>1. i - Len(u) \in 1..Len(v) /\ v[i - Len(u)] = e
        BY <1>1, <3>1, <3>3
      <4> QED BY <4>1 DEF Does
    <3> QED BY <3>2, <3>3
  <2>2. ASSUME Does(u, e) PROVE Does(w, e)
    <3>1. PICK i \in 1..Len(u) : u[i] = e
      BY <2>2 DEF Does
    <3>2. i \in 1..Len(w) /\ w[i] = e
      BY <1>1, <3>1
    <3> QED BY <3>2 DEF Does
  <2>3. ASSUME Does(v, e) PROVE Does(w, e)
    <3>1. PICK i \in 1..Len(v) : v[i] = e
      BY <2>3 DEF Does
    <3>2. i + Len(u) \in 1..Len(w) /\ ~(i + Len(u) <= Len(u)) /\ (i + Len(u)) - Len(u) = i
      BY <1>1, <3>1
    <3>3. w[i + Len(u)] = e
      BY <1>1, <3>1, <3>2
    <3> QED BY <3>2, <3>3 DEF Does
  <2> QED BY <2>1, <2>2, <2>3
<1>3. ASSUME NEW n, \A i \in 1..Len(u) : \E r \in Phone!Revisions : u[i] = Phone!Forget(r),
             Shape(v, n), ~Does(v, Phone!Store(n)), ~Does(v, Phone!Bury(n))
      PROVE  Shape(w, n)
  <2>1. ~Does(u, Phone!Store(n))
    BY <1>3, EffectsDiffer DEF Does
  <2>2. ~Does(w, Phone!Store(n))
    BY <1>2, <1>3, <2>1
  <2>3. ASSUME NEW i \in 1..Len(w)
        PROVE  \/ \E r \in Phone!Revisions : w[i] = Phone!Forget(r)
               \/ n # 0 /\ i = 1 /\ w[i] \in {Phone!Store(n), Phone!Bury(n)}
               \/ n # 0 /\ i = Len(w) /\ w[i] \in {Phone!MarkReady(n), Phone!MarkMissing(n)}
    <3>1. CASE i <= Len(u)
      <4>1. i \in 1..Len(u) /\ w[i] = u[i]
        BY <1>1, <3>1
      <4> QED BY <1>3, <4>1
    <3>2. CASE ~(i <= Len(u))
      <4>1. i - Len(u) \in 1..Len(v) /\ w[i] = v[i - Len(u)] /\ (i - Len(u) = Len(v) => i = Len(w))
        BY <1>1, <3>2
      <4>2. v[i - Len(u)] \notin {Phone!Store(n), Phone!Bury(n)}
        BY <1>3, <4>1 DEF Does
      <4> QED BY <1>3, <4>1, <4>2 DEF Shape
    <3> QED BY <3>1, <3>2
  <2> QED BY <2>2, <2>3 DEF Shape
<1> QED BY <1>1, <1>2, <1>3 DEF w

\* The bounds in numbers.
LEMMA PhoneBounds ==
    ASSUME Phone!BoundsAssumption
    PROVE  /\ MaxRevision \in Nat /\ MaxMutations \in Nat /\ Phone!Foreign \in Nat
           /\ Phone!Foreign > MaxMutations /\ Phone!Revisions = 1..MaxRevision
BY DEF Phone!BoundsAssumption, Phone!Foreign, Phone!Revisions

\* What PhoneTypes says of a row.
LEMMA RowFacts ==
    ASSUME Phone!BoundsAssumption, PhoneTypes
    PROVE  /\ Latest \in Nat /\ (rows = <<>> <=> Latest = 0) /\ Latest \in Phone!Revisions \cup {0}
           /\ \A r \in 1..Latest : /\ r \in Phone!Revisions /\ rows[r] \in Rows
                                   /\ rows[r].mutation \in 1..MaxMutations
                                   /\ rows[r].state \in Phone!States
                                   /\ rows[r].tombstoned \in BOOLEAN
           /\ \A r \in Phone!Revisions : item[r] \in 0..Phone!Foreign
<1>1. Latest \in Nat /\ Latest <= MaxRevision /\ rows \in Seq(Rows)
  BY LenProperties DEF PhoneTypes, Latest
<1>2. rows = <<>> <=> Latest = 0
  BY <1>1, EmptySeq DEF Latest
<1>3. ASSUME NEW r \in 1..Latest
      PROVE  r \in Phone!Revisions /\ rows[r] \in Rows
  BY <1>1, <1>3, ElementOfSeq, PhoneBounds DEF Latest
<1>4. \A r \in 1..Latest : /\ rows[r].mutation \in 1..MaxMutations
                           /\ rows[r].state \in Phone!States
                           /\ rows[r].tombstoned \in BOOLEAN
  BY <1>3 DEF Rows
<1>5. Latest \in Phone!Revisions \cup {0}
  BY <1>1, PhoneBounds
<1>6. \A r \in Phone!Revisions : item[r] \in 0..Phone!Foreign
  BY DEF PhoneTypes
<1> QED BY <1>1, <1>2, <1>3, <1>4, <1>5, <1>6

\* Only the latest revision is reserved, and it is the only one to reconcile.
LEMMA LatestIsReserved ==
    ASSUME Phone!BoundsAssumption, PhoneTypes
    PROVE  /\ \A r : Phone!Reserved(r) <=> r = Latest /\ r # 0
           /\ Latest = 0 => Phone!Reconcilable = {}
           /\ Latest # 0 => Phone!Reconcilable = {Latest}
<1>1. \A r : Phone!Reserved(r) <=> r = Latest /\ r # 0
  BY DEF Phone!Reserved, Latest
<1>2. Latest \in Phone!Revisions \cup {0}
  BY RowFacts
<1> QED BY <1>1, <1>2 DEF Phone!Reconcilable

\* An order of the orphans has each of them.
LEMMA OrderHasAll ==
    ASSUME Phone!BoundsAssumption, NEW order \in Phone!SetToSeqs(Phone!Orphans)
    PROVE  /\ order \in Seq(Phone!Revisions) /\ DOMAIN order = 1..Len(order)
           /\ \A i \in 1..Len(order) : order[i] \in Phone!Orphans
           /\ \A r \in Phone!Orphans : \E i \in 1..Len(order) : order[i] = r
<1> DEFINE S == Phone!Orphans
           c == Cardinality(S)
<1>1. IsFiniteSet(Phone!Revisions) /\ S \subseteq Phone!Revisions
  BY FS_Interval, PhoneBounds DEF Phone!Orphans
<1>2. IsFiniteSet(S)
  BY <1>1, FS_Subset
<1>3. c \in Nat
  BY <1>2, FS_CardinalityType
<1>4. Phone!Cardinality(S) = c
  BY DEF Phone!Cardinality, Cardinality
<1> HIDE DEF S, c
<1>5. order \in [1..c -> S] /\ \A i, j \in 1..c : i # j => order[i] # order[j]
  BY <1>4 DEF Phone!SetToSeqs, S
<1>6. order \in Injection(1..c, S)
  BY <1>5 DEF Injection, IsInjective
<1>7. IsFiniteSet(1..c) /\ Cardinality(1..c) = c
  BY <1>3, FS_Interval
<1>8. order \in Surjection(1..c, S)
  BY <1>2, <1>6, <1>7, FS_Injection DEF c
<1>9. \A r \in S : \E i \in 1..c : order[i] = r
  BY <1>8 DEF Surjection
<1>10. order \in Seq(Phone!Revisions) /\ Len(order) = c
  BY <1>1, <1>3, <1>5
<1> QED BY <1>5, <1>9, <1>10 DEF S

\* Forgetting a sequence of revisions.
LEMMA ForgettingAll ==
    ASSUME NEW s \in Seq(Phone!Revisions)
    PROVE  LET w == [i \in DOMAIN s |-> Phone!Forget(s[i])] IN
             /\ w \in Seq(AnEffect) /\ Len(w) = Len(s)
             /\ \A i \in 1..Len(w) : \E r \in Phone!Revisions : w[i] = Phone!Forget(r)
             /\ \A i \in 1..Len(s) : Does(w, Phone!Forget(s[i]))
             /\ \A r : Does(w, Phone!Forget(r)) => \E i \in 1..Len(s) : s[i] = r
             /\ \A e : Does(w, e) => e.kind = "forget"
<1> DEFINE w == [i \in DOMAIN s |-> Phone!Forget(s[i])]
<1>1. Len(s) \in Nat /\ DOMAIN s = 1..Len(s) /\ \A i \in 1..Len(s) : s[i] \in Phone!Revisions
  BY LenProperties, ElementOfSeq
<1>2. \A i \in 1..Len(s) : w[i] = Phone!Forget(s[i]) /\ w[i] \in AnEffect
  BY <1>1, EffectsDiffer
<1>3. w \in [1..Len(s) -> AnEffect]
  BY <1>1, EffectsDiffer
<1> HIDE DEF w
<1>4. w \in Seq(AnEffect) /\ Len(w) = Len(s)
  BY <1>1, <1>3
<1>5. \A e : Does(w, e) => \E i \in 1..Len(s) : e = Phone!Forget(s[i])
  BY <1>2, <1>4 DEF Does
<1>6. \A r : Does(w, Phone!Forget(r)) => \E i \in 1..Len(s) : s[i] = r
  BY <1>5, EffectsDiffer
<1>7. \A e : Does(w, e) => e.kind = "forget"
  BY <1>5, EffectsDiffer
<1>8. \A i \in 1..Len(s) : Does(w, Phone!Forget(s[i]))
  BY <1>2, <1>4 DEF Does
<1> QED BY <1>1, <1>2, <1>4, <1>6, <1>7, <1>8 DEF w

\* What an operation will do to the latest revision.
LEMMA LatestWorks ==
    ASSUME Phone!BoundsAssumption, PhoneTypes, Latest # 0
    PROVE  LET n == Latest IN
           /\ Phone!Settling \in
                {<<>>, <<Phone!Forget(n)>>, <<Phone!MarkReady(n)>>, <<Phone!MarkMissing(n)>>,
                 <<Phone!Forget(n), Phone!MarkMissing(n)>>}
           /\ Phone!Completing(n) \in
                {<<Phone!Forget(n)>>, <<Phone!MarkReady(n)>>, <<Phone!Store(n), Phone!MarkReady(n)>>}
           /\ Phone!Deleting(n) =
                IF rows[n].tombstoned THEN <<Phone!Forget(n), Phone!MarkMissing(n)>>
                ELSE <<Phone!Bury(n), Phone!Forget(n), Phone!MarkMissing(n)>>
<1> DEFINE n == Latest
<1>1. Phone!Reconcilable = {n} /\ Phone!MarkUnavailable(n) = Phone!MarkMissing(n)
  BY LatestIsReserved, EffectsDiffer
<1>2. (CHOOSE r \in {n} : TRUE) = n
  OBVIOUS
<1>3. Phone!Settling \in
                {<<>>, <<Phone!Forget(n)>>, <<Phone!MarkReady(n)>>, <<Phone!MarkMissing(n)>>,
                 <<Phone!Forget(n), Phone!MarkMissing(n)>>}
  <2> HIDE DEF n
  <2> QED BY <1>1, <1>2 DEF Phone!Settling
<1>4. Phone!Completing(n) \in
                {<<Phone!Forget(n)>>, <<Phone!MarkReady(n)>>, <<Phone!Store(n), Phone!MarkReady(n)>>}
  BY DEF Phone!Completing
<1>5. /\ <<Phone!Bury(n)>> \o <<Phone!Forget(n), Phone!MarkMissing(n)>>
           = <<Phone!Bury(n), Phone!Forget(n), Phone!MarkMissing(n)>>
      /\ <<>> \o <<Phone!Forget(n), Phone!MarkMissing(n)>> = <<Phone!Forget(n), Phone!MarkMissing(n)>>
  <2> DEFINE a == Phone!Bury(n)
             b == Phone!Forget(n)
             c == Phone!MarkMissing(n)
  <2>1. a \in AnEffect /\ b \in AnEffect /\ c \in AnEffect
    BY RowFacts, EffectsDiffer
  <2> HIDE DEF a, b, c
  <2>2. <<a>> \in Seq(AnEffect) /\ <<b, c>> \in Seq(AnEffect) /\ <<a, b, c>> \in Seq(AnEffect)
    BY <2>1
  <2>3. <<>> \o <<b, c>> = <<b, c>>
    BY <2>2, ConcatEmptySeq
  <2>4. /\ <<a>> \o <<b, c>> \in Seq(AnEffect) /\ Len(<<a>> \o <<b, c>>) = 3
        /\ \A i \in 1..3 : (<<a>> \o <<b, c>>)[i] = IF i <= 1 THEN <<a>>[i] ELSE <<b, c>>[i - 1]
    BY <2>2, ConcatProperties
  <2>5. \A i \in 1..3 : (IF i <= 1 THEN <<a>>[i] ELSE <<b, c>>[i - 1]) = <<a, b, c>>[i]
    OBVIOUS
  <2>6. <<a>> \o <<b, c>> = <<a, b, c>>
    <3> DEFINE u == <<a>> \o <<b, c>>
               v == <<a, b, c>>
    <3>1. u \in Seq(AnEffect) /\ v \in Seq(AnEffect) /\ Len(u) = 3 /\ Len(v) = 3
      BY <2>2, <2>4
    <3>2. \A i \in 1..3 : u[i] = v[i]
      BY <2>4, <2>5
    <3> HIDE DEF u, v
    <3>3. u = v
      BY <3>1, <3>2, SeqEqual
    <3> QED BY <3>3 DEF u, v
  <2> QED BY <2>3, <2>6 DEF a, b, c
<1>6. Phone!Deleting(n) =
                IF rows[n].tombstoned THEN <<Phone!Forget(n), Phone!MarkMissing(n)>>
                ELSE <<Phone!Bury(n), Phone!Forget(n), Phone!MarkMissing(n)>>
  BY <1>5 DEF Phone!Deleting
<1> QED BY <1>3, <1>4, <1>6

-----------------------------------------------------------------------------
(* What each operation is to do *)

\* What a reconciliation is to do fits the two stores, whatever they hold.
LEMMA ReconcilingFits ==
    ASSUME Phone!BoundsAssumption, PhoneTypes, Stores, NEW order \in Phone!SetToSeqs(Phone!Orphans)
    PROVE  LET w == [i \in DOMAIN order |-> Phone!Forget(order[i])] \o Phone!Settling IN
             w \in Seq(AnEffect) /\ Works(w, "reconcile", "none", Latest, item, FALSE)
<1> DEFINE n == Latest
           u == [i \in DOMAIN order |-> Phone!Forget(order[i])]
           v == Phone!Settling
           w == u \o v
<1>1. /\ order \in Seq(Phone!Revisions)
      /\ \A i \in 1..Len(order) : order[i] \in Phone!Orphans
      /\ \A r \in Phone!Orphans : \E i \in 1..Len(order) : order[i] = r
  BY OrderHasAll
<1>2. /\ u \in Seq(AnEffect)
      /\ \A i \in 1..Len(u) : \E r \in Phone!Revisions : u[i] = Phone!Forget(r)
      /\ \A i \in 1..Len(order) : Does(u, Phone!Forget(order[i]))
      /\ \A r : Does(u, Phone!Forget(r)) => \E i \in 1..Len(order) : order[i] = r
      /\ \A e : Does(u, e) => e.kind = "forget"
  BY <1>1, ForgettingAll
<1> HIDE DEF u
<1>3. \A r : Does(u, Phone!Forget(r)) <=> r \in Phone!Orphans
  BY <1>1, <1>2
<1>4. \A r : r \in Phone!Orphans <=> r \in Phone!Revisions /\ item[r] # 0 /\ r # n
  BY LatestIsReserved, PhoneBounds DEF Phone!Orphans
<1>5. n \in Nat /\ (n \in Phone!Revisions \/ n = 0) /\ (n # 0 => n \in 1..Latest)
  BY RowFacts
<1>6. /\ n = 0 => v = <<>>
      /\ n # 0 => v \in {<<>>, <<Phone!Forget(n)>>, <<Phone!MarkReady(n)>>, <<Phone!MarkMissing(n)>>,
                         <<Phone!Forget(n), Phone!MarkMissing(n)>>}
  BY LatestIsReserved, LatestWorks DEF Phone!Settling
<1>7. v \in Seq(AnEffect) /\ Shape(v, n)
  BY <1>5, <1>6, ShortShapes
<1>8. /\ \A e : Does(v, e) => e.kind \in {"forget", "mark"}
      /\ \A r : Does(v, Phone!Forget(r)) => r = n
  <2>1. ASSUME NEW e, Does(v, e)
        PROVE  e \in {Phone!Forget(n), Phone!MarkReady(n), Phone!MarkMissing(n)}
    BY <1>6, <2>1, ShortWorks, NoWork
  <2> QED BY <2>1, EffectsDiffer
<1>9. ~Does(v, Phone!Store(n)) /\ ~Does(v, Phone!Bury(n))
  BY <1>8, EffectsDiffer
<1>10. /\ w \in Seq(AnEffect) /\ Shape(w, n)
       /\ \A e : Does(w, e) <=> Does(u, e) \/ Does(v, e)
  BY <1>2, <1>7, <1>9, WorksInOrder
<1>11. /\ Does(w, Phone!MarkReady(n)) <=> Does(v, Phone!MarkReady(n))
       /\ Does(w, Phone!MarkMissing(n)) <=> Does(v, Phone!MarkMissing(n))
       /\ ~Does(w, Phone!Bury(n)) /\ ~Does(w, Phone!Store(n))
       /\ Does(w, Phone!Forget(n)) <=> Does(v, Phone!Forget(n))
       /\ \A r \in Phone!Revisions : item[r] # 0 /\ r # n => Does(w, Phone!Forget(r))
  BY <1>2, <1>3, <1>4, <1>9, <1>10, EffectsDiffer
<1>12. /\ Does(v, Phone!MarkReady(n)) =>
             /\ rows[n].state = "credential_pending" /\ ~rows[n].tombstoned
             /\ ~Does(v, Phone!Forget(n)) /\ item[n] = rows[n].mutation
       /\ Does(v, Phone!MarkMissing(n)) => item[n] = 0 \/ Does(v, Phone!Forget(n))
       /\ n # 0 /\ rows[n].state = "ready" =>
             \/ Does(v, Phone!MarkMissing(n))
             \/ item[n] = rows[n].mutation /\ ~Does(v, Phone!Forget(n))
  <2>1. CASE n = 0
    BY <2>1, <1>6, NoWork
  <2>2. CASE n # 0
    <3>1. Phone!Reconcilable = {n} /\ Phone!MarkUnavailable(n) = Phone!MarkMissing(n)
      BY <2>2, LatestIsReserved, EffectsDiffer
    <3>2. (CHOOSE r \in {n} : TRUE) = n
      OBVIOUS
    <3>3. /\ rows[n].tombstoned \in BOOLEAN
          /\ rows[n].state \in Phone!States
      BY <1>5, <2>2, RowFacts
    <3>4. /\ Phone!Forget(n) # Phone!MarkReady(n) /\ Phone!Forget(n) # Phone!MarkMissing(n)
          /\ Phone!MarkReady(n) # Phone!MarkMissing(n)
      BY EffectsDiffer
    <3> DEFINE s == rows[n].state
               m == rows[n].mutation
               F == Phone!Forget(n)
               R == Phone!MarkReady(n)
               M == Phone!MarkMissing(n)
    <3>5. v = IF rows[n].tombstoned \/ s = "delete_pending" THEN <<F, M>>
              ELSE CASE s = "missing" -> <<F>>
                     [] s = "credential_pending" ->
                          IF item[n] = m THEN <<R>> ELSE IF item[n] = 0 THEN <<>> ELSE <<F>>
                     [] s = "ready" ->
                          IF item[n] = m THEN <<>> ELSE IF item[n] = 0 THEN <<M>> ELSE <<F, M>>
                     [] OTHER -> <<>>
      <4> HIDE DEF n, F, R, M
      <4> QED BY <3>1, <3>2 DEF Phone!Settling, Phone!Matches, F, R, M
    <3>6. CASE rows[n].tombstoned \/ s = "delete_pending"
      <4>1. v = <<F, M>>
        BY <3>5, <3>6
      <4>2. Does(v, F) /\ Does(v, M) /\ ~Does(v, R)
        BY <4>1, <3>4, ShortWorks
      <4> QED BY <4>2
    <3>7. CASE ~rows[n].tombstoned /\ s = "missing"
      <4>1. v = <<F>>
        BY <3>5, <3>7
      <4>2. ~Does(v, M) /\ ~Does(v, R)
        BY <4>1, <3>4, ShortWorks
      <4> QED BY <4>2, <3>7
    <3>8. CASE ~rows[n].tombstoned /\ s = "credential_pending"
      <4>1. v = IF item[n] = m THEN <<R>> ELSE IF item[n] = 0 THEN <<>> ELSE <<F>>
        BY <3>5, <3>8
      <4>2. ~Does(v, M) /\ (Does(v, R) => ~Does(v, F) /\ item[n] = m)
        BY <4>1, <3>4, ShortWorks, NoWork
      <4> QED BY <4>2, <3>8
    <3>9. CASE ~rows[n].tombstoned /\ s = "ready"
      <4>1. v = IF item[n] = m THEN <<>> ELSE IF item[n] = 0 THEN <<M>> ELSE <<F, M>>
        BY <3>5, <3>9
      <4>2. /\ ~Does(v, R)
            /\ Does(v, M) => item[n] = 0 \/ Does(v, F)
            /\ Does(v, M) \/ (item[n] = m /\ ~Does(v, F))
        BY <4>1, <3>4, ShortWorks, NoWork
      <4> QED BY <4>2
    <3> QED BY <3>3, <3>6, <3>7, <3>8, <3>9 DEF Phone!States
  <2> QED BY <2>1, <2>2
<1>13. Works(w, "reconcile", "none", n, item, FALSE)
  BY <1>10, <1>11, <1>12 DEF Works
<1> QED BY <1>10, <1>13 DEF u

\* What is done before the user is asked for a key leaves no other one, and not
\* this one where the alert is shown.
LEMMA PreparingFits ==
    ASSUME Phone!BoundsAssumption, PhoneTypes, Stores, reconciled, Latest # 0, Phone!Writable(Latest)
    PROVE  /\ Phone!Preparing(Latest) \in Seq(AnEffect)
           /\ Works(Phone!Preparing(Latest), "prepare", Phone!Prepared(Latest), Latest, item, TRUE)
<1> DEFINE n == Latest
           s == [e \in 1..n - 1 |-> e]
           u == Phone!Superseded(n)
           v == IF item[n] = 0 THEN <<>>
                ELSE IF Phone!Matches(n) THEN <<Phone!MarkReady(n)>> ELSE <<Phone!Forget(n)>>
           w == Phone!Preparing(n)
<1>1. /\ n \in Nat /\ n \in Phone!Revisions /\ n \in 1..Latest
      /\ Phone!Revisions = 1..MaxRevision /\ MaxRevision \in Nat
  BY RowFacts, PhoneBounds
<1>2. /\ s \in Seq(Phone!Revisions) /\ Len(s) = n - 1 /\ DOMAIN s = 1..n - 1
      /\ \A i \in 1..n - 1 : s[i] = i
  <2>1. s \in [1..n - 1 -> Phone!Revisions] /\ n - 1 \in Nat
    BY <1>1
  <2> HIDE DEF n
  <2> QED BY <2>1
<1> DEFINE x == [i \in DOMAIN s |-> Phone!Forget(s[i])]
<1>3. u = x
  BY <1>2 DEF Phone!Superseded
<1> HIDE DEF s
<1>3a. /\ x \in Seq(AnEffect)
       /\ \A i \in 1..Len(x) : \E r \in Phone!Revisions : x[i] = Phone!Forget(r)
       /\ \A i \in 1..Len(s) : Does(x, Phone!Forget(s[i]))
       /\ \A r : Does(x, Phone!Forget(r)) => \E i \in 1..Len(s) : s[i] = r
       /\ \A e : Does(x, e) => e.kind = "forget"
  BY <1>2, ForgettingAll
<1> HIDE DEF x, u
<1>4. /\ u \in Seq(AnEffect)
      /\ \A i \in 1..Len(u) : \E r \in Phone!Revisions : u[i] = Phone!Forget(r)
      /\ \A i \in 1..n - 1 : Does(u, Phone!Forget(s[i]))
      /\ \A r : Does(u, Phone!Forget(r)) => \E i \in 1..n - 1 : s[i] = r
      /\ \A e : Does(u, e) => e.kind = "forget"
  BY <1>2, <1>3, <1>3a
<1>5. \A r : Does(u, Phone!Forget(r)) <=> r \in 1..n - 1
  BY <1>2, <1>4
<1>6. w = u \o v
  BY DEF Phone!Preparing, u
<1> HIDE DEF w
<1>7. v \in Seq(AnEffect) /\ Shape(v, n)
  BY <1>1, ShortShapes
<1>8. /\ Phone!Forget(n) # Phone!MarkReady(n) /\ Phone!MarkReady(n) # Phone!MarkMissing(n)
      /\ Phone!Forget(n) # Phone!MarkMissing(n)
      /\ Phone!Store(n) \notin {Phone!Forget(n), Phone!MarkReady(n)}
      /\ Phone!Bury(n) \notin {Phone!Forget(n), Phone!MarkReady(n)}
  BY EffectsDiffer
<1>9. /\ ~Does(v, Phone!Store(n)) /\ ~Does(v, Phone!Bury(n)) /\ ~Does(v, Phone!MarkMissing(n))
      /\ Does(v, Phone!MarkReady(n)) => item[n] # 0 /\ Phone!Matches(n) /\ ~Does(v, Phone!Forget(n))
  BY <1>8, ShortWorks, NoWork
<1>10. /\ w \in Seq(AnEffect) /\ Shape(w, n)
       /\ \A e : Does(w, e) <=> Does(u, e) \/ Does(v, e)
  BY <1>4, <1>6, <1>7, <1>9, WorksInOrder
<1> HIDE DEF v
<1>11. /\ Does(w, Phone!MarkReady(n)) <=> Does(v, Phone!MarkReady(n))
       /\ ~Does(w, Phone!Bury(n)) /\ ~Does(w, Phone!Store(n)) /\ ~Does(w, Phone!MarkMissing(n))
       /\ Does(w, Phone!Forget(n)) <=> Does(v, Phone!Forget(n))
  BY <1>4, <1>5, <1>9, <1>10, <1>1, EffectsDiffer
<1>12. \A r \in Phone!Revisions : item[r] # 0 /\ r # n => Does(w, Phone!Forget(r))
  <2>1. \A r \in Phone!Revisions : r > n => item[r] = 0
    BY DEF Stores
  <2> QED BY <2>1, <1>1, <1>5, <1>10
<1>13. rows[n].state = "credential_pending" /\ ~rows[n].tombstoned
  BY DEF Phone!Writable
<1>14. Phone!Prepared(n) = "present" <=> item[n] = 0
  BY DEF Phone!Prepared
<1>15. Works(w, "prepare", Phone!Prepared(n), n, item, TRUE)
  BY <1>1, <1>9, <1>10, <1>11, <1>12, <1>13, <1>14 DEF Works, Phone!Matches
<1> QED BY <1>10, <1>15 DEF w

\* The key the user typed is stored before its row says so.
LEMMA CompletingFits ==
    ASSUME Phone!BoundsAssumption, PhoneTypes, Stores, reconciled, sheet # Phone!NoSheet, Latest # 0,
           Phone!Writable(Latest), NEW then \in {"ready", "reject"}
    PROVE  /\ Phone!Completing(Latest) \in Seq(AnEffect)
           /\ Works(Phone!Completing(Latest), "complete", then, Latest, item, TRUE)
<1> DEFINE n == Latest
           w == Phone!Completing(n)
<1>1. n \in Nat /\ n \in Phone!Revisions /\ n \in 1..Latest
  BY RowFacts
<1>2. w \in Seq(AnEffect) /\ Shape(w, n)
  BY <1>1, LatestWorks, ShortShapes
<1>3. /\ Phone!Forget(n) # Phone!MarkReady(n) /\ Phone!MarkReady(n) # Phone!MarkMissing(n)
      /\ Phone!Forget(n) # Phone!MarkMissing(n)
      /\ Phone!Store(n) \notin {Phone!Forget(n), Phone!MarkReady(n), Phone!MarkMissing(n)}
      /\ Phone!Bury(n) \notin {Phone!Forget(n), Phone!MarkReady(n), Phone!Store(n)}
  BY EffectsDiffer
<1>4. /\ ~Does(w, Phone!Bury(n)) /\ ~Does(w, Phone!MarkMissing(n))
      /\ Does(w, Phone!MarkReady(n)) =>
            ~Does(w, Phone!Forget(n)) /\ (Phone!Matches(n) \/ Does(w, Phone!Store(n)))
  BY <1>3, ShortWorks DEF Phone!Completing
<1>5. rows[n].state = "credential_pending" /\ ~rows[n].tombstoned
  BY DEF Phone!Writable
<1>6. \A r \in Phone!Revisions : item[r] # 0 => r = n
  BY DEF Stores, OneItem
<1> HIDE DEF w
<1>7. Works(w, "complete", then, n, item, TRUE)
  BY <1>1, <1>2, <1>4, <1>5, <1>6 DEF Works, Phone!Matches
<1> QED BY <1>2, <1>7 DEF w

\* A key is removed under its tombstone.
LEMMA DeletingFits ==
    ASSUME Phone!BoundsAssumption, PhoneTypes, Stores, reconciled, work = <<>>,
           holder.op = "none", Latest # 0
    PROVE  /\ Phone!Deleting(Latest) \in Seq(AnEffect)
           /\ Works(Phone!Deleting(Latest), "delete", "none", Latest, item, TRUE)
<1> DEFINE n == Latest
           w == Phone!Deleting(n)
<1>1. n \in Nat /\ n \in Phone!Revisions /\ n \in 1..Latest /\ rows[n].tombstoned \in BOOLEAN
  BY RowFacts
<1>2. w = IF rows[n].tombstoned THEN <<Phone!Forget(n), Phone!MarkMissing(n)>>
          ELSE <<Phone!Bury(n), Phone!Forget(n), Phone!MarkMissing(n)>>
  BY LatestWorks
<1>3. w \in Seq(AnEffect) /\ Shape(w, n)
  BY <1>1, <1>2, ShortShapes
<1>4. /\ Phone!MarkReady(n) \notin {Phone!Forget(n), Phone!MarkMissing(n), Phone!Bury(n)}
      /\ Phone!Bury(n) \notin {Phone!Forget(n), Phone!MarkMissing(n)}
  BY EffectsDiffer
<1>5. /\ ~Does(w, Phone!MarkReady(n)) /\ Does(w, Phone!Forget(n))
      /\ Does(w, Phone!Bury(n)) <=> ~rows[n].tombstoned
  BY <1>1, <1>2, <1>4, ShortWorks
<1>6. rows[n].state = "ready" => item[n] = rows[n].mutation
  BY <1>1 DEF Stores, Works
<1>7. rows[n].tombstoned => rows[n].state # "ready"
  BY <1>1 DEF Stores
<1> HIDE DEF w
<1>8. Works(w, "delete", "none", n, item, TRUE)
  BY <1>1, <1>3, <1>5, <1>6, <1>7 DEF Works
<1> QED BY <1>3, <1>8 DEF w

-----------------------------------------------------------------------------
(* Types *)

\* A work that begins, or loses its first effect, is a work.
LEMMA WorkType ==
    ASSUME Phone!BoundsAssumption, PhoneTypes, Flowing, Stores, Phone!Next
    PROVE  work' \in Seq(AnEffect)
<1>1. work \in Seq(AnEffect) /\ <<>> \in Seq(AnEffect)
  BY DEF PhoneTypes
<1> USE DEF Phone!durable, Phone!page, Phone!counters
<1>2. ASSUME NEW flow \in {"boot", "save", "removal", "sheet"}, Phone!Reconciles(flow)
      PROVE  work' \in Seq(AnEffect)
  BY <1>2, ReconcilingFits DEF Phone!Reconciles, Phone!Reconcile, Phone!Take
<1>3. ASSUME NEW flow \in {"boot", "save", "removal", "sheet"}, Phone!Refuse(flow)
      PROVE  work' = work
  BY <1>3 DEF Phone!Refuse
<1>4. Phone!Effect => work' \in Seq(AnEffect)
  BY <1>1, HeadTailProperties DEF Phone!Effect
<1>5. Phone!EffectFails => work' = <<>>
  BY DEF Phone!EffectFails
<1>6. Phone!PrepareSave => work' \in Seq(AnEffect)
  <2>1. ASSUME Phone!PrepareSave, Phone!Exact(save.rev, save.mutation) /\ Phone!Writable(save.rev)
        PROVE  work' \in Seq(AnEffect)
    BY <2>1, LatestIsReserved, PreparingFits
    DEF Phone!PrepareSave, Phone!Exact, Phone!Take, Phone!Serves
  <2> QED BY <1>1, <2>1 DEF Phone!PrepareSave
<1>7. Phone!CompleteSave => work' \in Seq(AnEffect)
  <2>1. ASSUME Phone!CompleteSave, Phone!Exact(sheet.rev, sheet.mutation) /\ Phone!Writable(sheet.rev)
        PROVE  work' \in Seq(AnEffect)
    <3>1. sheet.rev = Latest /\ Latest # 0
      BY <2>1, LatestIsReserved DEF Phone!Exact
    <3>2. Phone!Completing(Latest) \in Seq(AnEffect)
      BY <3>1, RowFacts, LatestWorks, ShortShapes
    <3> QED BY <2>1, <3>1, <3>2 DEF Phone!CompleteSave, Phone!Take
  <2> QED BY <1>1, <2>1 DEF Phone!CompleteSave
<1>8. Phone!DeleteCredential => work' \in Seq(AnEffect)
  <2>1. ASSUME Phone!DeleteCredential, Phone!Reserved(removal.rev)
        PROVE  work' = work \/ work' = Phone!Deleting(removal.rev)
    BY <2>1 DEF Phone!DeleteCredential, Phone!Take
  <2>2. ASSUME Phone!DeleteCredential, ~Phone!Reserved(removal.rev) PROVE work' = work
    BY <2>2 DEF Phone!DeleteCredential
  <2>3. ASSUME Phone!DeleteCredential, Phone!Reserved(removal.rev)
        PROVE  Phone!Deleting(removal.rev) \in Seq(AnEffect)
    <3>1. removal.rev = Latest /\ Latest # 0
      BY <2>3, LatestIsReserved
    <3>2. reconciled /\ holder = Phone!Nobody /\ work = <<>> /\ holder.op = "none"
      BY <2>3 DEF Phone!DeleteCredential, Phone!Serves, Phone!Locked, Flowing, LockFlows, Phone!Nobody
    <3> QED BY <3>1, <3>2, DeletingFits
  <2> QED BY <1>1, <2>1, <2>2, <2>3
<1>9. Phone!Finish \/ Phone!StartSave \/ Phone!SaveReads \/ Phone!SaveReserves \/ Phone!SaveConsents
        \/ Phone!TapSave \/ Phone!CancelSave => work' = work
  BY DEF Phone!Finish, Phone!StartSave, Phone!SaveReads, Phone!SaveReserves, Phone!SaveConsents,
         Phone!TapSave, Phone!CancelSave
<1>10. Phone!OpenSetup \/ Phone!StartRemoval \/ Phone!RemovalReads \/ Phone!RemovalReadsBack \/ Phone!Launch
         \/ Phone!OpenDatabase \/ Phone!CloseDatabase \/ Phone!Reload => work' = work
  BY DEF Phone!OpenSetup, Phone!StartRemoval, Phone!RemovalReads, Phone!RemovalReadsBack, Phone!Launch,
         Phone!OpenDatabase, Phone!CloseDatabase, Phone!Reload
<1>11. Phone!Kill \/ Phone!Reinstall => work' = <<>>
  BY DEF Phone!Kill, Phone!Reinstall, Phone!Dead
<1>12. ASSUME NEW mode, Phone!SelectRoom(mode) PROVE work' = work
  BY <1>12 DEF Phone!SelectRoom
<1>13. ASSUME NEW r, NEW found, Phone!Disturb(r, found) PROVE work' = work
  BY <1>13 DEF Phone!Disturb
<1> QED
  BY <1>1, <1>2, <1>3, <1>4, <1>5, <1>6, <1>7, <1>8, <1>9, <1>10, <1>11, <1>12, <1>13 DEF Phone!Next

\* A failed or ended call leaves the flows typed.
LEMMA EndsTypes ==
    ASSUME PhoneTypes, NEW flow, Phone!Ends(flow)
    PROVE  /\ save' \in {save, Phone!Resting} /\ removal' \in {removal, Phone!Resting}
           /\ sheet' \in {sheet, Phone!NoSheet}
BY DEF Phone!Ends

\* The records a flow begins and ends with.
LEMMA NoRecords ==
    ASSUME Phone!BoundsAssumption
    PROVE  /\ Phone!Nobody \in [op : {"none", "reconcile", "prepare", "complete", "delete"},
                                for : {"none", "boot", "save", "removal", "sheet"},
                                then : {"none", "present", "ready", "reject"},
                                rev : 0..MaxRevision, mutation : 0..MaxMutations]
           /\ Phone!NoSheet \in [rev : 0..MaxRevision, mutation : 0..MaxMutations, tapped : BOOLEAN]
           /\ Phone!Resting \in [step : {"idle", "read", "reserve", "consent", "sheet", "asked"},
                                 rev : 0..MaxRevision, mutation : 0..MaxMutations, ask : BOOLEAN]
           /\ Phone!Resting \in [step : {"idle", "read", "delete", "status"},
                                 rev : 0..MaxRevision, mutation : 0..MaxMutations, ask : BOOLEAN]
           /\ Phone!NoTarget \in [rev : 0..MaxRevision, mutation : 0..MaxMutations]
BY PhoneBounds DEF Phone!Nobody, Phone!NoSheet, Phone!Resting, Phone!NoTarget

\* The rows and items stay typed.
LEMMA StoresType ==
    ASSUME Phone!BoundsAssumption, PhoneTypes, Flowing, Stores, Phone!Next
    PROVE  /\ rows' \in Seq(Rows) /\ Latest' <= MaxRevision
           /\ item' \in [Phone!Revisions -> 0..Phone!Foreign]
           /\ selected' \in 0..Latest'
<1> USE PhoneBounds DEF Phone!durable, Phone!page, Phone!counters
<1>1. /\ rows \in Seq(Rows) /\ Latest \in Nat /\ Latest <= MaxRevision /\ selected \in 0..Latest
      /\ item \in [Phone!Revisions -> 0..Phone!Foreign] /\ Phone!Revisions = 1..MaxRevision
  BY RowFacts DEF PhoneTypes
<1>2. ASSUME UNCHANGED <<rows, item, selected>>
      PROVE  /\ rows' \in Seq(Rows) /\ Latest' <= MaxRevision
             /\ item' \in [Phone!Revisions -> 0..Phone!Foreign] /\ selected' \in 0..Latest'
  BY <1>1, <1>2 DEF Latest
<1>3. ASSUME NEW flow \in {"boot", "save", "removal", "sheet"}, Phone!Reconciles(flow) \/ Phone!Refuse(flow)
      PROVE  UNCHANGED <<rows, item, selected>>
  BY <1>3 DEF Phone!Reconciles, Phone!Reconcile, Phone!Refuse
<1>4. ASSUME Phone!Effect
      PROVE  /\ rows' \in Seq(Rows) /\ Latest' = Latest
             /\ item' \in [Phone!Revisions -> 0..Phone!Foreign] /\ selected' = selected
  <2> DEFINE e == Head(work)
  <2>1. work \in Seq(AnEffect) /\ work # <<>> /\ Shape(work, Latest)
    BY <1>4 DEF PhoneTypes, Phone!Effect, Stores, Works
  <2>2. /\ e \in AnEffect
        /\ \/ e.kind = "forget"
           \/ e.kind \in {"store", "bury", "mark"} /\ e.rev = Latest /\ Latest # 0
    <3>1. /\ e \in AnEffect
          /\ \/ \E r \in Phone!Revisions : e = Phone!Forget(r)
             \/ Latest # 0 /\ e \in {Phone!Store(Latest), Phone!Bury(Latest)}
             \/ Latest # 0 /\ e \in {Phone!MarkReady(Latest), Phone!MarkMissing(Latest)}
      BY <2>1, WorkHead
    <3> HIDE DEF e
    <3> QED BY <3>1, EffectsDiffer
  <2>3. e.rev \in Phone!Revisions /\ e.to \in Phone!States
    BY <2>2 DEF AnEffect
  <2>4. /\ rows' = CASE e.kind = "mark" -> [rows EXCEPT ![e.rev].state = e.to]
                     [] e.kind = "bury" -> [rows EXCEPT ![e.rev].state = e.to, ![e.rev].tombstoned = TRUE]
                     [] OTHER -> rows
        /\ item' = CASE e.kind = "forget" -> [item EXCEPT ![e.rev] = 0]
                     [] e.kind = "store" -> [item EXCEPT ![e.rev] = rows[e.rev].mutation]
                     [] OTHER -> item
        /\ selected' = selected
    BY <1>4 DEF Phone!Effect
  <2> HIDE DEF e
  <2>5. rows' \in Seq(Rows) /\ Latest' = Latest
    <3>1. CASE e.kind \in {"mark", "bury"}
      <4>1. e.rev \in 1..Len(rows) /\ rows[e.rev] \in Rows
        BY <1>1, <2>2, <3>1, RowFacts DEF Latest
      <4>2. /\ [rows[e.rev] EXCEPT !.state = e.to] \in Rows
            /\ [rows[e.rev] EXCEPT !.state = e.to, !.tombstoned = TRUE] \in Rows
        BY <2>3, <4>1 DEF Rows
      <4>3. \/ rows' = [rows EXCEPT ![e.rev] = [rows[e.rev] EXCEPT !.state = e.to]]
            \/ rows' = [rows EXCEPT ![e.rev] = [rows[e.rev] EXCEPT !.state = e.to, !.tombstoned = TRUE]]
        <5>1. CASE e.kind = "mark" BY <2>4, <4>1, <5>1
        <5>2. CASE e.kind = "bury" BY <2>4, <4>1, <5>2
        <5> QED BY <3>1, <5>1, <5>2
      <4>4. PICK added \in Rows : rows' = [rows EXCEPT ![e.rev] = added]
        BY <4>2, <4>3
      <4>5. [rows EXCEPT ![e.rev] = added] \in Seq(Rows) /\ Len([rows EXCEPT ![e.rev] = added]) = Len(rows)
        BY <1>1, <4>1, ExceptSeq
      <4> QED BY <4>4, <4>5 DEF Latest
    <3>2. CASE e.kind \notin {"mark", "bury"}
      BY <1>1, <2>4, <3>2 DEF Latest
    <3> QED BY <3>1, <3>2
  <2>6. item' \in [Phone!Revisions -> 0..Phone!Foreign]
    <3>1. CASE e.kind = "forget"
      BY <1>1, <2>3, <2>4, <3>1
    <3>2. CASE e.kind = "store"
      <4>1. rows[e.rev].mutation \in 0..Phone!Foreign
        BY <1>1, <2>2, <3>2, RowFacts
      <4> QED BY <1>1, <2>3, <2>4, <3>2, <4>1
    <3>3. CASE e.kind \notin {"forget", "store"}
      BY <1>1, <2>4, <3>3
    <3> QED BY <3>1, <3>2, <3>3
  <2> QED BY <2>4, <2>5, <2>6
<1>5. Phone!EffectFails \/ Phone!Finish \/ Phone!StartSave \/ Phone!SaveReads \/ Phone!PrepareSave
        \/ Phone!TapSave \/ Phone!CancelSave \/ Phone!CompleteSave => UNCHANGED <<rows, item, selected>>
  BY DEF Phone!EffectFails, Phone!Finish, Phone!StartSave, Phone!SaveReads, Phone!PrepareSave,
         Phone!TapSave, Phone!CancelSave, Phone!CompleteSave
<1>6. ASSUME Phone!SaveReserves
      PROVE  /\ rows' \in Seq(Rows) /\ Latest' \in {Latest, Latest + 1} /\ Latest' <= MaxRevision
             /\ item' = item /\ selected' = selected
  <2>1. CASE save.rev = Len(rows) + 1
    <3> DEFINE added == [mutation |-> save.mutation, state |-> "credential_pending", tombstoned |-> FALSE]
    <3>1. rows' = Append(rows, added) /\ item' = item /\ selected' = selected /\ save.step = "reserve"
      BY <1>6, <2>1 DEF Phone!SaveReserves
    <3>2. save.rev \in Phone!Revisions /\ save.mutation \in 1..MaxMutations
      BY <3>1 DEF Flowing, PageFlows
    <3>3. added \in Rows
      BY <3>2 DEF Rows, Phone!States
    <3> HIDE DEF added
    <3>4. rows' \in Seq(Rows) /\ Len(rows') = Len(rows) + 1
      BY <1>1, <3>1, <3>3, AppendProperties
    <3> QED BY <1>1, <2>1, <3>1, <3>2, <3>4 DEF Latest
  <2>2. CASE save.rev # Len(rows) + 1
    BY <1>1, <1>6, <2>2 DEF Phone!SaveReserves, Latest
  <2> QED BY <2>1, <2>2
<1>7. ASSUME Phone!SaveConsents
      PROVE  rows' = rows /\ item' = item /\ selected' \in 0..Latest
  BY <1>1, <1>7, LatestIsReserved DEF Phone!SaveConsents
<1>8. Phone!OpenSetup \/ Phone!StartRemoval \/ Phone!RemovalReads \/ Phone!DeleteCredential
        \/ Phone!RemovalReadsBack \/ Phone!Launch \/ Phone!OpenDatabase \/ Phone!CloseDatabase
        \/ Phone!Reload \/ Phone!Kill => UNCHANGED <<rows, item, selected>>
  BY DEF Phone!OpenSetup, Phone!StartRemoval, Phone!RemovalReads, Phone!DeleteCredential,
         Phone!RemovalReadsBack, Phone!Launch, Phone!OpenDatabase, Phone!CloseDatabase,
         Phone!Reload, Phone!Kill
<1>9. Phone!Reinstall => rows' = <<>> /\ item' = item /\ selected' = 0
  BY DEF Phone!Reinstall
<1>9a. <<>> \in Seq(Rows) /\ Len(<<>>) = 0
  BY EmptySeq
<1>10. ASSUME NEW mode, Phone!SelectRoom(mode) PROVE UNCHANGED <<rows, item, selected>>
  BY <1>10 DEF Phone!SelectRoom
<1>11. ASSUME NEW r \in Phone!Revisions, NEW found \in {0, Phone!Foreign}, Phone!Disturb(r, found)
       PROVE  /\ rows' = rows /\ selected' = selected
              /\ item' \in [Phone!Revisions -> 0..Phone!Foreign]
  BY <1>1, <1>11 DEF Phone!Disturb
<1>12. CASE Phone!Effect BY <1>1, <1>4, <1>12
<1>13. CASE Phone!SaveReserves BY <1>1, <1>6, <1>13
<1>14. CASE Phone!SaveConsents BY <1>1, <1>7, <1>14 DEF Latest
<1>15. CASE Phone!Reinstall BY <1>1, <1>9, <1>9a, <1>15 DEF Latest
<1>16. ASSUME NEW r \in Phone!Revisions, NEW found \in {0, Phone!Foreign}, Phone!Disturb(r, found)
       PROVE  /\ rows' \in Seq(Rows) /\ Latest' <= MaxRevision
              /\ item' \in [Phone!Revisions -> 0..Phone!Foreign] /\ selected' \in 0..Latest'
  BY <1>1, <1>11, <1>16 DEF Latest
<1> QED
  BY <1>2, <1>3, <1>5, <1>8, <1>10, <1>12, <1>13, <1>14, <1>15, <1>16 DEF Phone!Next

\* What may be removed is of a row.
LEMMA RemovableFacts ==
    ASSUME Phone!BoundsAssumption, PhoneTypes
    PROVE  /\ Phone!Removable \in Wanted
           /\ Phone!Removable # Phone!NoTarget => Phone!Removable.mutation \in 1..MaxMutations
<1>1. CASE Phone!Reserved(selected) /\ Phone!Status(selected) \in {"ready", "delete_pending"}
  <2>1. selected \in 1..Latest /\ selected \in Phone!Revisions
    BY <1>1, LatestIsReserved, RowFacts
  <2>2. rows[selected].mutation \in 1..MaxMutations
    BY <2>1, RowFacts
  <2>3. Phone!Removable = [rev |-> selected, mutation |-> rows[selected].mutation]
    BY <1>1 DEF Phone!Removable
  <2> QED BY <2>1, <2>2, <2>3, PhoneBounds DEF Wanted
<1>2. CASE ~(Phone!Reserved(selected) /\ Phone!Status(selected) \in {"ready", "delete_pending"})
  <2>1. Phone!Removable = Phone!NoTarget
    BY <1>2 DEF Phone!Removable
  <2> QED BY <2>1, NoRecords DEF Wanted
<1> QED BY <1>1, <1>2

\* The sets of records of PhoneTypes.
\* The records of the lock, the sheet and the two flows.
Holders == [op : {"none", "reconcile", "prepare", "complete", "delete"},
            for : {"none", "boot", "save", "removal", "sheet"},
            then : {"none", "present", "ready", "reject"},
            rev : 0..MaxRevision, mutation : 0..MaxMutations]

Sheets == [rev : 0..MaxRevision, mutation : 0..MaxMutations, tapped : BOOLEAN]

Saves == [step : {"idle", "read", "reserve", "consent", "sheet", "asked"},
          rev : 0..MaxRevision, mutation : 0..MaxMutations, ask : BOOLEAN]

Removals == [step : {"idle", "read", "delete", "status"},
             rev : 0..MaxRevision, mutation : 0..MaxMutations, ask : BOOLEAN]

\* The flows of the page and the lock stay typed, ...
FlowTypes ==
    /\ holder \in Holders /\ sheet \in Sheets /\ save \in Saves /\ removal \in Removals
    /\ target \in Wanted /\ said \subseteq 1..MaxMutations /\ minted \in Nat

\* ... and so does the application around them.
AppTypes ==
    /\ room \in {"none", "demo", "provider"} /\ process \in {"off", "closed", "open"}
    /\ booted \in BOOLEAN /\ reconciled \in BOOLEAN

\* No step leaves the types of the process and the room.
LEMMA AppType ==
    ASSUME PhoneTypes, Phone!Next
    PROVE  AppTypes'
<1>1. /\ room \in {"none", "demo", "provider"} /\ process \in {"off", "closed", "open"}
      /\ booted \in BOOLEAN /\ reconciled \in BOOLEAN
  BY DEF PhoneTypes
<1> USE <1>1 DEF AppTypes, Phone!durable, Phone!page, Phone!counters
<1>2. ASSUME NEW flow \in {"boot", "save", "removal", "sheet"}, Phone!Reconciles(flow) \/ Phone!Refuse(flow)
      PROVE  AppTypes'
  BY <1>2 DEF Phone!Reconciles, Phone!Reconcile, Phone!Refuse
<1>3. Phone!Effect \/ Phone!EffectFails \/ Phone!Finish \/ Phone!StartSave \/ Phone!SaveReads
        \/ Phone!SaveReserves \/ Phone!SaveConsents \/ Phone!PrepareSave => AppTypes'
  BY DEF Phone!Effect, Phone!EffectFails, Phone!Finish, Phone!StartSave, Phone!SaveReads,
         Phone!SaveReserves, Phone!SaveConsents, Phone!PrepareSave
<1>4. Phone!TapSave \/ Phone!CancelSave \/ Phone!CompleteSave \/ Phone!OpenSetup \/ Phone!StartRemoval
        \/ Phone!RemovalReads \/ Phone!DeleteCredential \/ Phone!RemovalReadsBack => AppTypes'
  BY DEF Phone!TapSave, Phone!CancelSave, Phone!CompleteSave, Phone!OpenSetup, Phone!StartRemoval,
         Phone!RemovalReads, Phone!DeleteCredential, Phone!RemovalReadsBack
<1>5. Phone!Launch \/ Phone!OpenDatabase \/ Phone!CloseDatabase \/ Phone!Reload \/ Phone!Kill
        \/ Phone!Reinstall => AppTypes'
  BY DEF Phone!Launch, Phone!OpenDatabase, Phone!CloseDatabase, Phone!Reload, Phone!Kill,
         Phone!Reinstall, Phone!Dead
<1>6. ASSUME NEW mode \in {"demo", "provider"}, Phone!SelectRoom(mode) PROVE AppTypes'
  BY <1>6 DEF Phone!SelectRoom
<1>7. ASSUME NEW r, NEW found, Phone!Disturb(r, found) PROVE AppTypes'
  BY <1>7 DEF Phone!Disturb
<1> QED BY <1>2, <1>3, <1>4, <1>5, <1>6, <1>7 DEF Phone!Next

\* No step leaves the types of the flows, their sheet and the lock.
LEMMA FlowType ==
    ASSUME Phone!BoundsAssumption, PhoneTypes, Flowing, Phone!Next
    PROVE  FlowTypes'
<1>1. /\ holder \in Holders /\ sheet \in Sheets /\ save \in Saves /\ removal \in Removals
      /\ target \in Wanted /\ said \subseteq 1..MaxMutations /\ minted \in Nat
      /\ MaxRevision \in Nat /\ MaxMutations \in Nat
  BY PhoneBounds DEF PhoneTypes, Holders, Sheets, Saves, Removals, Wanted
<1>2. /\ Phone!Nobody \in Holders /\ Phone!NoSheet \in Sheets /\ Phone!Resting \in Saves
      /\ Phone!Resting \in Removals /\ Phone!NoTarget \in Wanted
  BY NoRecords DEF Holders, Sheets, Saves, Removals, Wanted
<1>3. Latest \in 0..MaxRevision /\ Phone!Removable \in Wanted
  BY <1>1, RowFacts, PhoneBounds, RemovableFacts
<1>4. ASSUME NEW task \in {"reconcile", "prepare", "complete", "delete"},
             NEW for \in {"boot", "save", "removal", "sheet"},
             NEW then \in {"none", "present", "ready", "reject"},
             NEW q \in 0..MaxRevision, NEW m \in 0..MaxMutations
      PROVE  [op |-> task, for |-> for, then |-> then, rev |-> q, mutation |-> m] \in Holders
  BY <1>4 DEF Holders
<1>5. /\ sheet.rev \in 0..MaxRevision /\ sheet.mutation \in 0..MaxMutations
      /\ save.rev \in 0..MaxRevision /\ save.mutation \in 0..MaxMutations
      /\ removal.rev \in 0..MaxRevision /\ removal.mutation \in 0..MaxMutations
      /\ target.rev \in 0..MaxRevision /\ target.mutation \in 0..MaxMutations
      /\ holder.rev \in 0..MaxRevision /\ holder.mutation \in 0..MaxMutations
      /\ Phone!NoTarget.rev \in 0..MaxRevision /\ Phone!NoTarget.mutation \in 0..MaxMutations
  BY <1>1, <1>2 DEF Sheets, Saves, Removals, Wanted, Holders
<1>6. ASSUME NEW flow, Phone!Ends(flow) PROVE save' \in Saves /\ removal' \in Removals /\ sheet' \in Sheets
  BY <1>1, <1>2, <1>6, EndsTypes
<1> USE DEF Phone!durable, Phone!page, Phone!counters
<1>7. ASSUME NEW flow \in {"boot", "save", "removal", "sheet"}, Phone!Reconciles(flow)
      PROVE  FlowTypes'
  <2>1. holder' = [op |-> "reconcile", for |-> flow, then |-> "none",
                   rev |-> Phone!NoTarget.rev, mutation |-> Phone!NoTarget.mutation]
    BY <1>7 DEF Phone!Reconciles, Phone!Reconcile, Phone!Take
  <2>2. holder' \in Holders
    BY <1>4, <1>5, <2>1
  <2> QED BY <1>1, <1>7, <2>2 DEF Phone!Reconciles, Phone!Reconcile, FlowTypes
<1>8. ASSUME NEW flow \in {"boot", "save", "removal", "sheet"}, Phone!Refuse(flow)
      PROVE  FlowTypes'
  <2>1. save' \in Saves /\ removal' \in Removals /\ sheet' \in Sheets
    BY <1>6, <1>8 DEF Phone!Refuse
  <2> QED BY <1>1, <1>8, <2>1 DEF Phone!Refuse, FlowTypes
<1>9. CASE Phone!Effect
  BY <1>1, <1>9 DEF Phone!Effect, FlowTypes
<1>10. CASE Phone!EffectFails
  <2>1. save' \in Saves /\ removal' \in Removals /\ sheet' \in Sheets
    BY <1>6, <1>10 DEF Phone!EffectFails
  <2> QED BY <1>1, <1>2, <1>10, <2>1 DEF Phone!EffectFails, FlowTypes
<1>11. CASE Phone!Finish
  <2>1. holder' = Phone!Nobody /\ said' = said /\ minted' = minted
    BY <1>11 DEF Phone!Finish
  <2>2. /\ [save EXCEPT !.step = "asked"] \in Saves /\ [removal EXCEPT !.step = "status"] \in Removals
        /\ [rev |-> holder.rev, mutation |-> holder.mutation, tapped |-> FALSE] \in Sheets
    BY <1>1, <1>5 DEF Saves, Removals, Sheets
  <2>3. /\ save' \in Saves /\ removal' \in Removals /\ sheet' \in Sheets /\ target' \in Wanted
    <3>1. CASE holder.op = "reconcile"
      BY <1>1, <1>11, <3>1 DEF Phone!Finish
    <3>2. CASE holder.op = "prepare" /\ holder.then = "present" /\ sheet = Phone!NoSheet
      BY <1>1, <1>11, <2>2, <3>2 DEF Phone!Finish
    <3>3. CASE holder.op = "delete"
      BY <1>1, <1>11, <2>2, <3>3 DEF Phone!Finish
    <3>4. CASE /\ holder.op \notin {"reconcile", "delete"}
               /\ ~(holder.op = "prepare" /\ holder.then = "present" /\ sheet = Phone!NoSheet)
      <4>1. Phone!Ends(holder.for) /\ target' \in {Phone!Removable, target}
        BY <1>11, <3>4 DEF Phone!Finish
      <4> QED BY <1>1, <1>3, <1>6, <4>1
    <3> QED BY <3>1, <3>2, <3>3, <3>4
  <2> QED BY <1>1, <1>2, <2>1, <2>3 DEF FlowTypes
<1>12. CASE Phone!StartSave
  BY <1>1, <1>2, <1>12 DEF Phone!StartSave, FlowTypes, Saves
<1>13. CASE Phone!SaveReads
  <2>1. UNCHANGED <<holder, sheet, removal, target, said>>
    BY <1>13 DEF Phone!SaveReads
  <2>2. CASE Phone!NeedsRevision
    <3>1. /\ Len(rows) < MaxRevision /\ minted < MaxMutations /\ minted' = minted + 1
          /\ save' = [step |-> "reserve", rev |-> Len(rows) + 1, mutation |-> minted + 1, ask |-> TRUE]
      BY <1>13, <2>2 DEF Phone!SaveReads
    <3>2. Len(rows) + 1 \in 0..MaxRevision /\ minted + 1 \in 0..MaxMutations /\ minted' \in Nat
      BY <1>1, <1>3, <3>1 DEF Latest
    <3>3. save' \in Saves
      BY <3>1, <3>2 DEF Saves
    <3> QED BY <1>1, <2>1, <3>2, <3>3 DEF FlowTypes
  <2>3. CASE ~Phone!NeedsRevision
    <3>1. /\ minted' = minted /\ rows # <<>>
          /\ save' = [step |-> "consent", rev |-> Len(rows), mutation |-> rows[Len(rows)].mutation,
                      ask |-> rows[Len(rows)].state = "credential_pending"]
      BY <1>13, <2>3 DEF Phone!SaveReads, Phone!NeedsRevision
    <3>2. Latest \in 1..Latest
      BY <3>1, RowFacts
    <3>3. rows[Len(rows)].mutation \in 0..MaxMutations /\ Len(rows) \in 0..MaxRevision
      BY <1>1, <1>3, <3>2, RowFacts DEF Latest
    <3>4. save' \in Saves
      BY <3>1, <3>3 DEF Saves
    <3> QED BY <1>1, <2>1, <3>1, <3>4 DEF FlowTypes
  <2> QED BY <2>2, <2>3
<1>14. CASE Phone!SaveReserves
  <2>1. save' = [save EXCEPT !.step = "consent"] \/ save' = Phone!Resting
    BY <1>14 DEF Phone!SaveReserves
  <2>2. save' \in Saves
    BY <1>1, <1>2, <2>1 DEF Saves
  <2> QED BY <1>1, <1>14, <2>2 DEF Phone!SaveReserves, FlowTypes
<1>15. CASE Phone!SaveConsents
  <2>1. /\ save' = [save EXCEPT !.step = "sheet"] \/ save' = Phone!Resting
        /\ target' = [rev |-> save.rev, mutation |-> save.mutation] \/ target' = target
    BY <1>15 DEF Phone!SaveConsents
  <2>2. save' \in Saves /\ target' \in Wanted
    BY <1>1, <1>2, <1>5, <2>1 DEF Saves, Wanted
  <2> QED BY <1>1, <1>15, <2>2 DEF Phone!SaveConsents, FlowTypes
<1>16. CASE Phone!PrepareSave
  <2>1. CASE Phone!Exact(save.rev, save.mutation) /\ Phone!Writable(save.rev)
    <3>1. /\ save' = save
          /\ holder' = [op |-> "prepare", for |-> "save", then |-> Phone!Prepared(save.rev),
                        rev |-> save.rev, mutation |-> save.mutation]
      BY <1>16, <2>1 DEF Phone!PrepareSave, Phone!Take
    <3>2. Phone!Prepared(save.rev) \in {"none", "present", "ready", "reject"}
      BY DEF Phone!Prepared
    <3>3. holder' \in Holders
      BY <1>4, <1>5, <3>1, <3>2
    <3> QED BY <1>1, <1>16, <3>1, <3>3 DEF Phone!PrepareSave, FlowTypes
  <2>2. CASE ~(Phone!Exact(save.rev, save.mutation) /\ Phone!Writable(save.rev))
    BY <1>1, <1>2, <1>16, <2>2 DEF Phone!PrepareSave, FlowTypes
  <2> QED BY <2>1, <2>2
<1>17. CASE Phone!TapSave
  <2>1. sheet' \in Sheets
    BY <1>1, <1>17 DEF Phone!TapSave, Sheets
  <2> QED BY <1>1, <1>17, <2>1 DEF Phone!TapSave, FlowTypes
<1>18. CASE Phone!CancelSave
  <2>1. save' \in Saves /\ removal' \in Removals /\ sheet' \in Sheets
    BY <1>6, <1>18 DEF Phone!CancelSave
  <2> QED BY <1>1, <1>18, <2>1 DEF Phone!CancelSave, FlowTypes
<1>19. CASE Phone!CompleteSave
  <2>1. CASE Phone!Exact(sheet.rev, sheet.mutation) /\ Phone!Writable(sheet.rev)
    <3>1. /\ UNCHANGED <<sheet, save, removal>>
          /\ holder' = [op |-> "complete", for |-> "sheet",
                        then |-> IF item[sheet.rev] \in {0, sheet.mutation} THEN "ready" ELSE "reject",
                        rev |-> sheet.rev, mutation |-> sheet.mutation]
      BY <1>19, <2>1 DEF Phone!CompleteSave, Phone!Take
    <3>2. holder' \in Holders
      BY <1>4, <1>5, <3>1
    <3> QED BY <1>1, <1>19, <3>1, <3>2 DEF Phone!CompleteSave, FlowTypes
  <2>2. CASE ~(Phone!Exact(sheet.rev, sheet.mutation) /\ Phone!Writable(sheet.rev))
    <3>1. Phone!Ends("sheet") /\ UNCHANGED <<holder, target, said, minted>>
      BY <1>19, <2>2 DEF Phone!CompleteSave
    <3>2. save' \in Saves /\ removal' \in Removals /\ sheet' \in Sheets
      BY <1>6, <3>1
    <3> QED BY <1>1, <3>1, <3>2 DEF FlowTypes
  <2> QED BY <2>1, <2>2
<1>20. CASE Phone!OpenSetup
  BY <1>1, <1>3, <1>20 DEF Phone!OpenSetup, FlowTypes
<1>21. CASE Phone!StartRemoval
  <2>1. removal' \in Removals
    BY <1>5, <1>21 DEF Phone!StartRemoval, Removals
  <2> QED BY <1>1, <1>21, <2>1 DEF Phone!StartRemoval, FlowTypes
<1>22. CASE Phone!RemovalReads
  <2>1. removal' = [removal EXCEPT !.step = "delete"] \/ removal' = Phone!Resting
    BY <1>22 DEF Phone!RemovalReads
  <2>2. removal' \in Removals
    BY <1>1, <1>2, <2>1 DEF Removals
  <2> QED BY <1>1, <1>22, <2>2 DEF Phone!RemovalReads, FlowTypes
<1>23. CASE Phone!DeleteCredential
  <2>1. /\ \/ removal' \in {[removal EXCEPT !.step = "status"], Phone!Resting} /\ holder' = holder
           \/ /\ removal' = removal
              /\ holder' = [op |-> "delete", for |-> "removal", then |-> "none",
                            rev |-> removal.rev, mutation |-> removal.mutation]
        /\ UNCHANGED <<sheet, save, target, said, minted>>
    BY <1>23 DEF Phone!DeleteCredential, Phone!Take
  <2>2. [removal EXCEPT !.step = "status"] \in Removals
    BY <1>1 DEF Removals
  <2>3. removal' \in Removals /\ holder' \in Holders
    BY <1>1, <1>2, <1>4, <1>5, <2>1, <2>2
  <2> QED BY <1>1, <2>1, <2>3 DEF FlowTypes
<1>24. CASE Phone!RemovalReadsBack
  <2>1. removal.mutation \in 1..MaxMutations
    BY <1>24 DEF Phone!RemovalReadsBack, Flowing, PageFlows
  <2>2. said' \subseteq 1..MaxMutations /\ target' \in Wanted
    BY <1>1, <1>2, <1>24, <2>1 DEF Phone!RemovalReadsBack
  <2> QED BY <1>1, <1>2, <1>24, <2>2 DEF Phone!RemovalReadsBack, FlowTypes
<1>25. ASSUME NEW mode, Phone!SelectRoom(mode) PROVE FlowTypes'
  BY <1>1, <1>25 DEF Phone!SelectRoom, FlowTypes
<1>26. CASE Phone!Launch \/ Phone!OpenDatabase \/ Phone!CloseDatabase
  BY <1>1, <1>26 DEF Phone!Launch, Phone!OpenDatabase, Phone!CloseDatabase, FlowTypes
<1>27. CASE Phone!Reload
  <2>1. holder' = [holder EXCEPT !.for = IF holder.for = "sheet" THEN holder.for ELSE "none"]
    BY <1>27 DEF Phone!Reload
  <2>2. holder' \in Holders
    BY <1>1, <2>1 DEF Holders
  <2> QED BY <1>1, <1>2, <1>27, <2>2 DEF Phone!Reload, FlowTypes
<1>28. CASE Phone!Kill \/ Phone!Reinstall
  BY <1>1, <1>2, <1>28 DEF Phone!Kill, Phone!Reinstall, Phone!Dead, FlowTypes
<1>29. ASSUME NEW r, NEW found, Phone!Disturb(r, found) PROVE FlowTypes'
  BY <1>1, <1>29 DEF Phone!Disturb, FlowTypes
<1> QED
  BY <1>7, <1>8, <1>9, <1>10, <1>11, <1>12, <1>13, <1>14, <1>15, <1>16, <1>17, <1>18, <1>19,
     <1>20, <1>21, <1>22, <1>23, <1>24, <1>25, <1>26, <1>27, <1>28, <1>29 DEF Phone!Next

\* Every step keeps every type.
LEMMA TypesStep ==
    ASSUME Phone!BoundsAssumption, PhoneTypes, Flowing, Stores, Phone!Next
    PROVE  PhoneTypes'
BY WorkType, StoresType, AppType, FlowType
DEF PhoneTypes, AppTypes, FlowTypes, Holders, Sheets, Saves, Removals, Wanted

-----------------------------------------------------------------------------
(* Flows and lock *)

\* The page knows what it asks for.
LEMMA PageFlowsStep ==
    ASSUME Phone!BoundsAssumption, PhoneTypes, PageFlows, LockFlows, Phone!Next
    PROVE  PageFlows'
<1>1. /\ save.step \in {"reserve", "consent", "sheet", "asked"} =>
            save.rev \in Phone!Revisions /\ save.mutation \in 1..MaxMutations
      /\ target # Phone!NoTarget => target.mutation \in 1..MaxMutations
      /\ removal.step # "idle" => removal.mutation \in 1..MaxMutations
      /\ sheet # Phone!NoSheet => save.step \in {"idle", "asked"}
      /\ Phone!Resting.step = "idle"
  BY DEF PageFlows, Phone!Resting
<1>2. /\ sheet \in Sheets /\ save \in Saves /\ removal \in Removals /\ target \in Wanted
      /\ MaxRevision \in Nat /\ MaxMutations \in Nat /\ Phone!Revisions = 1..MaxRevision
  BY PhoneBounds DEF PhoneTypes, Sheets, Saves, Removals, Wanted
<1>3. ASSUME UNCHANGED <<save, removal, target, sheet>> PROVE PageFlows'
  BY <1>1, <1>3 DEF PageFlows
<1>4. ASSUME NEW flow, Phone!Ends(flow), target' = target PROVE PageFlows'
  <2>1. /\ save' \in {save, Phone!Resting} /\ removal' \in {removal, Phone!Resting}
        /\ sheet' \in {sheet, Phone!NoSheet}
    BY <1>4, EndsTypes
  <2> QED BY <1>1, <1>4, <2>1 DEF PageFlows
<1> USE DEF Phone!durable, Phone!page, Phone!counters
<1>5. ASSUME NEW flow, Phone!Reconciles(flow) PROVE PageFlows'
  BY <1>3, <1>5 DEF Phone!Reconciles, Phone!Reconcile
<1>6. ASSUME NEW flow, Phone!Refuse(flow) PROVE PageFlows'
  BY <1>4, <1>6 DEF Phone!Refuse
<1>7. CASE Phone!Effect
  BY <1>3, <1>7 DEF Phone!Effect
<1>8. CASE Phone!EffectFails
  BY <1>4, <1>8 DEF Phone!EffectFails
<1>9. CASE Phone!Finish
  <2>1. CASE holder.op = "reconcile"
    BY <1>3, <1>9, <2>1 DEF Phone!Finish
  <2>2. CASE holder.op = "prepare" /\ holder.then = "present" /\ sheet = Phone!NoSheet
    <3>1. /\ save' = IF holder.for = "save" THEN [save EXCEPT !.step = "asked"] ELSE save
          /\ UNCHANGED <<removal, target>>
      BY <1>9, <2>2 DEF Phone!Finish
    <3>2. \/ holder.for = "save" /\ save.step = "sheet"
          \/ holder.for = "none" /\ save = Phone!Resting
      <4>1. booted \in BOOLEAN /\ reconciled \in BOOLEAN
        BY DEF PhoneTypes
      <4> QED BY <2>2, <4>1 DEF LockFlows
    <3>3. CASE holder.for = "save" /\ save.step = "sheet"
      <4>1. save'.step = "asked" /\ save'.rev = save.rev /\ save'.mutation = save.mutation
        BY <1>2, <3>1, <3>3 DEF Saves
      <4> QED BY <1>1, <3>1, <3>3, <4>1 DEF PageFlows
    <3>4. CASE holder.for = "none" /\ save = Phone!Resting
      BY <1>1, <3>1, <3>4 DEF PageFlows
    <3> QED BY <3>2, <3>3, <3>4
  <2>3. CASE holder.op = "delete"
    <3>1. /\ removal' = IF holder.for = "removal" THEN [removal EXCEPT !.step = "status"] ELSE removal
          /\ UNCHANGED <<save, sheet, target>>
      BY <1>9, <2>3 DEF Phone!Finish
    <3>2. removal' = removal \/ (removal.step = "delete" /\ removal'.mutation = removal.mutation)
      <4>1. booted \in BOOLEAN /\ reconciled \in BOOLEAN
        BY DEF PhoneTypes
      <4>2. (holder.for = "removal" /\ removal.step = "delete") \/ holder.for = "none"
        BY <2>3, <4>1 DEF LockFlows
      <4> QED BY <1>2, <3>1, <4>2 DEF Removals
    <3> QED BY <1>1, <3>1, <3>2 DEF PageFlows
  <2>4. CASE /\ holder.op \notin {"reconcile", "delete"}
             /\ ~(holder.op = "prepare" /\ holder.then = "present" /\ sheet = Phone!NoSheet)
    <3>1. Phone!Ends(holder.for) /\ target' \in {Phone!Removable, target}
      BY <1>9, <2>4 DEF Phone!Finish
    <3>2. /\ save' \in {save, Phone!Resting} /\ removal' \in {removal, Phone!Resting}
          /\ sheet' \in {sheet, Phone!NoSheet}
      BY <3>1, EndsTypes
    <3> QED BY <1>1, <3>1, <3>2, RemovableFacts DEF PageFlows
  <2> QED BY <2>1, <2>2, <2>3, <2>4
<1>10. CASE Phone!StartSave
  <2>1. save'.step = "read" /\ sheet = Phone!NoSheet /\ UNCHANGED <<sheet, removal, target>>
    BY <1>10 DEF Phone!StartSave, Phone!Resting
  <2> QED BY <1>1, <2>1 DEF PageFlows
<1>11. CASE Phone!SaveReads
  <2>1. UNCHANGED <<sheet, removal, target>> /\ save.step = "read" /\ sheet = Phone!NoSheet
    BY <1>1, <1>11 DEF Phone!SaveReads
  <2>2. CASE Phone!NeedsRevision
    <3>1. /\ Len(rows) < MaxRevision /\ minted < MaxMutations
          /\ save' = [step |-> "reserve", rev |-> Len(rows) + 1, mutation |-> minted + 1, ask |-> TRUE]
      BY <1>11, <2>2 DEF Phone!SaveReads
    <3>2. Len(rows) + 1 \in Phone!Revisions /\ minted + 1 \in 1..MaxMutations
      <4>1. Len(rows) \in Nat /\ minted \in Nat
        BY RowFacts DEF Latest, PhoneTypes
      <4> QED BY <1>2, <3>1, <4>1
    <3> QED BY <1>1, <2>1, <3>1, <3>2 DEF PageFlows
  <2>3. CASE ~Phone!NeedsRevision
    <3>1. /\ rows # <<>>
          /\ save' = [step |-> "consent", rev |-> Len(rows), mutation |-> rows[Len(rows)].mutation,
                      ask |-> rows[Len(rows)].state = "credential_pending"]
      BY <1>11, <2>3 DEF Phone!SaveReads, Phone!NeedsRevision
    <3>2. Latest \in 1..Latest
      BY <3>1, RowFacts
    <3>3. rows[Len(rows)].mutation \in 1..MaxMutations /\ Len(rows) \in Phone!Revisions
      BY <3>2, RowFacts DEF Latest
    <3> QED BY <1>1, <2>1, <3>1, <3>3 DEF PageFlows
  <2> QED BY <2>2, <2>3
<1>12. CASE Phone!SaveReserves
  <2>1. /\ UNCHANGED <<sheet, removal, target>> /\ save.step = "reserve"
        /\ save' = [save EXCEPT !.step = "consent"] \/ save' = Phone!Resting
    BY <1>12 DEF Phone!SaveReserves
  <2>2. save'.step = "idle" \/ (save'.step = "consent" /\ save'.rev = save.rev /\ save'.mutation = save.mutation)
    BY <1>1, <1>2, <2>1 DEF Saves
  <2> QED BY <1>1, <2>1, <2>2 DEF PageFlows
<1>13. CASE Phone!SaveConsents
  <2>1. /\ UNCHANGED <<sheet, removal>> /\ save.step = "consent"
        /\ save' = [save EXCEPT !.step = "sheet"] \/ save' = Phone!Resting
        /\ target' = [rev |-> save.rev, mutation |-> save.mutation] \/ target' = target
    BY <1>13 DEF Phone!SaveConsents
  <2>2. save'.step = "idle" \/ (save'.step = "sheet" /\ save'.rev = save.rev /\ save'.mutation = save.mutation)
    BY <1>1, <1>2, <2>1 DEF Saves
  <2>3. target' # Phone!NoTarget => target'.mutation \in 1..MaxMutations
    BY <1>1, <2>1
  <2> QED BY <1>1, <2>1, <2>2, <2>3 DEF PageFlows
<1>14. CASE Phone!PrepareSave
  <2>1. UNCHANGED <<sheet, removal, target>> /\ (save' = save \/ save' = Phone!Resting)
    BY <1>14 DEF Phone!PrepareSave
  <2> QED BY <1>1, <2>1 DEF PageFlows
<1>15. CASE Phone!TapSave
  <2>1. UNCHANGED <<save, removal, target>> /\ sheet # Phone!NoSheet
    BY <1>15 DEF Phone!TapSave
  <2> QED BY <1>1, <2>1 DEF PageFlows
<1>16. CASE Phone!CancelSave
  BY <1>4, <1>16 DEF Phone!CancelSave
<1>17. CASE Phone!CompleteSave
  <2>1. target' = target /\ (UNCHANGED <<sheet, save, removal>> \/ Phone!Ends("sheet"))
    BY <1>17 DEF Phone!CompleteSave
  <2> QED BY <1>3, <1>4, <2>1
<1>18. CASE Phone!OpenSetup
  <2>1. UNCHANGED <<save, removal, sheet>> /\ target' = Phone!Removable
    BY <1>18 DEF Phone!OpenSetup
  <2> QED BY <1>1, <2>1, RemovableFacts DEF PageFlows
<1>19. CASE Phone!StartRemoval
  <2>1. UNCHANGED <<save, target, sheet>> /\ removal'.mutation = target.mutation /\ target # Phone!NoTarget
    BY <1>19 DEF Phone!StartRemoval
  <2> QED BY <1>1, <2>1 DEF PageFlows
<1>20. CASE Phone!RemovalReads
  <2>1. /\ UNCHANGED <<save, target, sheet>> /\ removal.step = "read"
        /\ removal' = [removal EXCEPT !.step = "delete"] \/ removal' = Phone!Resting
    BY <1>20 DEF Phone!RemovalReads
  <2>2. removal'.step = "idle" \/ removal'.mutation = removal.mutation
    BY <1>1, <1>2, <2>1 DEF Removals
  <2> QED BY <1>1, <2>1, <2>2 DEF PageFlows
<1>21. CASE Phone!DeleteCredential
  <2>1. /\ UNCHANGED <<save, target, sheet>> /\ removal.step = "delete"
        /\ removal' \in {[removal EXCEPT !.step = "status"], Phone!Resting, removal}
    BY <1>21 DEF Phone!DeleteCredential
  <2>2. removal'.step = "idle" \/ removal'.mutation = removal.mutation
    BY <1>1, <1>2, <2>1 DEF Removals
  <2> QED BY <1>1, <2>1, <2>2 DEF PageFlows
<1>22. CASE Phone!RemovalReadsBack
  <2>1. UNCHANGED <<save, sheet>> /\ target' \in {target, Phone!NoTarget} /\ removal' = Phone!Resting
    BY <1>22 DEF Phone!RemovalReadsBack
  <2> QED BY <1>1, <2>1 DEF PageFlows
<1>23. ASSUME NEW mode, Phone!SelectRoom(mode) PROVE PageFlows'
  BY <1>3, <1>23 DEF Phone!SelectRoom
<1>24. CASE Phone!Launch \/ Phone!OpenDatabase \/ Phone!CloseDatabase
  BY <1>3, <1>24 DEF Phone!Launch, Phone!OpenDatabase, Phone!CloseDatabase
<1>25. CASE Phone!Reload \/ Phone!Kill \/ Phone!Reinstall
  <2>1. save' = Phone!Resting /\ removal' = Phone!Resting /\ target' = Phone!NoTarget
    BY <1>25 DEF Phone!Reload, Phone!Kill, Phone!Reinstall, Phone!Dead
  <2> QED BY <1>1, <2>1 DEF PageFlows
<1>26. ASSUME NEW r, NEW found, Phone!Disturb(r, found) PROVE PageFlows'
  BY <1>3, <1>26 DEF Phone!Disturb
<1> QED
  BY <1>5, <1>6, <1>7, <1>8, <1>9, <1>10, <1>11, <1>12, <1>13, <1>14, <1>15, <1>16, <1>17, <1>18,
     <1>19, <1>20, <1>21, <1>22, <1>23, <1>24, <1>25, <1>26 DEF Phone!Next

\* Whoever holds the lock is served, and waited for.
LEMMA LockFlowsStep ==
    ASSUME Phone!BoundsAssumption, PhoneTypes, PageFlows, LockFlows, Phone!Next
    PROVE  LockFlows'
<1>1. booted \in BOOLEAN /\ reconciled \in BOOLEAN /\ booted' \in BOOLEAN /\ reconciled' \in BOOLEAN
  BY AppType DEF PhoneTypes, AppTypes
<1>2. /\ holder.op = "prepare" =>
            /\ sheet = Phone!NoSheet
            /\ \/ holder.for = "save" /\ save.step = "sheet"
               \/ holder.for = "none" /\ save = Phone!Resting /\ ~booted
      /\ holder.op = "delete" =>
            \/ holder.for = "removal" /\ removal.step = "delete"
            \/ holder.for = "none"
      /\ Phone!Locked <=> holder.op # "none"
      /\ Phone!Locked => process = "open" /\ (reconciled <=> holder.op # "reconcile")
      /\ reconciled => process = "open"
      /\ ~Phone!Locked => work = <<>> /\ holder = Phone!Nobody
      /\ Phone!Nobody.op = "none" /\ Phone!Resting.step = "idle"
  BY <1>1 DEF LockFlows, Phone!Locked, Phone!Nobody, Phone!Resting
<1>3. ASSUME holder' = Phone!Nobody, work' = <<>>, reconciled' => process' = "open"
      PROVE  LockFlows'
  BY <1>2, <1>3 DEF LockFlows, Phone!Locked
<1>4. ASSUME ~Phone!Locked, holder' = holder, work' = work, reconciled' => process' = "open"
      PROVE  LockFlows'
  BY <1>2, <1>3, <1>4
<1>5. ASSUME ~Phone!Locked, process = "open", process' = process, reconciled' = reconciled,
             NEW task \in {"reconcile", "complete"}, holder'.op = task, reconciled <=> task # "reconcile"
      PROVE  LockFlows'
  <2>1. Phone!Locked'
    BY <1>2, <1>5 DEF Phone!Locked
  <2> QED BY <1>1, <1>5, <2>1 DEF LockFlows
<1>6. ASSUME Phone!Locked, holder'.op = holder.op, UNCHANGED <<process, reconciled>>,
             holder.op = "prepare" =>
                /\ sheet' = Phone!NoSheet
                /\ \/ holder'.for = "save" /\ save'.step = "sheet"
                   \/ holder'.for = "none" /\ save' = Phone!Resting /\ ~booted',
             holder.op = "delete" =>
                \/ holder'.for = "removal" /\ removal'.step = "delete"
                \/ holder'.for = "none"
      PROVE  LockFlows'
  <2>1. Phone!Locked'
    BY <1>2, <1>6 DEF Phone!Locked
  <2> QED BY <1>1, <1>2, <1>6, <2>1 DEF LockFlows
<1> USE DEF Phone!durable, Phone!page, Phone!counters
<1>7. ASSUME NEW flow, Phone!Reconciles(flow) PROVE LockFlows'
  <2>1. /\ ~Phone!Locked /\ process = "open" /\ ~reconciled /\ UNCHANGED <<process, reconciled>>
        /\ holder'.op = "reconcile"
    BY <1>7 DEF Phone!Reconciles, Phone!Reconcile, Phone!Take
  <2> QED BY <1>5, <2>1
<1>8. ASSUME NEW flow, Phone!Refuse(flow) PROVE LockFlows'
  BY <1>2, <1>4, <1>8 DEF Phone!Refuse, Phone!Refuses
<1>9. CASE Phone!Effect
  <2>1. Phone!Locked /\ UNCHANGED <<holder, process, reconciled, booted, sheet, save, removal>>
    BY <1>9 DEF Phone!Effect
  <2> QED BY <1>2, <1>6, <2>1
<1>10. CASE Phone!EffectFails
  BY <1>2, <1>3, <1>10 DEF Phone!EffectFails
<1>11. CASE Phone!Finish
  <2>1. /\ Phone!Locked /\ work = <<>> /\ work' = work /\ holder' = Phone!Nobody /\ process' = process
    BY <1>11 DEF Phone!Finish
  <2> QED BY <1>2, <1>3, <2>1
<1>12. CASE Phone!StartSave
  <2>1. booted /\ save = Phone!Resting /\ UNCHANGED <<holder, process, reconciled, booted, sheet, removal, work>>
    BY <1>12 DEF Phone!StartSave
  <2>2. holder.op # "prepare"
    BY <1>1, <1>2, <2>1
  <2> QED BY <1>2, <1>4, <1>6, <2>1, <2>2
<1>13. CASE Phone!SaveReads \/ Phone!SaveReserves \/ Phone!SaveConsents \/ Phone!OpenSetup
         \/ Phone!RemovalReads \/ Phone!RemovalReadsBack
  <2>1. Phone!Serves /\ UNCHANGED <<holder, process, reconciled, work>>
    BY <1>13 DEF Phone!SaveReads, Phone!SaveReserves, Phone!SaveConsents, Phone!OpenSetup,
                 Phone!RemovalReads, Phone!RemovalReadsBack
  <2> QED BY <1>2, <1>4, <2>1 DEF Phone!Serves
<1>14. CASE Phone!PrepareSave
  <2>1. Phone!Serves /\ save.step = "sheet" /\ UNCHANGED <<process, reconciled, booted, sheet>>
    BY <1>14 DEF Phone!PrepareSave
  <2>2. CASE Phone!Exact(save.rev, save.mutation) /\ Phone!Writable(save.rev)
    <3>1. holder'.op = "prepare" /\ holder'.for = "save" /\ save' = save
      BY <1>14, <2>2 DEF Phone!PrepareSave, Phone!Take
    <3>2. sheet = Phone!NoSheet
      BY <2>1 DEF PageFlows
    <3>3. process = "open" /\ reconciled /\ Phone!Locked'
      BY <1>2, <2>1, <3>1 DEF Phone!Serves, Phone!Locked
    <3> QED BY <1>1, <2>1, <3>1, <3>2, <3>3 DEF LockFlows
  <2>3. CASE ~(Phone!Exact(save.rev, save.mutation) /\ Phone!Writable(save.rev))
    <3>1. UNCHANGED <<holder, work>>
      BY <1>14, <2>3 DEF Phone!PrepareSave
    <3> QED BY <1>2, <1>4, <2>1, <3>1 DEF Phone!Serves
  <2> QED BY <2>2, <2>3
<1>15. CASE Phone!TapSave
  <2>1. sheet # Phone!NoSheet /\ UNCHANGED <<holder, process, reconciled, booted, save, removal, work>>
    BY <1>15 DEF Phone!TapSave
  <2>2. holder.op # "prepare"
    BY <1>2, <2>1
  <2> QED BY <1>2, <1>4, <1>6, <2>1, <2>2
<1>16. CASE Phone!CancelSave
  <2>1. /\ sheet # Phone!NoSheet /\ UNCHANGED <<holder, process, reconciled, booted, work>>
        /\ removal' = removal
    BY <1>16 DEF Phone!CancelSave, Phone!Ends
  <2>2. holder.op # "prepare"
    BY <1>2, <2>1
  <2> QED BY <1>2, <1>4, <1>6, <2>1, <2>2
<1>17. CASE Phone!CompleteSave
  <2>1. Phone!Serves /\ UNCHANGED <<process, reconciled>>
    BY <1>17 DEF Phone!CompleteSave
  <2>2. holder'.op = "complete" \/ UNCHANGED <<holder, work>>
    BY <1>17 DEF Phone!CompleteSave, Phone!Take
  <2> QED BY <1>2, <1>4, <1>5, <2>1, <2>2 DEF Phone!Serves
<1>18. CASE Phone!StartRemoval
  <2>1. removal = Phone!Resting /\ UNCHANGED <<holder, process, reconciled, booted, sheet, save, work>>
    BY <1>18 DEF Phone!StartRemoval
  <2>2. holder.op = "delete" => holder.for = "none"
    BY <1>2, <2>1
  <2> QED BY <1>2, <1>4, <1>6, <2>1, <2>2
<1>19. CASE Phone!DeleteCredential
  <2>1. Phone!Serves /\ removal.step = "delete" /\ UNCHANGED <<process, reconciled, booted, sheet>>
    BY <1>19 DEF Phone!DeleteCredential
  <2>2. \/ UNCHANGED <<holder, work>>
        \/ holder'.op = "delete" /\ holder'.for = "removal" /\ removal' = removal
    BY <1>19 DEF Phone!DeleteCredential, Phone!Take
  <2>3. CASE holder'.op = "delete" /\ holder'.for = "removal" /\ removal' = removal
    <3>1. process = "open" /\ reconciled /\ Phone!Locked'
      BY <1>2, <2>1, <2>3 DEF Phone!Serves, Phone!Locked
    <3> QED BY <1>1, <2>1, <2>3, <3>1 DEF LockFlows
  <2> QED BY <1>2, <1>4, <2>1, <2>2, <2>3 DEF Phone!Serves
<1>20. ASSUME NEW mode, Phone!SelectRoom(mode) PROVE LockFlows'
  BY <1>2, <1>4, <1>20 DEF Phone!SelectRoom
<1>21. CASE Phone!Launch
  <2>1. process = "off" /\ UNCHANGED <<reconciled, holder, work>>
    BY <1>21 DEF Phone!Launch
  <2> QED BY <1>2, <1>4, <2>1
<1>22. CASE Phone!OpenDatabase \/ Phone!CloseDatabase
  <2>1. ~Phone!Locked /\ reconciled' = FALSE /\ UNCHANGED <<holder, work>>
    BY <1>22 DEF Phone!OpenDatabase, Phone!CloseDatabase
  <2> QED BY <1>4, <2>1
<1>23. CASE Phone!Reload
  <2>1. /\ booted' = FALSE /\ save' = Phone!Resting /\ UNCHANGED <<process, reconciled, work, sheet>>
        /\ holder' = [holder EXCEPT !.for = IF holder.for = "sheet" THEN holder.for ELSE "none"]
    BY <1>23 DEF Phone!Reload
  <2>2. holder \in Holders
    BY DEF PhoneTypes, Holders
  <2>3. CASE Phone!Locked
    <3>1. /\ holder'.op = holder.op
          /\ holder'.for = IF holder.for = "sheet" THEN "sheet" ELSE "none"
      BY <2>1, <2>2 DEF Holders
    <3>2. holder.op \in {"prepare", "delete"} => holder'.for = "none"
      BY <1>2, <3>1
    <3> QED BY <1>1, <1>2, <1>6, <2>1, <2>3, <3>1, <3>2
  <2>4. CASE ~Phone!Locked
    <3>1. holder = Phone!Nobody /\ Phone!Nobody.for = "none"
      BY <1>2, <2>4 DEF Phone!Nobody
    <3>2. holder' = Phone!Nobody
      BY <2>1, <3>1 DEF Phone!Nobody
    <3> QED BY <1>2, <1>3, <2>1, <2>4, <3>2
  <2> QED BY <2>3, <2>4
<1>24. CASE Phone!Kill \/ Phone!Reinstall
  BY <1>3, <1>24 DEF Phone!Kill, Phone!Reinstall, Phone!Dead
<1>25. ASSUME NEW r, NEW found, Phone!Disturb(r, found) PROVE LockFlows'
  <2>1. process = "off" /\ UNCHANGED <<process, reconciled, holder, work>>
    BY <1>25 DEF Phone!Disturb
  <2> QED BY <1>2, <1>4, <2>1
<1> QED
  BY <1>7, <1>8, <1>9, <1>10, <1>11, <1>12, <1>13, <1>14, <1>15, <1>16, <1>17, <1>18, <1>19,
     <1>20, <1>21, <1>22, <1>23, <1>24, <1>25 DEF Phone!Next

-----------------------------------------------------------------------------
(* Rows and items *)

\* The stores still agree when nothing of what they are compared with changed.
LEMMA QuietStores ==
    ASSUME Phone!BoundsAssumption, PhoneTypes, Stores, reconciled' \in BOOLEAN,
           UNCHANGED <<rows, item, work>>, holder'.op = holder.op, holder'.then = holder.then,
           reconciled' => reconciled, sheet' # Phone!NoSheet => sheet # Phone!NoSheet
    PROVE  Stores'
<1>1. reconciled \in BOOLEAN /\ Latest' = Latest
  BY DEF PhoneTypes, Latest
<1>2. Works(work, holder.op, holder.then, Latest, item, reconciled)
  BY DEF Stores
<1>3. Works(work, holder.op, holder.then, Latest, item, reconciled)'
  BY <1>1, <1>2 DEF Works, Shape, Does
<1> QED BY <1>1, <1>3 DEF Stores, OneItem

\* An operation that is over, or was cut off, leaves stores that agree: what it
\* did not do is what they can do without.
LEMMA DoneStores ==
    ASSUME Phone!BoundsAssumption, PhoneTypes, Flowing, Stores, reconciled' \in BOOLEAN,
           UNCHANGED <<rows, item>>, work' = <<>>, holder' = Phone!Nobody,
           reconciled' => reconciled \/ (holder.op = "reconcile" /\ work = <<>>),
           reconciled' /\ sheet' # Phone!NoSheet => OneItem(item, Latest)
    PROVE  Stores'
<1> DEFINE n == Latest
<1>1. /\ reconciled \in BOOLEAN /\ n' = n /\ Phone!Nobody.op = "none" /\ Phone!Nobody.then = "none"
      /\ n \in Nat /\ (n \in Phone!Revisions \/ n = 0)
      /\ n # 0 => rows[n].tombstoned \in BOOLEAN
  BY RowFacts DEF PhoneTypes, Latest, Phone!Nobody
<1>2. reconciled => holder.op # "reconcile"
  <2>1. Phone!Nobody.op # "reconcile"
    BY <1>1
  <2> QED BY <1>1, <2>1 DEF Flowing, LockFlows, Phone!Locked
<1>3. Works(work, holder.op, holder.then, n, item, reconciled)
  BY DEF Stores
<1>4. /\ n # 0 /\ rows[n].state = "ready" /\ reconciled' => item[n] = rows[n].mutation
      /\ reconciled' /\ ~reconciled => OneItem(item, n)
  <2>1. CASE reconciled
    BY <1>1, <1>2, <1>3, <2>1 DEF Works
  <2>2. CASE ~reconciled /\ reconciled'
    <3>1. holder.op = "reconcile" /\ work = <<>>
      BY <2>2
    <3> QED BY <1>1, <1>3, <2>2, <3>1, NoWork DEF Works, OneItem
  <2> QED BY <1>1, <2>1, <2>2
<1>5. Shape(<<>>, n)
  BY <1>1, ShortShapes
<1> HIDE DEF n
<1>6. Works(<<>>, "none", "none", n, item, reconciled')
  BY <1>1, <1>4, <1>5, NoWork DEF Works
<1>7. Works(work, holder.op, holder.then, Latest, item, reconciled)'
  BY <1>1, <1>6 DEF Works, Shape, Does, n
<1>8. /\ reconciled' => \A r \in Phone!Revisions : r > n => item[r] = 0
      /\ reconciled' /\ n # 0 /\ rows[n].state = "ready" => OneItem(item, n)
  <2>1. CASE reconciled
    BY <1>1, <2>1 DEF Stores, n
  <2>2. CASE ~reconciled /\ reconciled'
    <3>1. OneItem(item, n) /\ \A r \in Phone!Revisions : r > n => r # n
      BY <1>1, <1>4, <2>2, PhoneBounds
    <3> QED BY <3>1 DEF OneItem
  <2> QED BY <1>1, <2>1, <2>2
<1>9. \A r \in 1..n : rows[r].tombstoned =>
          \/ rows[r].state = "delete_pending"
          \/ rows[r].state = "missing" /\ item[r] # rows[r].mutation
  BY DEF Stores, n
<1>10. n' = Latest' /\ n = Latest
  BY DEF n
<1> QED BY <1>1, <1>7, <1>8, <1>9, <1>10 DEF Stores, OneItem

\* Each effect keeps what the rest of the operation and the stores rely on.
LEMMA EffectStores ==
    ASSUME Phone!BoundsAssumption, PhoneTypes, Flowing, Stores, Phone!Effect
    PROVE  Stores'
<1> DEFINE n == Latest
           e == Head(work)
           t == Tail(work)
           F == Phone!Forget(n)
           B == Phone!Bury(n)
           S == Phone!Store(n)
           R == Phone!MarkReady(n)
           M == Phone!MarkMissing(n)
<1> USE DEF Phone!durable, Phone!page, Phone!counters
<1>1. /\ work \in Seq(AnEffect) /\ work # <<>> /\ work' = t /\ UNCHANGED <<holder, sheet, reconciled>>
      /\ reconciled \in BOOLEAN /\ Phone!Locked
      /\ rows' = CASE e.kind = "mark" -> [rows EXCEPT ![e.rev].state = e.to]
                   [] e.kind = "bury" -> [rows EXCEPT ![e.rev].state = e.to, ![e.rev].tombstoned = TRUE]
                   [] OTHER -> rows
      /\ item' = CASE e.kind = "forget" -> [item EXCEPT ![e.rev] = 0]
                   [] e.kind = "store" -> [item EXCEPT ![e.rev] = rows[e.rev].mutation]
                   [] OTHER -> item
  BY DEF PhoneTypes, Phone!Effect
<1>2. Works(work, holder.op, holder.then, n, item, reconciled) /\ Shape(work, n)
  BY DEF Stores, Works
<1>3. /\ \A x : Does(work, x) <=> x = e \/ Does(t, x)
      /\ Shape(t, n) /\ ~Does(t, S) /\ ~Does(t, B)
      /\ \/ \E r \in Phone!Revisions : e = Phone!Forget(r)
         \/ n # 0 /\ e \in {S, B}
         \/ n # 0 /\ e \in {R, M} /\ t = <<>>
  BY <1>1, <1>2, WorkHead
<1>4. ~(Does(work, R) /\ Does(work, M))
  <2>1. ASSUME Does(work, R), Does(work, M) PROVE FALSE
    <3>1. PICK i \in 1..Len(work) : work[i] = R
      BY <2>1 DEF Does
    <3>2. PICK j \in 1..Len(work) : work[j] = M
      BY <2>1 DEF Does
    <3>3. i = Len(work)
      BY <1>2, <3>1, EffectsDiffer DEF Shape
    <3>4. j = Len(work)
      BY <1>2, <3>2, EffectsDiffer DEF Shape
    <3> QED BY <3>1, <3>2, <3>3, <3>4, EffectsDiffer
  <2> QED BY <2>1
<1>5. /\ n \in Nat /\ rows \in Seq(Rows) /\ item \in [Phone!Revisions -> 0..Phone!Foreign]
      /\ n # 0 => /\ n \in 1..n /\ n \in Phone!Revisions /\ rows[n] \in Rows
                  /\ rows[n].mutation \in 1..MaxMutations
      /\ \A r \in 1..n : r \in Phone!Revisions /\ rows[r].mutation \in 1..MaxMutations
      /\ 0 \notin 1..MaxMutations
  <2>1. n \in Nat /\ rows \in Seq(Rows) /\ item \in [Phone!Revisions -> 0..Phone!Foreign]
    BY RowFacts DEF PhoneTypes
  <2>2. n # 0 => n \in 1..n
    BY <2>1
  <2>3. \A r \in 1..n : r \in Phone!Revisions /\ rows[r] \in Rows /\ rows[r].mutation \in 1..MaxMutations
    BY RowFacts
  <2>4. 0 \notin 1..MaxMutations
    BY PhoneBounds
  <2> QED BY <2>1, <2>2, <2>3, <2>4
<1>6. /\ Does(work, B) => holder.op = "delete" /\ ~rows[n].tombstoned
      /\ Does(work, R) =>
            /\ holder.op \in {"reconcile", "prepare", "complete"}
            /\ rows[n].state = "credential_pending" /\ ~rows[n].tombstoned /\ ~Does(work, F)
            /\ item[n] = rows[n].mutation \/ Does(work, S)
      /\ Does(work, S) => Does(work, R)
      /\ Does(work, M) => item[n] = 0 \/ Does(work, F)
      /\ n # 0 /\ rows[n].state = "ready" /\ holder.op = "reconcile" =>
            Does(work, M) \/ (item[n] = rows[n].mutation /\ ~Does(work, F))
      /\ n # 0 /\ rows[n].state = "ready" /\ holder.op # "reconcile" /\ reconciled =>
            item[n] = rows[n].mutation /\ (Does(work, F) => Does(work, B))
      /\ holder.op \in {"reconcile", "prepare", "complete"} =>
            \A r \in Phone!Revisions : item[r] # 0 /\ r # n => Does(work, Phone!Forget(r))
      /\ holder.op = "prepare" /\ holder.then = "present" => item[n] = 0 /\ ~Does(work, R) /\ n # 0
  BY <1>2 DEF Works, Shape
<1>7. /\ reconciled => \A r \in Phone!Revisions : r > n => item[r] = 0
      /\ reconciled /\ sheet # Phone!NoSheet => \A r \in Phone!Revisions : item[r] # 0 => r = n
      /\ reconciled /\ n # 0 /\ rows[n].state = "ready" => \A r \in Phone!Revisions : item[r] # 0 => r = n
      /\ \A r \in 1..n : rows[r].tombstoned =>
            \/ rows[r].state = "delete_pending"
            \/ rows[r].state = "missing" /\ item[r] # rows[r].mutation
  BY DEF Stores, OneItem
<1>8. reconciled => holder.op # "reconcile"
  BY <1>1 DEF Flowing, LockFlows
<1>9. /\ F.kind = "forget" /\ B.kind = "bury" /\ S.kind = "store" /\ R.kind = "mark" /\ M.kind = "mark"
      /\ R # M /\ B.rev = n /\ S.rev = n /\ R.rev = n /\ M.rev = n
      /\ B.to = "delete_pending" /\ R.to = "ready" /\ M.to = "missing"
      /\ \A r : Phone!Forget(r).kind = "forget" /\ Phone!Forget(r).rev = r
  BY EffectsDiffer
\* What is to be shown of the stores after the effect.
<1>10. ASSUME NEW rs, NEW its, rows' = rs, item' = its, Len(rs) = n,
              Does(t, R) =>
                /\ holder.op \in {"reconcile", "prepare", "complete"}
                /\ rs[n].state = "credential_pending" /\ ~rs[n].tombstoned /\ ~Does(t, F)
                /\ its[n] = rs[n].mutation,
              Does(t, M) => its[n] = 0 \/ Does(t, F),
              n # 0 /\ rs[n].state = "ready" /\ holder.op = "reconcile" =>
                Does(t, M) \/ (its[n] = rs[n].mutation /\ ~Does(t, F)),
              n # 0 /\ rs[n].state = "ready" /\ holder.op # "reconcile" /\ reconciled =>
                its[n] = rs[n].mutation /\ ~Does(t, F),
              holder.op \in {"reconcile", "prepare", "complete"} =>
                \A r \in Phone!Revisions : its[r] # 0 /\ r # n => Does(t, Phone!Forget(r)),
              holder.op = "prepare" /\ holder.then = "present" => its[n] = 0 /\ ~Does(t, R) /\ n # 0,
              \A r \in Phone!Revisions : its[r] # 0 => r = n \/ item[r] # 0,
              n # 0 /\ reconciled /\ rs[n].state = "ready" =>
                \A r \in Phone!Revisions : its[r] # 0 => r = n,
              \A r \in 1..n : rs[r].tombstoned =>
                \/ rs[r].state = "delete_pending"
                \/ rs[r].state = "missing" /\ its[r] # rs[r].mutation
       PROVE  Stores'
  <2>1. Latest' = n
    BY <1>10 DEF Latest
  <2>2. Works(work, holder.op, holder.then, n, item, reconciled)'
    <3>1. Works(work, holder.op, holder.then, n, item, reconciled)'
            <=> /\ Shape(t, n)
                /\ Does(t, B) => holder.op = "delete" /\ ~rs[n].tombstoned
                /\ Does(t, R) =>
                     /\ holder.op \in {"reconcile", "prepare", "complete"}
                     /\ rs[n].state = "credential_pending" /\ ~rs[n].tombstoned /\ ~Does(t, F)
                     /\ its[n] = rs[n].mutation \/ Does(t, S)
                /\ Does(t, M) => its[n] = 0 \/ Does(t, F)
                /\ n # 0 /\ rs[n].state = "ready" =>
                     IF holder.op = "reconcile"
                     THEN Does(t, M) \/ (its[n] = rs[n].mutation /\ ~Does(t, F))
                     ELSE reconciled => its[n] = rs[n].mutation /\ (Does(t, F) => Does(t, B))
                /\ holder.op \in {"reconcile", "prepare", "complete"} =>
                     \A r \in Phone!Revisions : its[r] # 0 /\ r # n => Does(t, Phone!Forget(r))
                /\ holder.op = "prepare" /\ holder.then = "present" => its[n] = 0 /\ ~Does(t, R) /\ n # 0
      BY <1>1, <1>10, <2>1 DEF Works, Shape, Does
    <3> QED BY <1>1, <1>3, <1>10, <3>1
  <2>3. /\ reconciled => \A r \in Phone!Revisions : r > n => its[r] = 0
        /\ reconciled /\ sheet # Phone!NoSheet => \A r \in Phone!Revisions : its[r] # 0 => r = n
    BY <1>5, <1>7, <1>10, PhoneBounds
  <2>4. (reconciled => \A r \in Phone!Revisions : r > Latest => item[r] = 0)'
    BY <1>1, <1>10, <2>1, <2>3
  <2>5. (reconciled /\ sheet # Phone!NoSheet => OneItem(item, Latest))'
    BY <1>1, <1>10, <2>1, <2>3 DEF OneItem
  <2>6. (reconciled /\ Latest # 0 /\ rows[Latest].state = "ready" => OneItem(item, Latest))'
    BY <1>1, <1>10, <2>1 DEF OneItem
  <2>7. (\A r \in 1..Latest : rows[r].tombstoned =>
                \/ rows[r].state = "delete_pending"
                \/ rows[r].state = "missing" /\ item[r] # rows[r].mutation)'
    BY <1>10, <2>1
  <2> HIDE DEF n
  <2>8. Works(work, holder.op, holder.then, Latest, item, reconciled)'
    BY <2>2 DEF n
  <2> QED BY <2>4, <2>5, <2>6, <2>7, <2>8 DEF Stores
<1> HIDE DEF n, e, t, F, B, S, R, M
<1>11. CASE \E r \in Phone!Revisions : e = Phone!Forget(r)
  <2>1. PICK r \in Phone!Revisions : e = Phone!Forget(r)
    BY <1>11
  <2>2. rows' = rows /\ item' = [item EXCEPT ![r] = 0]
    BY <1>1, <1>9, <2>1
  <2>3. e \notin {B, S, R, M}
    BY <1>9, <2>1
  <2>4. /\ \A q \in Phone!Revisions : item'[q] = IF q = r THEN 0 ELSE item[q]
        /\ n # 0 => (item'[n] = IF n = r THEN 0 ELSE item[n])
    BY <1>5, <2>2
  <2>5. /\ Does(t, R) => Does(work, R) /\ ~Does(work, F) /\ ~Does(work, S)
        /\ Does(work, M) => Does(t, M)
        /\ Does(t, M) => Does(work, M)
        /\ Does(t, F) => Does(work, F)
        /\ Does(work, F) => r = n \/ Does(t, F)
        /\ r = n => Does(work, F)
        /\ ~Does(work, B)
    BY <1>3, <1>6, <1>9, <2>1, <2>3 DEF F
  <2> DEFINE its == item'
  <2>6a. n = 0 => ~Does(t, R) /\ ~Does(t, M)
    BY <1>3, <1>9 DEF Shape, Does
  <2>6. Len(rows) = n
    BY DEF n, Latest
  <2>7. Does(t, R) =>
          /\ holder.op \in {"reconcile", "prepare", "complete"}
          /\ rows[n].state = "credential_pending" /\ ~rows[n].tombstoned /\ ~Does(t, F)
          /\ its[n] = rows[n].mutation
    BY <1>3, <1>5, <1>6, <2>4, <2>5, <2>6a
  <2>8. Does(t, M) => its[n] = 0 \/ Does(t, F)
    BY <1>3, <1>5, <1>6, <2>4, <2>5, <2>6a
  <2>9. n # 0 /\ rows[n].state = "ready" /\ holder.op = "reconcile" =>
          Does(t, M) \/ (its[n] = rows[n].mutation /\ ~Does(t, F))
    BY <1>5, <1>6, <2>4, <2>5
  <2>10. n # 0 /\ rows[n].state = "ready" /\ holder.op # "reconcile" /\ reconciled =>
           its[n] = rows[n].mutation /\ ~Does(t, F)
    BY <1>5, <1>6, <2>4, <2>5
  <2>11. holder.op \in {"reconcile", "prepare", "complete"} =>
            \A q \in Phone!Revisions : its[q] # 0 /\ q # n => Does(t, Phone!Forget(q))
    <3>1. ASSUME holder.op \in {"reconcile", "prepare", "complete"},
                 NEW q \in Phone!Revisions, its[q] # 0, q # n
          PROVE  Does(t, Phone!Forget(q))
      <4>1. q # r /\ item[q] # 0
        BY <2>4, <3>1
      <4>2. Does(work, Phone!Forget(q)) /\ Phone!Forget(q) # e
        BY <1>6, <1>9, <2>1, <3>1, <4>1
      <4> QED BY <1>3, <4>2
    <3> QED BY <3>1
  <2>12. holder.op = "prepare" /\ holder.then = "present" => its[n] = 0 /\ ~Does(t, R) /\ n # 0
    BY <1>5, <1>6, <2>4, <2>5
  <2>13. /\ \A q \in Phone!Revisions : its[q] # 0 => q = n \/ item[q] # 0
         /\ n # 0 /\ reconciled /\ rows[n].state = "ready" =>
                \A q \in Phone!Revisions : its[q] # 0 => q = n
    BY <1>7, <2>4
  <2>14. \A q \in 1..n : rows[q].tombstoned =>
                \/ rows[q].state = "delete_pending"
                \/ rows[q].state = "missing" /\ its[q] # rows[q].mutation
    <3>1. \A q \in 1..n : its[q] = item[q] \/ its[q] # rows[q].mutation
      BY <1>5, <2>4
    <3> QED BY <1>7, <3>1
  <2> HIDE DEF its
  <2>15. rows' = rows /\ item' = its
    BY <2>2 DEF its
  <2> QED BY <1>10, <2>6, <2>7, <2>8, <2>9, <2>10, <2>11, <2>12, <2>13, <2>14, <2>15
<1>12. CASE n # 0 /\ e = S
  <2>1. rows' = rows /\ item' = [item EXCEPT ![n] = rows[n].mutation]
    BY <1>1, <1>9, <1>12
  <2>2. /\ \A q \in Phone!Revisions : item'[q] = IF q = n THEN rows[n].mutation ELSE item[q]
        /\ item'[n] = rows[n].mutation
    BY <1>5, <1>12, <2>1
  <2>3. /\ Does(work, S) /\ Does(work, R) /\ ~Does(work, M) /\ ~Does(work, F)
        /\ rows[n].state = "credential_pending" /\ ~rows[n].tombstoned
        /\ holder.op \in {"reconcile", "prepare", "complete"} /\ item[n] = item[n]
    BY <1>3, <1>4, <1>6, <1>12
  <2>4. ~Does(t, M) /\ ~Does(t, F)
    BY <1>3, <2>3
  <2>5. Len(rows) = n
    BY DEF n, Latest
  <2>6. \A q \in Phone!Revisions : item'[q] # 0 /\ q # n => Does(t, Phone!Forget(q))
    <3>1. ASSUME NEW q \in Phone!Revisions, item'[q] # 0, q # n PROVE Does(t, Phone!Forget(q))
      <4>1. Does(work, Phone!Forget(q)) /\ Phone!Forget(q) # S
        BY <1>6, <1>9, <2>2, <2>3, <3>1
      <4> QED BY <1>3, <1>12, <4>1
    <3> QED BY <3>1
  <2>7. ~(holder.op = "prepare" /\ holder.then = "present")
    BY <1>6, <2>3
  <2>8. \A q \in 1..n : rows[q].tombstoned =>
                \/ rows[q].state = "delete_pending"
                \/ rows[q].state = "missing" /\ item'[q] # rows[q].mutation
    BY <1>5, <1>7, <2>2, <2>3
  <2>9. \A q \in Phone!Revisions : item'[q] # 0 => q = n \/ item[q] # 0
    BY <2>2
  <2> DEFINE its == item'
  <2> HIDE DEF its
  <2>10. rows' = rows /\ item' = its
    BY <2>1 DEF its
  <2> QED BY <1>10, <2>2, <2>3, <2>4, <2>5, <2>6, <2>7, <2>8, <2>9, <2>10
<1>13. CASE n # 0 /\ e = B
  <2>1. item' = item /\ rows' = [rows EXCEPT ![n].state = "delete_pending", ![n].tombstoned = TRUE]
    BY <1>1, <1>9, <1>13
  <2>2. /\ n \in 1..Len(rows) /\ Len(rows) = n
        /\ rows'[n].state = "delete_pending"
        /\ Len(rows') = n /\ \A q \in 1..n : q # n => rows'[q] = rows[q]
    <3>1. n \in 1..Len(rows) /\ Len(rows) = n
      BY <1>5, <1>13 DEF n, Latest
    <3>2. rows[n] \in Rows
      BY <1>5, <1>13
    <3> QED BY <1>5, <2>1, <3>1, <3>2 DEF Rows
  <2>3. Does(work, B) /\ holder.op = "delete" /\ ~Does(work, R)
    BY <1>3, <1>6, <1>13
  <2>4. ~Does(t, R) /\ (Does(t, M) => item[n] = 0 \/ Does(t, F))
    BY <1>3, <1>6, <1>9, <1>13, <2>3
  <2>5. \A q \in 1..n : rows'[q].tombstoned =>
                \/ rows'[q].state = "delete_pending"
                \/ rows'[q].state = "missing" /\ item[q] # rows'[q].mutation
    BY <1>7, <2>2
  <2> DEFINE rs == rows'
  <2> HIDE DEF rs
  <2>6. rows' = rs /\ item' = item
    BY <2>1 DEF rs
  <2> QED BY <1>10, <2>2, <2>3, <2>4, <2>5, <2>6
<1>14. CASE n # 0 /\ e = R /\ t = <<>>
  <2>1. item' = item /\ rows' = [rows EXCEPT ![n].state = "ready"]
    BY <1>1, <1>9, <1>14
  <2>2. /\ n \in 1..Len(rows) /\ Len(rows) = n
        /\ rows'[n].state = "ready" /\ rows'[n].mutation = rows[n].mutation
        /\ rows'[n].tombstoned = rows[n].tombstoned
        /\ Len(rows') = n /\ \A q \in 1..n : q # n => rows'[q] = rows[q]
    <3>1. n \in 1..Len(rows) /\ Len(rows) = n
      BY <1>5, <1>14 DEF n, Latest
    <3>2. rows[n] \in Rows
      BY <1>5, <1>14
    <3> QED BY <1>5, <2>1, <3>1, <3>2 DEF Rows
  <2>3. /\ \A x : ~Does(t, x)
        /\ Does(work, R) /\ ~Does(work, S) /\ ~rows[n].tombstoned
        /\ holder.op \in {"reconcile", "prepare", "complete"}
        /\ item[n] = rows[n].mutation
    <3>1. \A x : ~Does(t, x)
      BY <1>14, NoWork
    <3>2. S # R
      BY <1>9
    <3> QED BY <1>3, <1>6, <1>14, <3>1, <3>2
  <2>4. \A q \in Phone!Revisions : item[q] # 0 => q = n
    <3>1. \A q : Phone!Forget(q) # R
      BY <1>9
    <3> QED BY <1>3, <1>6, <1>14, <2>3, <3>1
  <2>5. ~(holder.op = "prepare" /\ holder.then = "present")
    BY <1>6, <2>3
  <2>6. \A q \in 1..n : rows'[q].tombstoned =>
                \/ rows'[q].state = "delete_pending"
                \/ rows'[q].state = "missing" /\ item[q] # rows'[q].mutation
    BY <1>7, <2>2, <2>3
  <2> DEFINE rs == rows'
  <2> HIDE DEF rs
  <2>7. rows' = rs /\ item' = item
    BY <2>1 DEF rs
  <2> QED BY <1>10, <2>2, <2>3, <2>4, <2>5, <2>6, <2>7
<1>15. CASE n # 0 /\ e = M /\ t = <<>>
  <2>1. item' = item /\ rows' = [rows EXCEPT ![n].state = "missing"]
    BY <1>1, <1>9, <1>15
  <2>2. /\ n \in 1..Len(rows) /\ Len(rows) = n
        /\ rows'[n].state = "missing" /\ rows'[n].mutation = rows[n].mutation
        /\ Len(rows') = n /\ \A q \in 1..n : q # n => rows'[q] = rows[q]
    <3>1. n \in 1..Len(rows) /\ Len(rows) = n
      BY <1>5, <1>15 DEF n, Latest
    <3>2. rows[n] \in Rows
      BY <1>5, <1>15
    <3> QED BY <1>5, <2>1, <3>1, <3>2 DEF Rows
  <2>3. /\ \A x : ~Does(t, x)
        /\ \A q : ~Does(work, Phone!Forget(q))
        /\ item[n] = 0
    <3>1. \A x : ~Does(t, x)
      BY <1>15, NoWork
    <3>2. \A q : ~Does(work, Phone!Forget(q))
      BY <1>3, <1>9, <1>15, <3>1
    <3> QED BY <1>3, <1>6, <1>15, <3>1, <3>2 DEF F
  <2>4. holder.op \in {"reconcile", "prepare", "complete"} =>
          \A q \in Phone!Revisions : item[q] # 0 => q = n
    BY <1>6, <2>3
  <2>5. \A q \in 1..n : rows'[q].tombstoned =>
                \/ rows'[q].state = "delete_pending"
                \/ rows'[q].state = "missing" /\ item[q] # rows'[q].mutation
    BY <1>5, <1>7, <2>2, <2>3
  <2> DEFINE rs == rows'
  <2> HIDE DEF rs
  <2>6. rows' = rs /\ item' = item
    BY <2>1 DEF rs
  <2> QED BY <1>10, <2>2, <2>3, <2>4, <2>5, <2>6
<1> QED BY <1>3, <1>11, <1>12, <1>13, <1>14, <1>15

\* An operation that begins has its work cut out by what the stores hold.
LEMMA BeginStores ==
    ASSUME Phone!BoundsAssumption, PhoneTypes, Flowing, Stores, UNCHANGED <<rows, item, reconciled, sheet>>,
           Works(work', holder'.op, holder'.then, Latest, item, reconciled)
    PROVE  Stores'
<1>1. Latest' = Latest
  BY DEF Latest
<1>2. Works(work, holder.op, holder.then, Latest, item, reconciled)'
  BY <1>1 DEF Works, Shape, Does
<1> QED BY <1>1, <1>2 DEF Stores, OneItem

\* The stores agree after every step.
LEMMA StoresStep ==
    ASSUME Phone!BoundsAssumption, PhoneTypes, Flowing, Stores, Phone!Next
    PROVE  Stores'
<1>1. /\ reconciled \in BOOLEAN /\ reconciled' \in BOOLEAN
      /\ Latest \in Nat /\ rows \in Seq(Rows) /\ item \in [Phone!Revisions -> 0..Phone!Foreign]
      /\ \A r \in 1..Latest : rows[r].mutation \in 1..MaxMutations
  BY AppType, RowFacts DEF AppTypes, PhoneTypes
<1>2. /\ reconciled => process = "open"
      /\ Phone!Locked => (reconciled <=> holder.op # "reconcile")
      /\ ~Phone!Locked => work = <<>> /\ holder = Phone!Nobody
      /\ sheet # Phone!NoSheet => save.step \in {"idle", "asked"}
      /\ Phone!Nobody.op = "none" /\ Phone!Nobody.then = "none"
      /\ Phone!Locked => holder # Phone!Nobody
  BY <1>1 DEF Flowing, LockFlows, PageFlows, Phone!Locked, Phone!Nobody
<1> USE DEF Phone!durable, Phone!page, Phone!counters
<1>3. ASSUME UNCHANGED <<rows, item, work, holder>>, reconciled' => reconciled,
             sheet' # Phone!NoSheet => sheet # Phone!NoSheet
      PROVE  Stores'
  BY <1>1, <1>3, QuietStores
<1>4. ASSUME NEW flow, Phone!Ends(flow) PROVE sheet' # Phone!NoSheet => sheet # Phone!NoSheet
  BY <1>4 DEF Phone!Ends
<1>5. ASSUME NEW flow, Phone!Reconciles(flow) PROVE Stores'
  <2>1. PICK order \in Phone!SetToSeqs(Phone!Orphans) : Phone!Reconcile(flow, order)
    BY <1>5 DEF Phone!Reconciles
  <2>2. /\ UNCHANGED <<rows, item, reconciled, sheet>> /\ reconciled = FALSE
        /\ holder'.op = "reconcile" /\ holder'.then = "none"
        /\ work' = [i \in DOMAIN order |-> Phone!Forget(order[i])] \o Phone!Settling
    BY <1>1, <2>1 DEF Phone!Reconcile, Phone!Take
  <2>3. Works(work', "reconcile", "none", Latest, item, FALSE)
    BY <2>2, ReconcilingFits
  <2> QED BY <2>2, <2>3, BeginStores
<1>6. ASSUME NEW flow, Phone!Refuse(flow) PROVE Stores'
  BY <1>3, <1>4, <1>6 DEF Phone!Refuse
<1>7. CASE Phone!Effect
  BY <1>7, EffectStores
<1>8. CASE Phone!EffectFails
  <2>1. /\ UNCHANGED <<rows, item, reconciled>> /\ work' = <<>> /\ holder' = Phone!Nobody
        /\ Phone!Ends(holder.for)
    BY <1>8 DEF Phone!EffectFails
  <2>2. reconciled /\ sheet' # Phone!NoSheet => OneItem(item, Latest)
    BY <1>4, <2>1 DEF Stores
  <2> QED BY <1>1, <2>1, <2>2, DoneStores
<1>9. CASE Phone!Finish
  <2>1. /\ UNCHANGED <<rows, item>> /\ work = <<>> /\ work' = <<>> /\ holder' = Phone!Nobody /\ Phone!Locked
        /\ reconciled' = (reconciled \/ holder.op = "reconcile")
    BY <1>9 DEF Phone!Finish
  <2>2. /\ Latest = 0 \/ Latest # 0
        /\ holder.op \in {"reconcile", "prepare", "complete"} => OneItem(item, Latest)
    <3>1. Works(work, holder.op, holder.then, Latest, item, reconciled)
      BY DEF Stores
    <3> QED BY <2>1, <3>1, NoWork DEF Works, OneItem
  <2>3. reconciled' /\ sheet' # Phone!NoSheet => OneItem(item, Latest)
    <3>1. CASE holder.op \in {"reconcile", "prepare"}
      BY <2>2, <3>1
    <3>2. CASE holder.op \notin {"reconcile", "prepare"}
      <4>1. sheet' # Phone!NoSheet => sheet # Phone!NoSheet
        <5>1. CASE holder.op = "delete"
          BY <1>9, <5>1 DEF Phone!Finish
        <5>2. CASE holder.op # "delete"
          <6>1. Phone!Ends(holder.for)
            BY <1>9, <3>2, <5>2 DEF Phone!Finish
          <6> QED BY <1>4, <6>1
        <5> QED BY <5>1, <5>2
      <4>2. reconciled' => reconciled
        BY <1>1, <2>1, <3>2
      <4> QED BY <4>1, <4>2 DEF Stores
    <3> QED BY <3>1, <3>2
  <2>4. reconciled' => reconciled \/ (holder.op = "reconcile" /\ work = <<>>)
    BY <1>1, <2>1
  <2> QED BY <1>1, <2>1, <2>3, <2>4, DoneStores
<1>10. CASE Phone!StartSave \/ Phone!SaveReads \/ Phone!SaveConsents \/ Phone!OpenSetup \/ Phone!StartRemoval
         \/ Phone!RemovalReads \/ Phone!RemovalReadsBack
  <2>1. UNCHANGED <<rows, item, work, holder, reconciled, sheet>>
    BY <1>10 DEF Phone!StartSave, Phone!SaveReads, Phone!SaveConsents, Phone!OpenSetup, Phone!StartRemoval,
                 Phone!RemovalReads, Phone!RemovalReadsBack
  <2> QED BY <1>3, <2>1
<1>11. CASE Phone!SaveReserves
  <2>1. /\ UNCHANGED <<item, work, holder, reconciled, sheet>> /\ ~Phone!Locked /\ reconciled
        /\ save.step = "reserve"
    BY <1>11 DEF Phone!SaveReserves, Phone!Serves
  <2>2. CASE save.rev = Len(rows) + 1
    <3> DEFINE added == [mutation |-> save.mutation, state |-> "credential_pending", tombstoned |-> FALSE]
               n == Latest + 1
    <3>1. rows' = Append(rows, added)
      BY <1>11, <2>2 DEF Phone!SaveReserves
    <3>2. added \in Rows /\ added.state = "credential_pending" /\ added.tombstoned = FALSE
      BY <2>1 DEF Flowing, PageFlows, Rows, Phone!States
    <3> HIDE DEF added
    <3>3. /\ Latest' = n /\ rows'[n] = added /\ \A r \in 1..Latest : rows'[r] = rows[r]
      BY <1>1, <3>1, <3>2, AppendProperties DEF Latest
    <3>4. n \in Nat /\ n # 0 /\ n \in Phone!Revisions
      BY <1>1, <2>1, <2>2 DEF Flowing, PageFlows, Latest
    <3>5. work = <<>> /\ holder.op = "none" /\ holder.then = "none" /\ sheet = Phone!NoSheet
      BY <1>2, <2>1
    <3>6. Shape(<<>>, n)
      BY <3>4, ShortShapes
    <3> HIDE DEF n
    <3>7. Works(work, holder.op, holder.then, Latest, item, reconciled)'
      <4>1. work' = <<>> /\ holder'.op = "none" /\ holder'.then = "none" /\ rows'[n].state # "ready"
        BY <2>1, <3>2, <3>3, <3>5
      <4>2. Latest' = n /\ \A e : ~Does(<<>>, e)
        BY <3>3, NoWork
      <4> QED BY <3>6, <4>1, <4>2 DEF Works, Shape, Does
    <3>8. reconciled => \A r \in Phone!Revisions : r > Latest => item[r] = 0
      BY DEF Stores
    <3>9. \A r \in Phone!Revisions : r > n => item[r] = 0
      BY <1>1, <2>1, <3>8, PhoneBounds DEF n
    <3>10. \A r \in 1..n : rows'[r].tombstoned =>
             \/ rows'[r].state = "delete_pending"
             \/ rows'[r].state = "missing" /\ item[r] # rows'[r].mutation
      <4>1. \A r \in 1..n : r \in 1..Latest \/ r = n
        BY <1>1 DEF n
      <4> QED BY <3>2, <3>3, <4>1 DEF Stores
    <3>11. (reconciled => \A r \in Phone!Revisions : r > Latest => item[r] = 0)'
      BY <2>1, <3>3, <3>9
    <3>12. (\A r \in 1..Latest : rows[r].tombstoned =>
             \/ rows[r].state = "delete_pending"
             \/ rows[r].state = "missing" /\ item[r] # rows[r].mutation)'
      BY <2>1, <3>3, <3>10
    <3>13. sheet' = Phone!NoSheet /\ rows[Latest]'.state # "ready"
      BY <2>1, <3>2, <3>3, <3>5
    <3> QED BY <3>7, <3>11, <3>12, <3>13 DEF Stores
  <2>3. CASE save.rev # Len(rows) + 1
    <3>1. rows' = rows
      BY <1>11, <2>3 DEF Phone!SaveReserves
    <3> QED BY <1>3, <2>1, <3>1
  <2> QED BY <2>2, <2>3
<1>12. CASE Phone!PrepareSave
  <2>1. UNCHANGED <<rows, item, reconciled, sheet>> /\ reconciled
    BY <1>12 DEF Phone!PrepareSave, Phone!Serves
  <2>2. CASE Phone!Exact(save.rev, save.mutation) /\ Phone!Writable(save.rev)
    <3>1. /\ holder'.op = "prepare" /\ holder'.then = Phone!Prepared(save.rev)
          /\ work' = Phone!Preparing(save.rev)
      BY <1>12, <2>2 DEF Phone!PrepareSave, Phone!Take
    <3>2. save.rev = Latest /\ Latest # 0
      BY <2>2, LatestIsReserved DEF Phone!Exact
    <3>3. Works(Phone!Preparing(Latest), "prepare", Phone!Prepared(Latest), Latest, item, TRUE)
      BY <2>1, <2>2, <3>2, PreparingFits
    <3>4. reconciled = TRUE
      BY <1>1, <2>1
    <3> QED BY <2>1, <3>1, <3>2, <3>3, <3>4, BeginStores
  <2>3. CASE ~(Phone!Exact(save.rev, save.mutation) /\ Phone!Writable(save.rev))
    <3>1. UNCHANGED <<holder, work>>
      BY <1>12, <2>3 DEF Phone!PrepareSave
    <3> QED BY <1>3, <2>1, <3>1
  <2> QED BY <2>2, <2>3
<1>13. CASE Phone!TapSave
  <2>1. UNCHANGED <<rows, item, work, holder, reconciled>> /\ sheet # Phone!NoSheet
    BY <1>13 DEF Phone!TapSave
  <2> QED BY <1>3, <2>1
<1>14. CASE Phone!CancelSave
  <2>1. UNCHANGED <<rows, item, work, holder, reconciled>> /\ sheet # Phone!NoSheet
    BY <1>14 DEF Phone!CancelSave
  <2> QED BY <1>3, <2>1
<1>15. CASE Phone!CompleteSave
  <2>1. UNCHANGED <<rows, item, reconciled>> /\ reconciled /\ sheet.tapped
    BY <1>15 DEF Phone!CompleteSave, Phone!Serves
  <2>2. sheet # Phone!NoSheet
    BY <2>1 DEF Phone!NoSheet
  <2>3. CASE Phone!Exact(sheet.rev, sheet.mutation) /\ Phone!Writable(sheet.rev)
    <3> DEFINE then == IF item[sheet.rev] \in {0, sheet.mutation} THEN "ready" ELSE "reject"
    <3>1. /\ holder'.op = "complete" /\ holder'.then = then /\ sheet' = sheet
          /\ work' = Phone!Completing(sheet.rev)
      BY <1>15, <2>3 DEF Phone!CompleteSave, Phone!Take
    <3>2. sheet.rev = Latest /\ Latest # 0
      BY <2>3, LatestIsReserved DEF Phone!Exact
    <3>3. then \in {"ready", "reject"}
      OBVIOUS
    <3> HIDE DEF then
    <3>4. Works(Phone!Completing(Latest), "complete", then, Latest, item, TRUE)
      BY <2>1, <2>2, <2>3, <3>2, <3>3, CompletingFits
    <3>5. reconciled = TRUE
      BY <1>1, <2>1
    <3> QED BY <2>1, <3>1, <3>2, <3>4, <3>5, BeginStores
  <2>4. CASE ~(Phone!Exact(sheet.rev, sheet.mutation) /\ Phone!Writable(sheet.rev))
    <3>1. UNCHANGED <<holder, work>>
      BY <1>15, <2>4 DEF Phone!CompleteSave
    <3> QED BY <1>3, <2>1, <2>2, <3>1
  <2> QED BY <2>3, <2>4
<1>16. CASE Phone!DeleteCredential
  <2>1. UNCHANGED <<rows, item, reconciled, sheet>> /\ reconciled /\ ~Phone!Locked
    BY <1>16 DEF Phone!DeleteCredential, Phone!Serves
  <2>2. CASE UNCHANGED <<holder, work>>
    BY <1>3, <2>1, <2>2
  <2>3. CASE ~UNCHANGED <<holder, work>>
    <3>1. /\ Phone!Reserved(removal.rev)
          /\ holder'.op = "delete" /\ holder'.then = "none" /\ work' = Phone!Deleting(removal.rev)
      BY <1>16, <2>3 DEF Phone!DeleteCredential, Phone!Take
    <3>2. removal.rev = Latest /\ Latest # 0
      BY <3>1, LatestIsReserved
    <3>3. work = <<>> /\ holder.op = "none"
      BY <1>2, <2>1
    <3>4. Works(Phone!Deleting(Latest), "delete", "none", Latest, item, TRUE)
      BY <2>1, <3>2, <3>3, DeletingFits
    <3>5. reconciled = TRUE
      BY <1>1, <2>1
    <3> QED BY <2>1, <3>1, <3>2, <3>4, <3>5, BeginStores
  <2> QED BY <2>2, <2>3
<1>17. ASSUME NEW mode, Phone!SelectRoom(mode) PROVE Stores'
  BY <1>3, <1>17 DEF Phone!SelectRoom
<1>18. CASE Phone!Launch \/ Phone!OpenDatabase \/ Phone!CloseDatabase
  <2>1. UNCHANGED <<rows, item, work, holder, sheet>> /\ (reconciled' = reconciled \/ reconciled' = FALSE)
    BY <1>18 DEF Phone!Launch, Phone!OpenDatabase, Phone!CloseDatabase
  <2> QED BY <1>1, <1>3, <2>1
<1>19. CASE Phone!Reload
  <2>1. /\ UNCHANGED <<rows, item, work, reconciled, sheet>>
        /\ holder' = [holder EXCEPT !.for = IF holder.for = "sheet" THEN holder.for ELSE "none"]
    BY <1>19 DEF Phone!Reload
  <2>2. holder \in Holders
    BY DEF PhoneTypes, Holders
  <2>3. holder'.op = holder.op /\ holder'.then = holder.then
    BY <2>1, <2>2 DEF Holders
  <2> QED BY <1>1, <2>1, <2>3, QuietStores
<1>20. CASE Phone!Kill
  <2>1. UNCHANGED <<rows, item>> /\ work' = <<>> /\ holder' = Phone!Nobody /\ reconciled' = FALSE
    BY <1>20 DEF Phone!Kill, Phone!Dead
  <2> QED BY <1>1, <2>1, DoneStores
<1>21. CASE Phone!Reinstall
  <2>1. rows' = <<>> /\ work' = <<>> /\ holder' = Phone!Nobody /\ reconciled' = FALSE
    BY <1>21 DEF Phone!Reinstall, Phone!Dead
  <2>2. Latest' = 0 /\ Shape(<<>>, 0)
    <3>1. Len(<<>>) = 0
      BY EmptySeq
    <3> QED BY <2>1, <3>1, ShortShapes DEF Latest
  <2>3. Works(work, holder.op, holder.then, Latest, item, reconciled)'
    <3>1. holder'.op = "none" /\ holder'.then = "none"
      BY <1>2, <2>1
    <3>2. Works(<<>>, "none", "none", 0, item, reconciled)'
      BY <2>1, <2>2, NoWork DEF Works, Shape, Does
    <3> QED BY <2>1, <2>2, <3>1, <3>2 DEF Works, Shape, Does
  <2> QED BY <2>1, <2>2, <2>3 DEF Stores
<1>22. ASSUME NEW r \in Phone!Revisions, NEW found \in {0, Phone!Foreign}, Phone!Disturb(r, found)
       PROVE  Stores'
  <2>1. /\ process = "off" /\ UNCHANGED <<rows, reconciled, holder, work, sheet>>
        /\ item' = [item EXCEPT ![r] = found]
    BY <1>22 DEF Phone!Disturb
  <2>2. ~reconciled /\ ~Phone!Locked
    BY <1>2, <2>1 DEF Flowing, LockFlows
  <2>3. /\ work = <<>> /\ holder.op = "none" /\ holder.then = "none" /\ Latest' = Latest
        /\ Latest \in Phone!Revisions \/ Latest = 0
    BY <1>2, <2>1, <2>2, RowFacts DEF Latest
  <2>4. Shape(<<>>, Latest)
    BY <1>1, <2>3, ShortShapes
  <2>5. Works(work, holder.op, holder.then, Latest, item, reconciled)'
    <3>1. Works(<<>>, "none", "none", Latest, item, FALSE)'
      BY <2>1, <2>3, <2>4, NoWork DEF Works, Shape, Does
    <3>2. reconciled' = FALSE /\ work' = <<>> /\ holder'.op = "none" /\ holder'.then = "none"
      BY <1>1, <2>1, <2>2, <2>3
    <3> QED BY <3>1, <3>2 DEF Works, Shape, Does
  <2>6. \A q \in 1..Latest : item'[q] = item[q] \/ item'[q] # rows[q].mutation
    <3>1. \A q \in 1..Latest : q \in Phone!Revisions /\ rows[q].mutation \in 1..MaxMutations
      BY RowFacts
    <3>2. found \notin 1..MaxMutations
      BY PhoneBounds DEF Phone!Foreign
    <3> QED BY <1>1, <2>1, <3>1, <3>2
  <2>7. (\A q \in 1..Latest : rows[q].tombstoned =>
             \/ rows[q].state = "delete_pending"
             \/ rows[q].state = "missing" /\ item[q] # rows[q].mutation)'
    BY <2>1, <2>3, <2>6 DEF Stores
  <2> QED BY <2>1, <2>2, <2>5, <2>7 DEF Stores
<1> QED
  BY <1>5, <1>6, <1>7, <1>8, <1>9, <1>10, <1>11, <1>12, <1>13, <1>14, <1>15, <1>16, <1>17,
     <1>18, <1>19, <1>20, <1>21, <1>22 DEF Phone!Next

-----------------------------------------------------------------------------
(* The invariant and the theorems *)

\* The invariant holds at first, ...
LEMMA PhoneInit == ASSUME Phone!BoundsAssumption, Phone!Init PROVE PhoneInv
<1>1. /\ rows = <<>> /\ work = <<>> /\ Latest = 0 /\ rows \in Seq(Rows) /\ work \in Seq(AnEffect)
      /\ Shape(<<>>, 0)
  <2>1. Len(<<>>) = 0
    BY EmptySeq
  <2> QED BY <2>1, ShortShapes, EmptySeq DEF Phone!Init, Latest
<1>2. PhoneTypes
  <2>1. item \in [Phone!Revisions -> 0..Phone!Foreign] /\ selected \in 0..Latest /\ Latest <= MaxRevision
    BY <1>1, PhoneBounds DEF Phone!Init
  <2>2. holder = Phone!Nobody /\ sheet = Phone!NoSheet /\ save = Phone!Resting
        /\ removal = Phone!Resting /\ target = Phone!NoTarget
    BY DEF Phone!Init
  <2>3. /\ room \in {"none", "demo", "provider"} /\ process \in {"off", "closed", "open"}
        /\ booted \in BOOLEAN /\ reconciled \in BOOLEAN /\ said \subseteq 1..MaxMutations /\ minted \in Nat
    BY DEF Phone!Init
  <2> QED BY <1>1, <2>1, <2>2, <2>3, NoRecords DEF PhoneTypes
<1>3. Flowing
  BY <1>1 DEF Phone!Init, Flowing, PageFlows, LockFlows, Phone!Locked, Phone!Resting, Phone!Nobody
<1>4. Stores
  BY <1>1, NoWork DEF Phone!Init, Stores, Works, Phone!Nobody
<1> QED BY <1>2, <1>3, <1>4 DEF PhoneInv

\* ... and always.
LEMMA PhoneInvariant == ASSUME Phone!BoundsAssumption PROVE Phone!Spec => []PhoneInv
<1>1. Phone!Init => PhoneInv
  BY PhoneInit
<1>2. PhoneInv /\ [Phone!Next]_(Phone!vars) => PhoneInv'
  <2> SUFFICES ASSUME PhoneInv, [Phone!Next]_(Phone!vars) PROVE PhoneInv'
    OBVIOUS
  <2>1. CASE Phone!Next
    <3>1. PhoneTypes' /\ Stores'
      BY <2>1, TypesStep, StoresStep DEF PhoneInv
    <3>2. Flowing'
      BY <2>1, PageFlowsStep, LockFlowsStep DEF PhoneInv, Flowing
    <3> QED BY <3>1, <3>2 DEF PhoneInv
  <2>2. CASE UNCHANGED Phone!vars
    <3> USE <2>2 DEF Phone!vars, Phone!durable, Phone!page, Phone!counters
    <3>1. PhoneTypes'
      BY DEF PhoneInv, PhoneTypes, Latest
    <3>2. Flowing'
      BY DEF PhoneInv, Flowing, PageFlows, LockFlows, Phone!Locked
    <3>3. Stores'
      <4>1. reconciled' \in BOOLEAN
        BY <3>1 DEF PhoneTypes
      <4> QED BY <4>1, QuietStores DEF PhoneInv
    <3> QED BY <3>1, <3>2, <3>3 DEF PhoneInv
  <2> QED BY <2>1, <2>2
<1> QED BY <1>1, <1>2, PTL DEF Phone!Spec

\* The latest revision is "ready" only with its key, once the stores are
\* reconciled (prepareSave, completeSave, reconcileAtDatabaseOpen).
THEOREM PhoneReadyHasKey == ASSUME Phone!BoundsAssumption PROVE Phone!Spec => []Phone!ReadyHasKey
<1>1. PhoneInv => Phone!ReadyHasKey
  <2> SUFFICES ASSUME PhoneInv, reconciled, rows # <<>>, rows[Latest].state = "ready"
               PROVE  item[Latest] = rows[Latest].mutation
    BY DEF Phone!ReadyHasKey, Phone!Matches, Latest
  <2>1. Latest # 0 /\ reconciled = TRUE
    BY RowFacts DEF PhoneInv, PhoneTypes
  <2>2. holder.op # "reconcile"
    <3>1. ~Phone!Locked => holder.op = "none"
      BY DEF Phone!Locked, Phone!Nobody
    <3> QED BY <2>1, <3>1 DEF PhoneInv, Flowing, LockFlows
  <2> QED BY <2>1, <2>2 DEF PhoneInv, Stores, Works
<1> QED BY <1>1, PhoneInvariant, PTL

\* Of a removal that SQLite records as finished no Keychain item is left
\* (the delete operation of the credential lifecycle and its retries).
THEOREM PhoneRemovedIsGone == ASSUME Phone!BoundsAssumption PROVE Phone!Spec => []Phone!RemovedIsGone
<1>1. PhoneInv => Phone!RemovedIsGone
  BY DEF PhoneInv, Stores, Phone!RemovedIsGone, Latest
<1> QED BY <1>1, PhoneInvariant, PTL

\* Where the user is asked for a key, and while one is ready, no item of another
\* revision is left (presentSaveSheetOnMain, reconcileAtDatabaseOpen).
THEOREM PhoneOneKeyOnly == ASSUME Phone!BoundsAssumption PROVE Phone!Spec => []Phone!OneKeyOnly
<1>1. PhoneInv => Phone!OneKeyOnly
  <2> SUFFICES ASSUME PhoneInv, reconciled, sheet # Phone!NoSheet \/ (rows # <<>> /\ rows[Latest].state = "ready")
               PROVE  OneItem(item, Latest)
    BY DEF Phone!OneKeyOnly, OneItem, Latest
  <2>1. rows # <<>> => Latest # 0
    BY RowFacts DEF PhoneInv
  <2> QED BY <2>1 DEF PhoneInv, Stores
<1> QED BY <1>1, PhoneInvariant, PTL

\* The types, and that only the holder of the lock has work to do.
THEOREM PhoneTypeCorrect == ASSUME Phone!BoundsAssumption PROVE Phone!Spec => []Phone!TypeOK
<1>1. PhoneInv => Phone!TypeOK
  <2> SUFFICES ASSUME PhoneInv PROVE Phone!TypeOK
    OBVIOUS
  <2>1. /\ Len(rows) <= MaxRevision
        /\ \A r \in 1..Len(rows) :
              rows[r] \in [mutation : 1..MaxMutations, state : Phone!States, tombstoned : BOOLEAN]
    BY RowFacts DEF PhoneInv, PhoneTypes, Rows, Latest
  <2>2. work # <<>> => Phone!Locked
    BY DEF PhoneInv, Flowing, LockFlows
  <2>3. /\ save.step \in {"idle", "read", "reserve", "consent", "sheet", "asked"}
        /\ removal.step \in {"idle", "read", "delete", "status"}
    <3>1. save \in Saves /\ removal \in Removals
      BY DEF PhoneInv, PhoneTypes, Saves, Removals
    <3> QED BY <3>1 DEF Saves, Removals
  <2>4. /\ item \in [Phone!Revisions -> 0..Phone!Foreign] /\ selected \in 0..Len(rows)
        /\ room \in {"none", "demo", "provider"} /\ process \in {"off", "closed", "open"}
        /\ booted \in BOOLEAN /\ reconciled \in BOOLEAN /\ said \subseteq 1..MaxMutations
    BY DEF PhoneInv, PhoneTypes, Latest
  <2> QED BY <2>1, <2>2, <2>3, <2>4 DEF Phone!TypeOK
<1> QED BY <1>1, PhoneInvariant, PTL

\* A removed key never comes back into use: whatever is replayed, reconciled or
\* completed late, a tombstoned revision only becomes "missing" and its item is
\* never written again (the tombstone transaction and its triggers).
THEOREM PhoneTombstones == ASSUME Phone!BoundsAssumption PROVE Phone!Spec => Phone!TombstoneIsFinal
<1>1. PhoneInv /\ [Phone!Next]_(Phone!vars) => [Phone!KeepsTombstones]_(Phone!vars)
  <2> SUFFICES ASSUME PhoneInv, Phone!Next PROVE Phone!KeepsTombstones
    OBVIOUS
  <2> USE DEF Phone!durable, Phone!page, Phone!counters
  <2>1. ASSUME rows' = rows, item' = item PROVE Phone!KeepsTombstones
    BY <2>1 DEF Phone!KeepsTombstones
  <2>2. ASSUME rows' = <<>> PROVE Phone!KeepsTombstones
    BY <2>2 DEF Phone!KeepsTombstones
  <2>3. CASE Phone!Effect
    <3> DEFINE e == Head(work)
               n == Latest
    <3>1. /\ work \in Seq(AnEffect) /\ work # <<>> /\ Shape(work, n)
          /\ Works(work, holder.op, holder.then, n, item, reconciled)
          /\ rows \in Seq(Rows) /\ item \in [Phone!Revisions -> 0..Phone!Foreign]
      BY <2>3 DEF PhoneInv, PhoneTypes, Stores, Works, Phone!Effect
    <3>2. /\ rows' = CASE e.kind = "mark" -> [rows EXCEPT ![e.rev].state = e.to]
                       [] e.kind = "bury" -> [rows EXCEPT ![e.rev].state = e.to, ![e.rev].tombstoned = TRUE]
                       [] OTHER -> rows
          /\ item' = CASE e.kind = "forget" -> [item EXCEPT ![e.rev] = 0]
                       [] e.kind = "store" -> [item EXCEPT ![e.rev] = rows[e.rev].mutation]
                       [] OTHER -> item
      BY <2>3 DEF Phone!Effect
    <3>3. /\ Does(work, e)
          /\ \/ \E r \in Phone!Revisions : e = Phone!Forget(r)
             \/ n # 0 /\ e \in {Phone!Store(n), Phone!Bury(n)}
             \/ n # 0 /\ e \in {Phone!MarkReady(n), Phone!MarkMissing(n)}
      BY <3>1, WorkHead
    <3>4. n # 0 /\ e \in {Phone!Store(n), Phone!Bury(n), Phone!MarkReady(n)} => ~rows[n].tombstoned
      <4>1. Does(work, Phone!Store(n)) => Does(work, Phone!MarkReady(n))
        BY <3>1 DEF Shape
      <4>2. Does(work, Phone!MarkReady(n)) \/ Does(work, Phone!Bury(n)) => ~rows[n].tombstoned
        BY <3>1 DEF Works
      <4> HIDE DEF e
      <4> QED BY <3>3, <4>1, <4>2
    <3>5. \A r \in 1..n : r \in Phone!Revisions /\ rows[r] \in Rows
      BY RowFacts DEF PhoneInv
    <3> HIDE DEF e, n
    <3>6. ASSUME NEW r \in Phone!Revisions, e = Phone!Forget(r) PROVE Phone!KeepsTombstones
      <4>1. rows' = rows /\ item' = [item EXCEPT ![r] = 0]
        BY <3>2, <3>6, EffectsDiffer
      <4>2. \A q \in 1..n : item'[q] \in {item[q], 0}
        BY <3>1, <3>5, <4>1
      <4> QED BY <4>1, <4>2 DEF Phone!KeepsTombstones, n, Latest
    <3>7. CASE n # 0 /\ e = Phone!Store(n)
      <4>1. rows' = rows /\ item' = [item EXCEPT ![n] = rows[n].mutation] /\ ~rows[n].tombstoned
        BY <3>2, <3>4, <3>7, EffectsDiffer
      <4>2. \A q \in 1..n : rows[q].tombstoned => item'[q] = item[q]
        BY <3>1, <3>5, <4>1
      <4> QED BY <4>1, <4>2 DEF Phone!KeepsTombstones, n, Latest
    <3>8. CASE n # 0 /\ e \in {Phone!Bury(n), Phone!MarkReady(n)}
      <4>1. /\ item' = item /\ ~rows[n].tombstoned
            /\ \/ rows' = [rows EXCEPT ![n].state = "ready"]
               \/ rows' = [rows EXCEPT ![n].state = "delete_pending", ![n].tombstoned = TRUE]
        <5>1. CASE e = Phone!Bury(n)
          <6>1. e.kind = "bury" /\ e.rev = n /\ e.to = "delete_pending"
            BY <5>1, EffectsDiffer
          <6> QED BY <3>2, <3>4, <3>8, <5>1, <6>1
        <5>2. CASE e = Phone!MarkReady(n)
          <6>1. e.kind = "mark" /\ e.rev = n /\ e.to = "ready"
            BY <5>2, EffectsDiffer
          <6> QED BY <3>2, <3>4, <3>8, <5>2, <6>1
        <5> QED BY <3>8, <5>1, <5>2
      <4>2. \A q \in 1..n : rows[q].tombstoned => rows'[q] = rows[q]
        <5>1. \A q \in 1..Len(rows) : q # n => rows'[q] = rows[q]
          BY <3>1, <4>1
        <5> QED BY <4>1, <5>1 DEF n, Latest
      <4> QED BY <4>1, <4>2 DEF Phone!KeepsTombstones, n, Latest
    <3>9. CASE n # 0 /\ e = Phone!MarkMissing(n)
      <4>1. item' = item /\ rows' = [rows EXCEPT ![n].state = "missing"]
        BY <3>2, <3>9, EffectsDiffer
      <4>2. \A q \in 1..n : /\ rows'[q].tombstoned = rows[q].tombstoned
                            /\ rows'[q].mutation = rows[q].mutation
                            /\ rows'[q].state \in {rows[q].state, "missing"}
        <5>1. \A q \in 1..Len(rows) : rows'[q] = IF q = n THEN [rows[n] EXCEPT !.state = "missing"] ELSE rows[q]
          BY <3>1, <4>1
        <5>2. n \in 1..n => rows[n] \in Rows
          BY <3>5
        <5> QED BY <5>1, <5>2 DEF n, Latest, Rows
      <4> QED BY <4>1, <4>2 DEF Phone!KeepsTombstones, n, Latest
    <3> QED BY <3>3, <3>6, <3>7, <3>8, <3>9
  <2>4. CASE Phone!SaveReserves
    <3>1. item' = item /\ (rows' = rows \/ \E added : rows' = Append(rows, added))
      BY <2>4 DEF Phone!SaveReserves
    <3>2. rows \in Seq(Rows)
      BY DEF PhoneInv, PhoneTypes
    <3>3. \A added : \A r \in 1..Len(rows) : Append(rows, added)[r] = rows[r]
      BY <3>2
    <3>4. \A r \in 1..Len(rows) : rows'[r] = rows[r]
      BY <3>1, <3>3
    <3> QED BY <3>1, <3>4 DEF Phone!KeepsTombstones
  <2>5. ASSUME NEW r \in Phone!Revisions, NEW found \in {0, Phone!Foreign}, Phone!Disturb(r, found)
        PROVE  Phone!KeepsTombstones
    <3>1. rows' = rows /\ item' = [item EXCEPT ![r] = found]
      BY <2>5 DEF Phone!Disturb
    <3>2. \A q \in 1..Len(rows) : q \in Phone!Revisions
      BY RowFacts DEF PhoneInv, Latest
    <3>3. item \in [Phone!Revisions -> 0..Phone!Foreign]
      BY DEF PhoneInv, PhoneTypes
    <3>4. \A q \in 1..Len(rows) : item'[q] \in {item[q], 0, Phone!Foreign}
      BY <3>1, <3>2, <3>3
    <3> QED BY <3>1, <3>4 DEF Phone!KeepsTombstones
  <2>6. CASE Phone!Reinstall
    BY <2>2, <2>6 DEF Phone!Reinstall
  <2>7. ASSUME NEW flow, Phone!Reconciles(flow) \/ Phone!Refuse(flow) PROVE Phone!KeepsTombstones
    BY <2>1, <2>7 DEF Phone!Reconciles, Phone!Reconcile, Phone!Refuse
  <2>8. CASE \/ Phone!EffectFails \/ Phone!Finish \/ Phone!StartSave \/ Phone!SaveReads \/ Phone!SaveConsents
             \/ Phone!PrepareSave \/ Phone!TapSave \/ Phone!CancelSave \/ Phone!CompleteSave
    BY <2>1, <2>8 DEF Phone!EffectFails, Phone!Finish, Phone!StartSave, Phone!SaveReads,
                      Phone!SaveConsents, Phone!PrepareSave, Phone!TapSave, Phone!CancelSave, Phone!CompleteSave
  <2>9. CASE \/ Phone!OpenSetup \/ Phone!StartRemoval \/ Phone!RemovalReads \/ Phone!DeleteCredential
             \/ Phone!RemovalReadsBack \/ Phone!Launch \/ Phone!OpenDatabase \/ Phone!CloseDatabase
             \/ Phone!Reload \/ Phone!Kill
    BY <2>1, <2>9 DEF Phone!OpenSetup, Phone!StartRemoval, Phone!RemovalReads, Phone!DeleteCredential,
                      Phone!RemovalReadsBack, Phone!Launch, Phone!OpenDatabase, Phone!CloseDatabase,
                      Phone!Reload, Phone!Kill
  <2>10. ASSUME NEW mode, Phone!SelectRoom(mode) PROVE Phone!KeepsTombstones
    BY <2>1, <2>10 DEF Phone!SelectRoom
  <2> QED BY <2>3, <2>4, <2>5, <2>6, <2>7, <2>8, <2>9, <2>10 DEF Phone!Next
<1> QED BY <1>1, PhoneInvariant, PTL DEF Phone!Spec, Phone!TombstoneIsFinal

=============================================================================
