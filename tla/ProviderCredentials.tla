------------------------ MODULE ProviderCredentials ------------------------
(***************************************************************************)
(* The credential routes of src/api/provider-routes.ts for one cloud       *)
(* connection: create, replace, disable and delete.  Each of them reads    *)
(* the connection's current row, awaits the credential store one or more   *)
(* times and writes at most one row in between.  Mutations are serialised  *)
(* (credentialMutationTail), but any await may fail, may take effect and   *)
(* still report a failure, or may be the last thing the process does.      *)
(*                                                                         *)
(* A secret is stored under a reference made of the connection and a       *)
(* revision, so the store is a function of revisions.                      *)
(***************************************************************************)
EXTENDS Naturals

CONSTANTS
    Keys,         \* the secrets clients submit
    Mutations,    \* mutationId of a replace request
    NoMutation,   \* the mutationId of a row no replace wrote
    MaxRev        \* bound on revisions (2^31 - 1 in the code)

ASSUME CredentialAssumption ==
    /\ MaxRev \in Nat \ {0}
    /\ NoMutation \notin Mutations

VARIABLES
    rev,        \* revision of the connection's current row, 0 without a row
    status,     \* state of that row
    mutation,   \* profile.mutationId of that row
    vault,      \* what the credential store holds under each revision
    op          \* the mutation under way, or the last one and its reply

vars == <<rev, status, mutation, vault, op>>
row == <<rev, status, mutation>>

Revisions == 1 .. MaxRev

Absent == [kind |-> "absent"]

\* A file that was truncated or created and not written, or written in part.
Torn == [kind |-> "torn"]

\* A whole secret.  by is history: the request that submitted it.
Whole(key, mid) == [kind |-> "whole", key |-> key, by |-> mid]

Entries ==
    {Absent, Torn} \cup {Whole(k, m) : k \in Keys, m \in Mutations \cup {NoMutation}}

Attempts == {"first", "again"}
Kinds == {"create", "replace", "disable", "delete"}
Steps == {"idle", "probe", "predrop", "write", "commit", "drop"}
Replies == {"none", "ok", "conflict", "failed"}

\* The row, the store and the mutation under way have the shapes above.
TypeOK ==
    /\ rev \in 0 .. MaxRev
    /\ status \in {"none", "enabled", "disabled", "deleted"}
    /\ mutation \in Mutations \cup {NoMutation}
    /\ vault \in [Revisions -> Entries]
    /\ op \in [kind : Kinds, expected : 0 .. MaxRev - 1,
               mid : Mutations \cup {NoMutation}, key : Keys,
               attempt : Attempts, at : Steps, reply : Replies]

Init ==
    /\ rev = 0
    /\ status = "none"
    /\ mutation = NoMutation
    /\ vault = [r \in Revisions |-> Absent]
    /\ op \in [kind : {"create"}, expected : {0}, mid : {NoMutation},
               key : Keys, attempt : {"first"}, at : {"idle"}, reply : {"none"}]

-----------------------------------------------------------------------------
(* Requests.  serializeCredentialMutation starts one when none is under    *)
(* way.                                                                    *)

Sends(expected) == op.at = "idle" /\ expected < MaxRev

Started(kind, expected, mid, key, attempt, at) ==
    op' = [kind |-> kind, expected |-> expected, mid |-> mid, key |-> key,
           attempt |-> attempt, at |-> at, reply |-> "none"]

Answered(kind, expected, mid, key, reply) ==
    op' = [kind |-> kind, expected |-> expected, mid |-> mid, key |-> key,
           attempt |-> "again", at |-> "idle", reply |-> reply]

\* Plausible bug: the leftover of an earlier failed cleanup is not deleted.
CleansNothing(expected, next) == next

\* A revision other than the first leaves the one before the expected one to
\* be deleted first, if an earlier cleanup failed.
CleansFirst(expected, next) == IF expected > 1 THEN "predrop" ELSE next

\* POST connections.  A matching first revision without its secret is repaired.
Create(key) ==
    /\ Sends(0)
    /\ \/ /\ rev = 0
          /\ Started("create", 0, NoMutation, key, "first", "write")
       \/ /\ rev = 1
          /\ status = "enabled"
          /\ Started("create", 0, NoMutation, key, "again", "probe")
       \/ /\ rev # 0
          /\ ~(rev = 1 /\ status = "enabled")
          /\ Answered("create", 0, NoMutation, key, "conflict")
    /\ UNCHANGED <<row, vault>>

\* The replacement this request asks for is already the current row.
Replaced(expected) == rev = expected + 1 /\ status = "enabled"

\* Plausible bug: a retry is not recognised by the row it made.
NeverSameMutation(mid) == FALSE

SameMutation(mid) == mutation = mid

\* POST connections/:id/replace.  A disabled connection is enabled again.
Replace(expected, mid, key) ==
    /\ Sends(expected)
    /\ \/ /\ Replaced(expected)
          /\ SameMutation(mid)
          /\ Started("replace", expected, mid, key, "again", "write")
       \/ /\ rev = expected
          /\ status \in {"enabled", "disabled"}
          /\ Started("replace", expected, mid, key, "first",
                     CleansFirst(expected, "write"))
       \/ /\ ~(Replaced(expected) /\ SameMutation(mid))
          /\ ~(rev = expected /\ status \in {"enabled", "disabled"})
          /\ Answered("replace", expected, mid, key, "conflict")
    /\ UNCHANGED <<row, vault>>

\* POST connections/:id/disable.
Disable(expected, key) ==
    /\ Sends(expected)
    /\ \/ /\ rev = expected + 1
          /\ status = "disabled"
          /\ Started("disable", expected, NoMutation, key, "again", "drop")
       \/ /\ rev = expected
          /\ status = "enabled"
          /\ Started("disable", expected, NoMutation, key, "first",
                     CleansFirst(expected, "commit"))
       \/ /\ ~(rev = expected + 1 /\ status = "disabled")
          /\ ~(rev = expected /\ status = "enabled")
          /\ Answered("disable", expected, NoMutation, key, "conflict")
    /\ UNCHANGED <<row, vault>>

\* DELETE connections/:id.  Naming the deleted revision itself is answered
\* with success and touches nothing.
Delete(expected, key) ==
    /\ Sends(expected)
    /\ \/ /\ rev = expected + 1
          /\ status = "deleted"
          /\ Started("delete", expected, NoMutation, key, "again", "drop")
       \/ /\ rev = expected
          /\ status = "deleted"
          /\ Answered("delete", expected, NoMutation, key, "ok")
       \/ /\ rev = expected
          /\ status # "deleted"
          /\ Started("delete", expected, NoMutation, key, "first",
                     CleansFirst(expected, "commit"))
       \/ /\ rev # expected
          /\ ~(rev = expected + 1 /\ status = "deleted")
          /\ Answered("delete", expected, NoMutation, key, "conflict")
    /\ UNCHANGED <<row, vault>>

Request ==
    \E key \in Keys :
       \/ Create(key)
       \/ \E expected \in 1 .. MaxRev - 1 :
             \/ \E mid \in Mutations : Replace(expected, mid, key)
             \/ Disable(expected, key)
             \/ Delete(expected, key)

-----------------------------------------------------------------------------
(* The steps of the mutation under way *)

Proceed(at) == op' = [op EXCEPT !.at = at]
Reply(reply) == op' = [op EXCEPT !.at = "idle", !.reply = reply]

\* The revision the mutation makes, or finds made by an earlier attempt.
Target == op.expected + 1

\* Creating again: a stored secret is not overwritten.
Probe ==
    /\ op.at = "probe"
    /\ \/ vault[1] # Absent /\ Reply("conflict")
       \/ vault[1] = Absent /\ Proceed("write")
    /\ UNCHANGED <<row, vault>>

\* deleteCredential of the revision before the expected one.
Predrop ==
    /\ op.at = "predrop"
    /\ vault' = [vault EXCEPT ![op.expected - 1] = Absent]
    /\ Proceed(IF op.kind = "replace" THEN "write" ELSE "commit")
    /\ UNCHANGED row

\* Plausible bug: the secret and the mutation's id are exchanged.
StoresMutation == [vault EXCEPT ![Target] = Whole(op.mid, op.key)]

\* What writeCredential leaves under the target: put and replace both end with
\* the submitted secret, whatever was there.
Stored == [vault EXCEPT ![Target] = Whole(op.key, op.mid)]

\* writeCredential; the last step of a repaired creation.
Write ==
    /\ op.at = "write"
    /\ vault' = Stored
    /\ \/ op.attempt = "first" /\ Proceed("commit")
       \/ op.attempt = "again" /\ op.kind = "create" /\ Reply("ok")
       \/ op.attempt = "again" /\ op.kind = "replace" /\ Proceed("drop")
    /\ UNCHANGED row

\* createConnectionProfile, reviseConnectionProfile, disableConnectionProfile
\* and deleteConnectionProfile: the row of the next revision.
Commit ==
    /\ op.at = "commit"
    /\ rev' = Target
    /\ status' = CASE op.kind = "disable" -> "disabled"
                   [] op.kind = "delete" -> "deleted"
                   [] OTHER -> "enabled"
    /\ mutation' = op.mid
    /\ \/ op.kind = "create" /\ Reply("ok")
       \/ op.kind # "create" /\ Proceed("drop")
    /\ UNCHANGED vault

\* Plausible bug: the reference of the revision just made is deleted.
SupersedesNew == op.expected + 1

\* The revision deleteCredential removes last.
Superseded == op.expected

\* deleteCredential of the revision left behind, then the answer.
Drop ==
    /\ op.at = "drop"
    /\ vault' = [vault EXCEPT ![Superseded] = Absent]
    /\ Reply("ok")
    /\ UNCHANGED row

-----------------------------------------------------------------------------
(* Failures *)

\* An await throws with no effect, the database refuses the row, or the
\* process ends: the client has no answer, or 503.
Abandon ==
    /\ op.at # "idle"
    /\ Reply("failed")
    /\ UNCHANGED <<row, vault>>

\* The helper was killed after the keychain took the secret, or the file was
\* truncated or created and not filled.
WriteUnconfirmed ==
    /\ op.at = "write"
    /\ \/ vault' = Stored
       \/ vault' = [vault EXCEPT ![Target] = Torn]
    /\ Reply("failed")
    /\ UNCHANGED row

\* The keychain removed the secret and the helper did not say so in time.
DropUnconfirmed ==
    /\ \/ op.at = "predrop" /\ vault' = [vault EXCEPT ![op.expected - 1] = Absent]
       \/ op.at = "drop" /\ vault' = [vault EXCEPT ![Superseded] = Absent]
    /\ Reply("failed")
    /\ UNCHANGED row

\* External: the user removes the item from the keychain, between requests.
StoreLoses ==
    /\ op.at = "idle"
    /\ \E r \in Revisions :
          vault[r] # Absent /\ vault' = [vault EXCEPT ![r] = Absent]
    /\ UNCHANGED <<row, op>>

Next ==
    \/ Request
    \/ Probe \/ Predrop \/ Write \/ Commit \/ Drop
    \/ Abandon \/ WriteUnconfirmed \/ DropUnconfirmed
    \/ StoreLoses

Spec == Init /\ [][Next]_vars

\* A client repeats what failed, and a step retried for ever succeeds once.
Fairness ==
    /\ WF_vars(op.reply = "failed" /\ Request)
    /\ SF_vars(Probe) /\ SF_vars(Predrop) /\ SF_vars(Write)
    /\ SF_vars(Commit) /\ SF_vars(Drop)

FairSpec == Spec /\ Fairness
-----------------------------------------------------------------------------
(* What a client and the owner of the keys rely on *)

Holds(r) == vault[r] # Absent

\* However many requests fail, at any step and in any order, the store holds
\* secrets of at most two neighbouring revisions, and one of the two is the
\* current one: residue does not pile up.
ResidueBounded ==
    /\ \A r \in Revisions : Holds(r) => r <= rev + 1 /\ rev <= r + 1
    /\ \A r, s \in Revisions : Holds(r) /\ Holds(s) => r <= s + 1

\* The secret stored for an enabled connection was submitted by the request
\* that made its row: of two replacements of one revision, the one that loses
\* never leaves its key behind the winner's row.
SecretMatchesMutation ==
    status = "enabled" /\ vault[rev].kind = "whole" => vault[rev].by = mutation

\* Row and store fit each other after any failure: residue stays next to the
\* current revision and a stored secret belongs to the row that names it (the
\* create, replace, disable and delete routes).
StoreFitsRow == ResidueBounded /\ SecretMatchesMutation

Usable == status = "enabled" /\ vault[rev].kind = "whole"

\* An enabled connection keeps a usable secret through every mutation, failed
\* ones included, until it is disabled or deleted, a write over that secret
\* itself fails, or the store loses it.
SecretKept ==
    [][Usable /\ status' = "enabled" => Usable' \/ WriteUnconfirmed \/ StoreLoses]_vars

Succeeds == op.at # "idle" /\ op'.at = "idle" /\ op'.reply = "ok"

\* Success of create and replace means that the revision asked for is current
\* and enabled, and that the store holds the key of this very request.
AnsweredSecretStored ==
    [][Succeeds /\ op.kind \in {"create", "replace"} =>
          /\ rev' = Target /\ status' = "enabled"
          /\ vault'[Target] = Whole(op.key, op.mid)]_vars

\* Success of a mutation that worked through its steps means that no secret of
\* an earlier revision is left, whatever failed before it.
OldSecretsRevoked ==
    [][Succeeds => \A r \in Revisions : r < rev' => vault'[r] = Absent]_vars

\* What a step of a mutation may never do: take a usable secret from an enabled
\* connection, answer with success for a key it did not store, or answer with
\* success and leave an old secret (the replace route and its cleanup).
MutationsSound == SecretKept /\ AnsweredSecretStored /\ OldSecretsRevoked

\* Nothing but the request that failed is sent after it.
Repeats ==
    op.at = "idle" /\ op.reply = "failed" =>
        op'.kind = op.kind /\ op'.expected = op.expected /\ op'.mid = op.mid

\* A replace, disable or delete that failed can be repeated: the retry is
\* recognised by the row it made, never refused as a conflict, and does the
\* cleanup that is missing.  Once clients do nothing but repeat what failed it
\* is answered with success.
RetryFinishes ==
    /\ [][op.at = "idle" /\ op.reply = "failed" /\ op.kind # "create" /\ Repeats =>
            op'.reply # "conflict"]_vars
    /\ <>[][Repeats]_vars =>
          <>[](op.reply = "failed" /\ op.kind # "create" => <>(op.reply = "ok"))

\* "disable and delete retries finish cleanup": a delete that succeeded leaves
\* no secret of the connection in the store.
DeletedLeavesNoSecret ==
    op.at = "idle" /\ op.reply = "ok" /\ op.kind = "delete" =>
       \A r \in Revisions : vault[r] = Absent

-----------------------------------------------------------------------------
(* The invariant the proofs rest on: what the row and the store are known  *)
(* to be at every await of a mutation.                                     *)

\* Only create makes the first revision, and only the first.
RowShape ==
    /\ rev = 0 <=> status = "none"
    /\ rev = 1 => status = "enabled" /\ mutation = NoMutation

RequestShape ==
    /\ op.kind = "create" => op.expected = 0 /\ op.mid = NoMutation
    /\ op.kind # "create" => op.expected >= 1

\* A first attempt still finds the row it read; a retry finds the row the
\* earlier attempt made.
Serialised ==
    /\ op.at \in {"predrop", "commit"} => op.attempt = "first"
    /\ op.at \in {"probe"} => op.attempt = "again" /\ op.kind = "create"
    /\ op.at = "predrop" => op.expected > 1
    /\ op.at \in {"predrop", "drop"} => op.kind # "create"
    /\ op.at = "write" => op.kind \in {"create", "replace"}
    /\ op.at \in {"predrop", "write", "commit"} /\ op.attempt = "first" => rev = op.expected
    /\ op.at \in {"probe", "write"} /\ op.attempt = "again" =>
          rev = Target /\ status = "enabled" /\ mutation = op.mid
    /\ op.at = "drop" => rev = Target
    /\ op.at = "drop" /\ op.kind = "replace" => status = "enabled"

\* Before a row is made the revision two behind it is gone, and the secret the
\* row will name is there.
Prepared ==
    /\ op.at \in {"write", "commit"} /\ op.attempt = "first" /\ op.expected > 1 =>
          vault[op.expected - 1] = Absent
    /\ op.at = "commit" /\ op.kind \in {"create", "replace"} =>
          vault[Target] = Whole(op.key, op.mid)
    /\ op.at = "drop" /\ op.kind = "replace" =>
          vault[Target] = Whole(op.key, op.mid)

CredInv ==
    /\ TypeOK
    /\ RowShape
    /\ RequestShape
    /\ Serialised
    /\ Prepared
    /\ ResidueBounded
    /\ SecretMatchesMutation
=============================================================================
