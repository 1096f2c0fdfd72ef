-------------------------- MODULE PhoneCredentials --------------------------
(* The provider key of the iPhone application.  Two stores that share no   *)
(* transaction hold it: SQLite keeps one credential_revisions row per      *)
(* revision of the connection profile, the Keychain keeps the key itself   *)
(* with the mutation id it was saved under.  The native lifecycle keeps    *)
(* the two in step through tombstones, a recheck after the save sheet and  *)
(* a lazy reconciliation; the page drives it with two flows, "save         *)
(* provider" and "remove credential", that await one bridge call after     *)
(* another.                                                                *)
(*                                                                         *)
(* A native operation runs under one lock.  What it does is a sequence of  *)
(* effects, computed from what it read when it took the lock: the process  *)
(* may be killed between two of them and each may fail.                    *)
EXTENDS Naturals, Sequences, SequencesExt

CONSTANTS MaxRevision,  \* revisions the profile can have in one installation
          MaxMutations, \* save reservations over all installations
          MaxFaults,    \* failing Keychain or SQLite effects, and foreign Keychain changes
          MaxStops      \* kills, reinstallations, reloads and closings of the database

\* What the constants are; the modules that instantiate this one assume it.
BoundsAssumption ==
    /\ MaxRevision \in Nat \ {0}
    /\ MaxMutations \in Nat \ {0}
    /\ MaxFaults \in Nat
    /\ MaxStops \in Nat

VARIABLES
    rows,       \* credential_revisions: rows[r] is revision r of the profile
    item,       \* Keychain: the mutation id stored under each canonical reference
    selected,   \* iphone_provider_selection: a revision, or 0
    room,       \* inference mode of current_room
    process,    \* "off", or the database handle "closed" / "open"
    booted,     \* the page has had its database.open answered
    reconciled, \* credentialsReconciled
    holder,     \* the operation that holds serializationLock
    work,       \* the effects it still has to apply
    sheet,      \* the native secure-text alert
    save,       \* saveProviderSetup of the page
    removal,    \* executeCredentialRemoval of the page
    target,     \* providerRemovalTarget of the page
    said,       \* mutations the page displayed as removed
    minted,     \* mutation ids handed out so far
    faults, stops

durable == <<rows, item, selected, room>>

page == <<save, removal, target>>

counters == <<said, minted, faults, stops>>

vars == <<durable, process, booted, reconciled, holder, work, sheet, page, counters>>

Revisions == 1..MaxRevision

States == {"credential_pending", "ready", "delete_pending", "missing"}

\* A Keychain item whose metadata names no reservation of this application.
Foreign == MaxMutations + 1

Nobody == [op |-> "none", for |-> "none", then |-> "none", rev |-> 0, mutation |-> 0]

NoSheet == [rev |-> 0, mutation |-> 0, tapped |-> FALSE]

Resting == [step |-> "idle", rev |-> 0, mutation |-> 0, ask |-> FALSE]

NoTarget == [rev |-> 0, mutation |-> 0]

Init ==
    /\ rows = <<>> /\ item = [r \in Revisions |-> 0] /\ selected = 0 /\ room = "none"
    /\ process = "off" /\ booted = FALSE /\ reconciled = FALSE
    /\ holder = Nobody /\ work = <<>> /\ sheet = NoSheet
    /\ save = Resting /\ removal = Resting /\ target = NoTarget
    /\ said = {} /\ minted = 0 /\ faults = 0 /\ stops = 0

-----------------------------------------------------------------------------
(* Effects of native operations.                                           *)

\* SecurityCredentialStore.delete, which succeeds when there is no item.
Forget(r) == [kind |-> "forget", rev |-> r, to |-> "missing"]

\* SecurityCredentialStore.write, with the metadata of the reservation.
Store(r) == [kind |-> "store", rev |-> r, to |-> "ready"]

MarkReady(r) == [kind |-> "mark", rev |-> r, to |-> "ready"]

\* Of a tombstoned row, and of a row that was ready.
MarkMissing(r) == [kind |-> "mark", rev |-> r, to |-> "missing"]

MarkUnavailable(r) == [kind |-> "mark", rev |-> r, to |-> "missing"]

\* The tombstone transaction of beginCredentialDelete and its trigger.
Bury(r) == [kind |-> "bury", rev |-> r, to |-> "delete_pending"]

Locked == holder # Nobody

\* A provider or credential call is served once it holds the lock, finds the
\* database open and reconciled and the current room not a demonstration.
Serves == ~Locked /\ process = "open" /\ room # "demo" /\ reconciled

Refuses == ~Locked /\ (process # "open" \/ room = "demo")

\* credentialReservation: only the latest revision has one.
Reserved(r) == r = Len(rows) /\ r # 0

\* exactReservation: the reservation has the mutation id of the request.
Exact(r, mutation) == Reserved(r) /\ rows[r].mutation = mutation

Writable(r) == rows[r].state = "credential_pending" /\ ~rows[r].tombstoned

Matches(r) == item[r] = rows[r].mutation

Status(r) ==
    IF ~Reserved(r) THEN "missing"
    ELSE IF rows[r].tombstoned \/ rows[r].state = "delete_pending"
           THEN IF Matches(r) THEN "delete_pending" ELSE "missing"
    ELSE IF rows[r].state = "ready" THEN IF Matches(r) THEN "ready" ELSE "missing"
    ELSE IF rows[r].state = "missing" THEN "missing"
    ELSE "pending"

\* inventory: the items no latest revision accounts for, in any order.
Orphans == {r \in Revisions : item[r] # 0 /\ ~Reserved(r)}

\* credentialReservationsForReconciliation: the latest revision of the profile.
Reconcilable == {r \in Revisions : Reserved(r)}

\* What reconcileAtDatabaseOpen does to the latest revision.
Settling ==
    IF Reconcilable = {} THEN <<>>
    ELSE LET r == CHOOSE r \in Reconcilable : TRUE IN
         IF rows[r].tombstoned \/ rows[r].state = "delete_pending"
           THEN <<Forget(r), MarkMissing(r)>>
         ELSE
         CASE rows[r].state = "missing" -> <<Forget(r)>>
           [] rows[r].state = "credential_pending" ->
                IF Matches(r) THEN <<MarkReady(r)>>
                ELSE IF item[r] = 0 THEN <<>> ELSE <<Forget(r)>>
           [] rows[r].state = "ready" ->
                IF Matches(r) THEN <<>>
                ELSE IF item[r] = 0 THEN <<MarkUnavailable(r)>>
                ELSE <<Forget(r), MarkUnavailable(r)>>
           [] OTHER -> <<>>

\* supersededCredentialReferences: every earlier revision, in order.
Superseded(r) == [e \in 1..(r - 1) |-> Forget(e)]

\* prepareSave after the guards, and what it answers.
Preparing(r) ==
    Superseded(r) \o
      (IF item[r] = 0 THEN <<>> ELSE IF Matches(r) THEN <<MarkReady(r)>> ELSE <<Forget(r)>>)

Prepared(r) == IF item[r] = 0 THEN "present" ELSE IF Matches(r) THEN "ready" ELSE "reject"

\* Mutant: the row is marked before the key is written.
CompletingMarkedFirst(r) ==
    IF item[r] = 0 THEN <<MarkReady(r), Store(r)>>
    ELSE IF Matches(r) THEN <<MarkReady(r)>> ELSE <<Forget(r)>>

\* completeSave after the guards.
Completing(r) ==
    IF item[r] = 0 THEN <<Store(r), MarkReady(r)>>
    ELSE IF Matches(r) THEN <<MarkReady(r)>> ELSE <<Forget(r)>>

\* delete: the tombstone first, unless a retry finds it, then the Keychain, then the row.
Deleting(r) ==
    (IF rows[r].tombstoned THEN <<>> ELSE <<Bury(r)>>) \o <<Forget(r), MarkMissing(r)>>

-----------------------------------------------------------------------------
(* The lock holder.                                                        *)

Take(op, for, then, request, effects) ==
    /\ holder' = [op |-> op, for |-> for, then |-> then, rev |-> request.rev, mutation |-> request.mutation]
    /\ work' = effects

\* Whose bridge call the flow is waiting for.
Waiting(flow) ==
    \/ flow = "boot" /\ booted /\ room = "provider"
    \/ flow = "save" /\ save.step \notin {"idle", "asked"}
    \/ flow = "removal" /\ removal.step # "idle"
    \/ flow = "sheet" /\ sheet.tapped

\* A failed or refused call ends the flow that made it.
Ends(flow) ==
    /\ save' = IF flow = "save" \/ (flow = "sheet" /\ save.step = "asked") THEN Resting ELSE save
    /\ removal' = IF flow = "removal" THEN Resting ELSE removal
    /\ sheet' = IF flow = "sheet" THEN NoSheet ELSE sheet

\* withReconciledDatabase, before the first served call since database.open.
Reconcile(flow, order) ==
    /\ ~Locked /\ process = "open" /\ room # "demo" /\ ~reconciled
    /\ Waiting(flow)
    /\ Take("reconcile", flow, "none", NoTarget, [i \in DOMAIN order |-> Forget(order[i])] \o Settling)
    /\ UNCHANGED <<durable, process, booted, reconciled, sheet, page, counters>>

Refuse(flow) ==
    /\ Refuses /\ flow # "boot" /\ Waiting(flow)
    /\ Ends(flow)
    /\ UNCHANGED <<durable, process, booted, reconciled, holder, work, target, counters>>

\* One effect succeeds.
Effect ==
    /\ Locked /\ work # <<>>
    /\ LET e == Head(work) IN
         /\ rows' = CASE e.kind = "mark" -> [rows EXCEPT ![e.rev].state = e.to]
                      [] e.kind = "bury" -> [rows EXCEPT ![e.rev].state = e.to, ![e.rev].tombstoned = TRUE]
                      [] OTHER -> rows
         /\ item' = CASE e.kind = "forget" -> [item EXCEPT ![e.rev] = 0]
                      [] e.kind = "store" -> [item EXCEPT ![e.rev] = rows[e.rev].mutation]
                      [] OTHER -> item
    /\ work' = Tail(work)
    /\ UNCHANGED <<selected, room, process, booted, reconciled, holder, sheet, page, counters>>

\* One effect fails: the rest of the operation is not done.
EffectFails ==
    /\ Locked /\ work # <<>> /\ faults < MaxFaults
    /\ faults' = faults + 1
    /\ holder' = Nobody /\ work' = <<>>
    /\ Ends(holder.for)
    /\ UNCHANGED <<durable, process, booted, reconciled, target, said, minted, stops>>

\* showProviderSetup and the end of a save: what "remove" would remove.
Removable ==
    IF Reserved(selected) /\ Status(selected) \in {"ready", "delete_pending"}
      THEN [rev |-> selected, mutation |-> rows[selected].mutation] ELSE NoTarget

Finish ==
    /\ Locked /\ work = <<>>
    /\ holder' = Nobody
    /\ reconciled' = (reconciled \/ holder.op = "reconcile")
    /\ CASE holder.op = "reconcile" -> UNCHANGED <<sheet, save, removal, target>>
         [] holder.op = "prepare" /\ holder.then = "present" /\ sheet = NoSheet ->
              /\ sheet' = [rev |-> holder.rev, mutation |-> holder.mutation, tapped |-> FALSE]
              /\ save' = IF holder.for = "save" THEN [save EXCEPT !.step = "asked"] ELSE save
              /\ UNCHANGED <<removal, target>>
         [] holder.op = "delete" ->
              /\ removal' = IF holder.for = "removal" THEN [removal EXCEPT !.step = "status"] ELSE removal
              /\ UNCHANGED <<sheet, save, target>>
         [] OTHER -> Ends(holder.for)
                     /\ target' = IF booted /\ holder.then = "ready" THEN Removable ELSE target
    /\ UNCHANGED <<durable, process, booted, work, counters>>

-----------------------------------------------------------------------------
(* The page: save.                                                         *)

\* The provider form is reachable while no alert covers the page, and its
\* button is disabled during a removal.
StartSave ==
    /\ booted /\ sheet = NoSheet /\ save = Resting /\ removal = Resting
    /\ save' = [Resting EXCEPT !.step = "read"]
    /\ UNCHANGED <<durable, process, booted, reconciled, holder, work, sheet, removal, target, counters>>

NeedsRevision ==
    rows = <<>> \/ rows[Len(rows)].tombstoned \/ rows[Len(rows)].state \in {"missing", "delete_pending"}

SaveReads ==
    /\ Serves /\ save.step = "read"
    /\ IF NeedsRevision
         THEN /\ Len(rows) < MaxRevision /\ minted < MaxMutations
              /\ minted' = minted + 1
              /\ save' = [step |-> "reserve", rev |-> Len(rows) + 1, mutation |-> minted + 1, ask |-> TRUE]
         ELSE /\ save' = [step |-> "consent", rev |-> Len(rows), mutation |-> rows[Len(rows)].mutation,
                          ask |-> rows[Len(rows)].state = "credential_pending"]
              /\ UNCHANGED minted
    /\ UNCHANGED <<durable, process, booted, reconciled, holder, work, sheet, removal, target, said, faults, stops>>

\* One batch inserts the profile revision and the reservation; the triggers
\* accept only the next revision.
SaveReserves ==
    /\ Serves /\ save.step = "reserve"
    /\ IF save.rev = Len(rows) + 1
         THEN /\ rows' = Append(rows, [mutation |-> save.mutation, state |-> "credential_pending", tombstoned |-> FALSE])
              /\ save' = [save EXCEPT !.step = "consent"]
         ELSE UNCHANGED rows /\ save' = Resting
    /\ UNCHANGED <<item, selected, room, process, booted, reconciled, holder, work, sheet, removal, target, counters>>

\* saveProviderSelectionAndConsent: the selected revision is current and alive.
SaveConsents ==
    /\ Serves /\ save.step = "consent"
    /\ LET accepted == Reserved(save.rev) /\ ~rows[save.rev].tombstoned IN
         /\ selected' = IF accepted THEN save.rev ELSE selected
         /\ save' = IF accepted /\ save.ask THEN [save EXCEPT !.step = "sheet"] ELSE Resting
         /\ target' = IF accepted /\ ~save.ask /\ Status(save.rev) = "ready"
                        THEN [rev |-> save.rev, mutation |-> save.mutation] ELSE target
    /\ UNCHANGED <<rows, item, room, process, booted, reconciled, holder, work, sheet, removal, counters>>

\* presentSaveSheetOnMain up to the alert.
PrepareSave ==
    /\ Serves /\ save.step = "sheet"
    /\ IF Exact(save.rev, save.mutation) /\ Writable(save.rev)
         THEN Take("prepare", "save", Prepared(save.rev), save, Preparing(save.rev)) /\ UNCHANGED save
         ELSE save' = Resting /\ UNCHANGED <<holder, work>>
    /\ UNCHANGED <<durable, process, booted, reconciled, sheet, removal, target, counters>>

\* The user taps Save, or cancels.
TapSave ==
    /\ sheet # NoSheet /\ ~sheet.tapped /\ process # "off"
    /\ sheet' = [sheet EXCEPT !.tapped = TRUE]
    /\ UNCHANGED <<durable, process, booted, reconciled, holder, work, page, counters>>

CancelSave ==
    /\ sheet # NoSheet /\ ~sheet.tapped /\ process # "off"
    /\ Ends("sheet")
    /\ UNCHANGED <<durable, process, booted, reconciled, holder, work, target, counters>>

CompleteSave ==
    /\ Serves /\ sheet.tapped
    /\ IF Exact(sheet.rev, sheet.mutation) /\ Writable(sheet.rev)
         THEN /\ Take("complete", "sheet", IF item[sheet.rev] \in {0, sheet.mutation} THEN "ready" ELSE "reject",
                      sheet, Completing(sheet.rev))
              /\ UNCHANGED <<sheet, save, removal>>
         ELSE Ends("sheet") /\ UNCHANGED <<holder, work>>
    /\ UNCHANGED <<durable, process, booted, reconciled, target, counters>>

-----------------------------------------------------------------------------
(* The page: removal.                                                      *)

OpenSetup ==
    /\ Serves /\ booted /\ sheet = NoSheet
    /\ target' = Removable
    /\ UNCHANGED <<durable, process, booted, reconciled, holder, work, sheet, save, removal, counters>>

\* Only another removal disables the remove and retry buttons.
StartRemoval ==
    /\ booted /\ sheet = NoSheet /\ removal = Resting /\ target # NoTarget
    /\ removal' = [step |-> "read", rev |-> target.rev, mutation |-> target.mutation, ask |-> FALSE]
    /\ UNCHANGED <<durable, process, booted, reconciled, holder, work, sheet, save, target, counters>>

RemovalReads ==
    /\ Serves /\ removal.step = "read"
    /\ removal' = IF Exact(removal.rev, removal.mutation) /\ rows[removal.rev].state \in {"ready", "delete_pending"}
                    THEN [removal EXCEPT !.step = "delete"] ELSE Resting
    /\ UNCHANGED <<durable, process, booted, reconciled, holder, work, sheet, save, target, counters>>

\* credential.delete: without a reservation it answers "missing" at once, and
\* the lifecycle trigger aborts the tombstone of a row that is "missing".
DeleteCredential ==
    /\ Serves /\ removal.step = "delete"
    /\ IF ~Reserved(removal.rev)
         THEN removal' = [removal EXCEPT !.step = "status"] /\ UNCHANGED <<holder, work>>
         ELSE IF ~rows[removal.rev].tombstoned /\ rows[removal.rev].state = "missing"
         THEN removal' = Resting /\ UNCHANGED <<holder, work>>
         ELSE Take("delete", "removal", "none", removal, Deleting(removal.rev)) /\ UNCHANGED removal
    /\ UNCHANGED <<durable, process, booted, reconciled, sheet, save, target, counters>>

\* credential.status after the deletion: "removed" is displayed for "missing" only.
RemovalReadsBack ==
    /\ Serves /\ removal.step = "status"
    /\ LET removed == Status(removal.rev) = "missing" IN
         /\ said' = IF removed THEN said \cup {removal.mutation} ELSE said
         /\ target' = IF removed THEN NoTarget ELSE target
    /\ removal' = Resting
    /\ UNCHANGED <<durable, process, booted, reconciled, holder, work, sheet, save, minted, faults, stops>>

-----------------------------------------------------------------------------
(* The application and its surroundings.                                   *)

\* current_room is selected with a local statement.
SelectRoom(mode) ==
    /\ ~Locked /\ process = "open" /\ booted /\ sheet = NoSheet /\ mode # room
    /\ room' = mode
    /\ UNCHANGED <<rows, item, selected, process, booted, reconciled, holder, work, sheet, page, counters>>

Launch ==
    /\ process = "off"
    /\ process' = "closed"
    /\ UNCHANGED <<durable, booted, reconciled, holder, work, sheet, page, counters>>

\* database.open, sent by a booting page and when the page finds it closed.
OpenDatabase ==
    /\ ~Locked /\ process # "off" /\ (~booted \/ process = "closed")
    /\ process' = "open" /\ booted' = TRUE /\ reconciled' = FALSE
    /\ UNCHANGED <<durable, holder, work, sheet, page, counters>>

Stop == stops < MaxStops /\ stops' = stops + 1

\* The scene resigns, or protected data becomes unavailable.
CloseDatabase ==
    /\ ~Locked /\ process = "open" /\ Stop
    /\ process' = "closed" /\ reconciled' = FALSE
    /\ UNCHANGED <<durable, booted, holder, work, sheet, page, said, minted, faults>>

\* The web view reloads: the native side, an open alert included, lives on.
Reload ==
    /\ booted /\ Stop
    /\ booted' = FALSE /\ save' = Resting /\ removal' = Resting /\ target' = NoTarget
    /\ holder' = [holder EXCEPT !.for = IF @ = "sheet" THEN @ ELSE "none"]
    /\ UNCHANGED <<durable, process, reconciled, work, sheet, said, minted, faults>>

Dead ==
    /\ process' = "off" /\ booted' = FALSE /\ reconciled' = FALSE
    /\ holder' = Nobody /\ work' = <<>> /\ sheet' = NoSheet
    /\ save' = Resting /\ removal' = Resting /\ target' = NoTarget

Kill ==
    /\ process # "off" /\ Stop
    /\ Dead
    /\ UNCHANGED <<durable, said, minted, faults>>

\* The application is deleted and installed again: the Keychain survives.
Reinstall ==
    /\ rows # <<>> /\ Stop
    /\ Dead
    /\ rows' = <<>> /\ selected' = 0 /\ room' = "none"
    /\ UNCHANGED <<item, said, minted, faults>>

\* While the application is not running an item is lost, or one appears in
\* its place that the application did not write.
Disturb(r, found) ==
    /\ process = "off" /\ item[r] # 0 /\ item[r] # found /\ faults < MaxFaults
    /\ item' = [item EXCEPT ![r] = found]
    /\ faults' = faults + 1
    /\ UNCHANGED <<rows, selected, room, process, booted, reconciled, holder, work, sheet, page, said, minted, stops>>

Reconciles(flow) == \E order \in SetToSeqs(Orphans) : Reconcile(flow, order)

Next ==
    \/ \E flow \in {"boot", "save", "removal", "sheet"} :
         \/ Reconciles(flow)
         \/ Refuse(flow)
    \/ Effect \/ EffectFails \/ Finish
    \/ StartSave \/ SaveReads \/ SaveReserves \/ SaveConsents \/ PrepareSave
    \/ TapSave \/ CancelSave \/ CompleteSave
    \/ OpenSetup \/ StartRemoval \/ RemovalReads \/ DeleteCredential \/ RemovalReadsBack
    \/ \E mode \in {"demo", "provider"} : SelectRoom(mode)
    \/ Launch \/ OpenDatabase \/ CloseDatabase \/ Reload \/ Kill \/ Reinstall
    \/ \E r \in Revisions, found \in {0, Foreign} : Disturb(r, found)

\* The user comes back to the application: it is launched, its page boots and
\* reads the provider's readiness, which reconciles in a provider room.  An
\* operation that holds the lock goes on.
Fairness ==
    /\ WF_vars(Launch) /\ WF_vars(OpenDatabase)
    /\ WF_vars(Reconciles("boot"))
    /\ WF_vars(Effect) /\ WF_vars(Finish)

Spec == Init /\ [][Next]_vars

LiveSpec == Spec /\ Fairness

-----------------------------------------------------------------------------
(* Properties.                                                             *)

TypeOK ==
    /\ Len(rows) <= MaxRevision
    /\ \A r \in 1..Len(rows) : rows[r] \in [mutation : 1..MaxMutations, state : States, tombstoned : BOOLEAN]
    /\ item \in [Revisions -> 0..Foreign]
    /\ selected \in 0..Len(rows)
    /\ room \in {"none", "demo", "provider"}
    /\ process \in {"off", "closed", "open"}
    /\ booted \in BOOLEAN /\ reconciled \in BOOLEAN
    /\ work # <<>> => Locked
    /\ save.step \in {"idle", "read", "reserve", "consent", "sheet", "asked"}
    /\ removal.step \in {"idle", "read", "delete", "status"}
    /\ said \subseteq 1..MaxMutations

\* A provider call finds the key its reservation promises: once the stores
\* are reconciled a revision is "ready" only while the Keychain holds the
\* item of its own mutation, wherever the operation, a kill or a failing
\* effect cut the last save or removal off.
ReadyHasKey ==
    reconciled /\ rows # <<>> /\ rows[Len(rows)].state = "ready" => Matches(Len(rows))

\* A removal that SQLite records as finished is finished: no Keychain item is
\* left of a tombstoned revision that is "missing".
RemovedIsGone ==
    \A r \in 1..Len(rows) :
      rows[r].tombstoned /\ rows[r].state = "missing" => item[r] # rows[r].mutation

\* At most one key of the profile: when the user is asked for a new key, and
\* while one is ready for use, no item of another revision is left, not even
\* of an earlier installation or of a removal that failed in the Keychain.
OneKeyOnly ==
    reconciled /\ (sheet # NoSheet \/ (rows # <<>> /\ rows[Len(rows)].state = "ready"))
      => \A r \in Revisions : item[r] # 0 => r = Len(rows)

KeepsTombstones ==
    \A r \in 1..Len(rows) :
      rows[r].tombstoned /\ rows' # <<>> =>
        /\ rows'[r].tombstoned /\ rows'[r].mutation = rows[r].mutation
        /\ rows'[r].state \in {rows[r].state, "missing"}
        /\ item'[r] \in {item[r], 0, Foreign}

\* No replay, reconciliation or late save brings a removed key back into use:
\* a tombstoned revision only goes from "delete_pending" to "missing", and
\* its Keychain item is never written again.
TombstoneIsFinal == [][KeepsTombstones]_vars

\* A removal cut off after its tombstone, by a kill or by a failing Keychain,
\* does not wait for the user to remember it: once the database was closed or
\* the process gone, the next provider room reconciles the key away.  Nothing
\* reconciles outside a provider room, and a reinstallation forgets the row.
RemovalCompletes ==
    \A r \in Revisions :
      (r <= Len(rows) /\ rows[r].tombstoned /\ item[r] = rows[r].mutation /\ ~reconciled)
        ~> (item[r] = 0 \/ item[r] = Foreign \/ room # "provider" \/ rows = <<>>)

\* "Removed" on the page means removed from the Keychain.
SaidIsGone == \A m \in said : \A r \in Revisions : item[r] # m

\* A fresh installation that has opened its database has no surviving key.
FreshInstallIsClean ==
    process = "open" /\ rows = <<>> => \A r \in Revisions : item[r] = 0

=============================================================================
