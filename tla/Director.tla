------------------------------ MODULE Director ------------------------------
(***************************************************************************)
(* The core Director, packages/core/src/director.ts (compiled to           *)
(* ios-web/director.js): it accepts events, drops the ones it has seen,    *)
(* picks at most one speaker, and is saved to a snapshot and restored from *)
(* it around every turn of the iPhone runtime.                             *)
(***************************************************************************)
EXTENDS RoomDecision, Sequences, FiniteSets

CONSTANTS
    Identities,    \* <<namespace, eventId>> pairs
    MaxTracked,    \* MAX_TRACKED_EVENT_IDENTITIES
    MaxAccepted    \* bound: accepted human events

\* What the constants are; MCDesktop, which instantiates this, assumes it.
DirectorConstants == MaxTracked \in Nat \ {0} /\ MaxAccepted \in Nat

VARIABLES
    muted,             \* #muted
    lastSelectedAt,    \* #lastSelectedAt, 0 for a persona without an entry
    seenOrder,         \* #seenOrder
    seen,              \* #seenByNamespace, flattened
    autonomousTurns,   \* #autonomousTurns
    accepted,          \* #acceptedHumanEventNumber
    fallbackIndex,     \* #fallbackIndex
    cancelled,         \* #cancelled
    decision,          \* what the last schedule returned
    age,               \* history: identities recorded since each identity was
    recent             \* history: speakers picked by scan, nothing in between

turn == <<lastSelectedAt, autonomousTurns, fallbackIndex>>
window == <<seenOrder, seen, age>>
vars == <<muted, lastSelectedAt, seenOrder, seen, autonomousTurns, accepted,
          fallbackIndex, cancelled, decision, age, recent>>

Reasons ==
    {"none", "selected", "directed", "cancelled", "unverified_event",
     "duplicate", "self_trigger_blocked", "deliberate_silence",
     "no_eligible_persona", "cooldown"}

\* The director's fields have the shapes the snapshot format declares; the
\* fallback index is a position of the roster.
TypeOK ==
    /\ muted \in SUBSET Personas
    /\ lastSelectedAt \in [Personas -> Nat]
    /\ seenOrder \in Seq(Identities)
    /\ seen \in SUBSET Identities
    /\ autonomousTurns \in Nat
    /\ accepted \in Nat
    /\ fallbackIndex \in Personas
    /\ cancelled \in BOOLEAN
    /\ decision \in [speaker : Personas \cup {Nobody}, reason : Reasons]
    /\ age \in [Identities -> 0 .. MaxTracked]
    /\ recent \in Seq(Personas)

Init ==
    /\ muted \in SUBSET Personas
    /\ lastSelectedAt = [p \in Personas |-> 0]
    /\ seenOrder = <<>>
    /\ seen = {}
    /\ autonomousTurns = 0
    /\ accepted = 0
    /\ fallbackIndex = 0
    /\ cancelled = FALSE
    /\ decision = [speaker |-> Nobody, reason |-> "none"]
    /\ age = [i \in Identities |-> MaxTracked]
    /\ recent = <<>>

-----------------------------------------------------------------------------
(* Helpers *)

Entries(order) == {order[i] : i \in DOMAIN order}

Decided(speaker, reason) ==
    decision' = [speaker |-> speaker, reason |-> reason]

\* Plausible bug: the oldest identity is forgotten one event too early.
EvictsAtLimit(order) == Len(order) >= MaxTracked

Evicts(order) == Len(order) > MaxTracked

\* Plausible bug: the oldest identity leaves the order and stays in the set.
ForgottenNothing(order) == {}

Forgotten(order) == {Head(order)}

\* #recordSeen: the identity enters, the oldest one leaves a full window.
RecordSeen(id) ==
    LET order == Append(seenOrder, id)
        all == seen \cup {id}
    IN  /\ seenOrder' = IF Evicts(order) THEN Tail(order) ELSE order
        /\ seen' = IF Evicts(order) THEN all \ Forgotten(order) ELSE all
        /\ age' = [i \in Identities |->
                      IF i = id THEN 0
                      ELSE IF age[i] < MaxTracked THEN age[i] + 1
                      ELSE MaxTracked]

Unmuted == Personas \ muted

\* ONE_EVENT_COOLDOWN has passed at the human event with this number.
Rested(p, number) ==
    lastSelectedAt[p] = 0 \/ number - lastSelectedAt[p] > 1

\* Plausible bug: every scan begins at the first persona.
FirstEligibleSpeaker(number) ==
    FirstFrom(0, {p \in Unmuted : Rested(p, number)})

\* #deterministicEligibleSpeaker
EligibleSpeaker(number) ==
    FirstFrom(fallbackIndex, {p \in Unmuted : Rested(p, number)})

Choice(number, target) ==
    IF target # Nobody THEN target
    ELSE IF \E p \in Unmuted : Unmuted = {p}
         THEN CHOOSE p \in Unmuted : Unmuted = {p}
    ELSE EligibleSpeaker(number)

\* The last N speakers of an undisturbed stretch.
Remember(speaker) ==
    LET longer == Append(recent, speaker)
    IN  IF Len(longer) > N THEN Tail(longer) ELSE longer

\* Plausible bug: a directed turn does not move the scan.
FallbackKeptWhenDirected(speaker, target) ==
    IF target # Nobody THEN fallbackIndex ELSE After(speaker)

FallbackAfter(speaker, target) == After(speaker)

-----------------------------------------------------------------------------
(* schedule.  A directed persona that is muted throws before anything else *)
(* is looked at, and changes nothing.                                      *)

Kinds == {"human", "nonhuman", "unverified"}

CallAllowed(target) == target \notin muted

\* Refused without being recorded, alike for whomever the call names.
ScheduleRefused(id, kind) ==
    /\ \/ cancelled /\ Decided(Nobody, "cancelled")
       \/ /\ ~ cancelled
          /\ kind = "unverified"
          /\ Decided(Nobody, "unverified_event")
       \/ /\ ~ cancelled
          /\ kind # "unverified"
          /\ id \in seen
          /\ Decided(Nobody, "duplicate")
    /\ UNCHANGED <<muted, turn, window, accepted, cancelled, recent>>

ScheduleNonHuman(id, target) ==
    /\ CallAllowed(target)
    /\ ~ cancelled
    /\ id \notin seen
    /\ RecordSeen(id)
    /\ Decided(Nobody, "self_trigger_blocked")
    /\ UNCHANGED <<muted, turn, accepted, cancelled, recent>>

Accept(id, target) ==
    /\ CallAllowed(target)
    /\ ~ cancelled
    /\ id \notin seen
    /\ accepted < MaxAccepted
    /\ RecordSeen(id)
    /\ accepted' = accepted + 1

SilenceReason(payload) ==
    CASE ~ payload.wants -> "deliberate_silence"
      [] payload.wants /\ Unmuted = {} -> "no_eligible_persona"
      [] OTHER -> "cooldown"

\* An accepted human event that nobody answers.
ScheduleSilence(id, payload) ==
    /\ Accept(id, payload.target)
    /\ \/ ~ payload.wants
       \/ Unmuted = {}
       \/ Choice(accepted + 1, payload.target) = Nobody
    /\ Decided(Nobody, SilenceReason(payload))
    /\ UNCHANGED <<muted, turn, cancelled, recent>>

\* An accepted human event that somebody answers.
ScheduleTurn(id, payload) ==
    LET speaker == Choice(accepted + 1, payload.target)
        directed == payload.target # Nobody
    IN  /\ Accept(id, payload.target)
        /\ payload.wants
        /\ Unmuted # {}
        /\ speaker # Nobody
        /\ lastSelectedAt' = [lastSelectedAt EXCEPT ![speaker] = accepted + 1]
        /\ fallbackIndex' = FallbackAfter(speaker, payload.target)
        /\ autonomousTurns' = autonomousTurns + 1
        /\ Decided(speaker, IF directed THEN "directed" ELSE "selected")
        /\ recent' = IF directed THEN <<>> ELSE Remember(speaker)
        /\ UNCHANGED <<muted, cancelled>>

-----------------------------------------------------------------------------
(* The other operations *)

SetMuted(persona, mute) ==
    /\ muted' = IF mute THEN muted \cup {persona} ELSE muted \ {persona}
    /\ recent' = IF muted' = muted THEN recent ELSE <<>>
    /\ UNCHANGED <<turn, window, accepted, cancelled, decision>>

Cancel ==
    /\ cancelled' = TRUE
    /\ UNCHANGED <<muted, turn, window, accepted, decision, recent>>

Selected == {p \in Personas : lastSelectedAt[p] # 0}

\* The persona selected last.
IsLatest(p) ==
    p \in Selected /\ \A q \in Selected : lastSelectedAt[q] <= lastSelectedAt[p]

\* What #restore demands of the selection history of a snapshot.
SelectionRestores ==
    /\ autonomousTurns <= accepted
    /\ \A p \in Selected : lastSelectedAt[p] <= accepted
    /\ \A p, q \in Selected :
          lastSelectedAt[p] = lastSelectedAt[q] => p = q
    /\ Cardinality(Selected) <= autonomousTurns
    /\ (autonomousTurns = 0) <=> (Selected = {})
    /\ autonomousTurns = 0 => fallbackIndex = 0
    /\ \A p \in Selected : IsLatest(p) =>
          /\ lastSelectedAt[p] >= autonomousTurns
          /\ fallbackIndex = After(p)

\* What #restore demands of the identities of a snapshot.
SeenRestores ==
    /\ Len(seenOrder) <= MaxTracked
    /\ Len(seenOrder) >= accepted \/ Len(seenOrder) >= MaxTracked
    /\ \A i, j \in DOMAIN seenOrder : seenOrder[i] = seenOrder[j] => i = j

\* snapshot, then Director.restore, then setMuted for each participant as the
\* room has it.
Reload(mutes) ==
    /\ SelectionRestores
    /\ SeenRestores
    /\ seen' = Entries(seenOrder)
    /\ muted' = mutes
    /\ recent' = IF mutes = muted THEN recent ELSE <<>>
    /\ UNCHANGED <<turn, seenOrder, age, accepted, cancelled, decision>>

Next ==
    \/ \E id \in Identities :
          \/ \E kind \in Kinds : ScheduleRefused(id, kind)
          \/ \E target \in Personas \cup {Nobody} : ScheduleNonHuman(id, target)
          \/ \E wants \in BOOLEAN, target \in Personas \cup {Nobody} :
                LET payload == [wants |-> wants, target |-> target]
                IN  ScheduleSilence(id, payload) \/ ScheduleTurn(id, payload)
    \/ \E persona \in Personas, mute \in BOOLEAN : SetMuted(persona, mute)
    \/ Cancel
    \/ \E mutes \in SUBSET Personas : Reload(mutes)

Spec == Init /\ [][Next]_vars

-----------------------------------------------------------------------------
(* Properties *)

\* Every state the director reaches can be saved and restored: no sequence of
\* events, mutes, directed turns and restores leads to a snapshot that
\* #restore rejects, which would leave an iPhone room unable to take turns.
SnapshotRestores == SelectionRestores /\ SeenRestores

\* The cooldown alone never silences a room: when two personas are unmuted
\* one of them has rested, so schedule never returns "cooldown".
CooldownNeverSilences == decision.reason # "cooldown"

\* The set used for the duplicate test and the order used for eviction
\* (#seenByNamespace and #seenOrder) never drift apart.
SeenAgrees == seen = Entries(seenOrder)

\* The director's state is always one it can go on from: it can be restored,
\* its two records of seen events agree, and its cooldown blocks nobody
\* (#restore, #recordSeen, #deterministicEligibleSpeaker).
DirectorSound == SnapshotRestores /\ SeenAgrees /\ CooldownNeverSilences

\* A step that takes this identity for a new one.
Records(id) ==
    /\ ~ cancelled /\ id \notin seen
    /\ \E wants \in BOOLEAN, target \in Personas \cup {Nobody} :
          LET payload == [wants |-> wants, target |-> target]
          IN  \/ ScheduleNonHuman(id, target)
              \/ ScheduleSilence(id, payload)
              \/ ScheduleTurn(id, payload)

\* An identity is accepted a second time only when MaxTracked other
\* identities were recorded since (the eviction of #recordSeen).
NewBeyondWindow == \A id \in Identities : Records(id) => age[id] = MaxTracked

DuplicatesOnlyBeyondWindow ==
    [][NewBeyondWindow]_vars

\* As long as nobody is muted, unmuted or addressed by name, no persona
\* speaks again before every unmuted persona has spoken
\* (#deterministicEligibleSpeaker and #fallbackIndex).
RoundRobin ==
    \A i, j \in DOMAIN recent : i < j /\ recent[i] = recent[j] =>
        Unmuted \subseteq {recent[k] : k \in i .. (j - 1)}

LastSpeaker ==
    IF Selected = {} THEN Nobody ELSE CHOOSE p \in Selected : IsLatest(p)

\* The director and the desktop room service (RoomService.#decide) choose the
\* same speaker from the same history, though the one keeps a map of all
\* selections and the other a last speaker and a count of human messages.
SameSpeaker ==
    \A target \in Personas \cup {Nobody}, id \in Identities :
        LET payload == [wants |-> TRUE, target |-> target]
        IN  ScheduleTurn(id, payload) \/ ScheduleSilence(id, payload) =>
               decision'.speaker =
                  Decide(LastSpeaker,
                         IF LastSpeaker = Nobody THEN accepted + 1
                         ELSE accepted + 1 - lastSelectedAt[LastSpeaker],
                         muted, payload)

AgreesWithRoomService ==
    [][SameSpeaker]_vars
=============================================================================
