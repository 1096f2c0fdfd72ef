---------------------------- MODULE RoomService ----------------------------
(***************************************************************************)
(* The message path of the desktop companion, src/runtime/room-service.ts: *)
(* several RoomService objects (processes or handles) share one SQLite     *)
(* database holding one room.  A request is admitted in one transaction,   *)
(* answered by a provider outside any transaction under a leased claim,    *)
(* and completed in a second transaction.  Pause, stop and mute fence the  *)
(* work in flight; services close, crash and restart; clients retry.       *)
(*                                                                         *)
(* Every database transaction is one action.  Everything a service does    *)
(* between two transactions is atomic (one JavaScript thread), but other   *)
(* services may run between any two transactions.                          *)
(***************************************************************************)
EXTENDS RoomDecision, Sequences, FiniteSets

CONSTANTS
    Services,      \* RoomService instances over the same database
    Requests,      \* request ids of messages
    Controls,      \* request ids of pause, resume, stop, mute and unmute
    Payloads,      \* what a message asks for
    Owners,        \* claim owners (random UUIDs)
    NoOwner,       \* claim_owner IS NULL
    Lease,         \* pendingWorkLeaseMs, in clock ticks
    MaxRevision,   \* bound: selection revision
    MaxProvider,   \* bound: provider binding revisions
    MaxOutages     \* bound: crashes and closes

ASSUME ConstantsAssumption ==
    /\ Payloads \subseteq Payload /\ Payloads # {}
    /\ NoOwner \notin Owners
    /\ Lease \in Nat \ {0}
    /\ MaxRevision \in Nat
    /\ MaxProvider \in Nat
    /\ MaxOutages \in Nat

VARIABLES
    status,        \* rooms.status
    generation,    \* rooms.generation
    muted,         \* personas with participants.muted = 1
    events,        \* the room's event log; the position is the sequence
    director,      \* director_state: last speaker and its human event
    cmd,           \* commands rows of messages
    ctl,           \* commands rows of controls
    selection,     \* current_room: revision, and whether it is this room
    provider,      \* revision of the room's provider binding, 0 if unbound
    snapshot,      \* provider decision snapshot committed for a request
    worker,        \* #executeMessage of each service and request
    closed,        \* #closed of each service
    outages,       \* crashes and closes so far
    fenced         \* history: requests that were pending when a fence fell

room == <<status, generation, muted>>
log == <<events, director>>
vars == <<status, generation, muted, events, director, cmd, ctl, selection,
          provider, snapshot, worker, closed, outages, fenced>>

-----------------------------------------------------------------------------
(* State *)

Statuses == {"active", "paused", "stopped"}
EventTypes == {"human_message", "director_decision", "persona_message"}
Outcomes == {"none", "not_scheduled", "stale", "silence", "text"}

\* source is sourceEventSequence, 0 for a human message.
Event == [type : EventTypes, speaker : Personas \cup {Nobody}, source : Nat]

\* A commands row.  claim_expires_at is kept as ttl, the ticks left until it
\* is reached: the code only ever compares it with the current time.
Command ==
    [state : {"none", "pending", "complete"},
     payload : Payloads, revision : Nat,        \* what request_digest covers
     human : Nat, speaker : Personas \cup {Nobody}, generation : Nat,
     owner : Owners \cup {NoOwner}, ttl : 0 .. Lease,
     decision : Nat,                            \* pinned provider decision
     outcome : Outcomes, reply : Nat]

ControlKinds == {"pause", "resume", "stop", "mute", "unmute"}

Control == [kind : ControlKinds \cup {"none"}, generation : Nat,
            changed : BOOLEAN]

Phases == {"idle", "prepare", "stale_check", "pin", "calling", "complete",
           "waiting"}

\* One run of #executeMessage.  fresh is a history flag: no claim on the
\* request was taken since this run began to generate.
Worker ==
    [pc : Phases, owner : Owners \cup {NoOwner},
     payload : Payloads, revision : Nat,
     generated : BOOLEAN, aborted : BOOLEAN, lost : BOOLEAN,
     result : {"none", "silence", "text"}, decision : Nat,
     fresh : BOOLEAN]

\* Rows, log and runs have the shapes above: no claim outlives its lease, and
\* every sequence and generation is a natural number.
TypeOK ==
    /\ status \in Statuses
    /\ generation \in Nat
    /\ muted \in SUBSET Personas
    /\ events \in Seq(Event)
    /\ director \in [speaker : Personas \cup {Nobody}, human : Nat]
    /\ cmd \in [Requests -> Command]
    /\ ctl \in [Controls -> Control]
    /\ selection \in [revision : Nat, here : BOOLEAN]
    /\ provider \in Nat
    /\ snapshot \in [Requests -> Nat]
    /\ worker \in [Services -> [Requests -> Worker]]
    /\ closed \in [Services -> BOOLEAN]
    /\ outages \in Nat
    /\ fenced \in SUBSET Requests

AnyPayload == CHOOSE p \in Payloads : TRUE

NoCommand ==
    [state |-> "none", payload |-> AnyPayload, revision |-> 0, human |-> 0,
     speaker |-> Nobody, generation |-> 0, owner |-> NoOwner, ttl |-> 0,
     decision |-> 0, outcome |-> "none", reply |-> 0]

IdleWorker ==
    [pc |-> "idle", owner |-> NoOwner, payload |-> AnyPayload, revision |-> 0,
     generated |-> FALSE, aborted |-> FALSE, lost |-> FALSE,
     result |-> "none", decision |-> 0, fresh |-> FALSE]

Init ==
    /\ status = "active"
    /\ generation = 0
    /\ muted = {}
    /\ events = <<>>
    /\ director = [speaker |-> Nobody, human |-> 0]
    /\ cmd = [r \in Requests |-> NoCommand]
    /\ ctl = [c \in Controls |->
                 [kind |-> "none", generation |-> 0, changed |-> FALSE]]
    /\ selection = [revision |-> 0, here |-> TRUE]
    /\ provider = 0
    /\ snapshot = [r \in Requests |-> 0]
    /\ worker = [s \in Services |-> [r \in Requests |-> IdleWorker]]
    /\ closed = [s \in Services |-> FALSE]
    /\ outages = 0
    /\ fenced = {}

-----------------------------------------------------------------------------
(* Helpers *)

SetWorker(s, r, w) == worker' = [worker EXCEPT ![s][r] = w]

\* The promise settles, with a result or with an error: the run is over.
Settle(s, r) == SetWorker(s, r, IdleWorker)

\* requireRoomSelection: this room is selected, at exactly this revision.
Selected(revision) == selection.here /\ selection.revision = revision

\* Plausible bug: an expired claim is not up for grabs.
ClaimFreeWhenReleased(c) == c.owner = NoOwner

ClaimFree(c) == c.owner = NoOwner \/ c.ttl = 0

Released(c) ==
    IF c.state = "pending" THEN [c EXCEPT !.owner = NoOwner, !.ttl = 0] ELSE c

\* #releaseClaim: only the owner's claim, only while pending.
ReleasedBy(c, owner) == IF c.owner = owner THEN Released(c) ELSE c

\* Plausible bug: the generation is not compared, so a resume revives old work.
StaleIgnoringGeneration(r) == status # "active" \/ cmd[r].speaker \in muted

\* #isStale: the room stopped being what it was when r was admitted.
Stale(r) ==
    \/ status # "active"
    \/ generation # cmd[r].generation
    \/ cmd[r].speaker \in muted

\* A random UUID differs from every claim owner still referred to anywhere.
UsedOwners ==
    {cmd[r].owner : r \in Requests}
        \cup {worker[s][r].owner : s \in Services, r \in Requests}

\* Human messages of the log after a sequence number.
HumansSince(newLog, sequence) ==
    Cardinality({i \in (sequence + 1) .. Len(newLog) :
                    newLog[i].type = "human_message"})

\* The director's decision for a message, over the log that already holds it.
Speaker(newLog, payload) ==
    Decide(director.speaker, HumansSince(newLog, director.human), muted,
           payload)

-----------------------------------------------------------------------------
(* Messages *)

\* sendMessage: a closed service rejects, a request already in flight shares
\* the running promise; otherwise a new #executeMessage begins, with the
\* selection revision the client last saw.
SendMessage(s, r, payload, revision) ==
    /\ ~ closed[s]
    /\ worker[s][r].pc = "idle"
    /\ revision <= selection.revision
    /\ \E owner \in Owners \ UsedOwners :
          SetWorker(s, r, [IdleWorker EXCEPT !.pc = "prepare",
                              !.owner = owner, !.payload = payload,
                              !.revision = revision])
    /\ UNCHANGED <<room, log, cmd, ctl, selection, provider, snapshot, closed,
                   outages, fenced>>

SameDigest(w, c) == w.payload = c.payload /\ w.revision = c.revision

\* What makes #executeMessage or #prepareMessage throw, before any row is
\* written.
Rejected(s, r) ==
    LET w == worker[s][r]
    IN  \/ closed[s]
        \/ ~ Selected(w.revision)
        \/ cmd[r].state # "none" /\ ~ SameDigest(w, cmd[r])
        \/ cmd[r].state = "none" /\ status # "active"
        \/ cmd[r].state = "none" /\ w.payload.target \in muted

PrepareRejected(s, r) ==
    /\ worker[s][r].pc = "prepare"
    /\ Rejected(s, r)
    /\ Settle(s, r)
    /\ UNCHANGED <<room, log, cmd, ctl, selection, provider, snapshot, closed,
                   outages, fenced>>

\* A completed request returns its stored result.
PrepareReplay(s, r) ==
    /\ worker[s][r].pc = "prepare"
    /\ ~ Rejected(s, r)
    /\ cmd[r].state = "complete"
    /\ Settle(s, r)
    /\ UNCHANGED <<room, log, cmd, ctl, selection, provider, snapshot, closed,
                   outages, fenced>>

\* Every run of r that is generating no longer holds the newest claim.
ClaimTaken(r, s, w) ==
    [x \in Services |->
        IF x = s THEN [worker[x] EXCEPT ![r] = w]
                 ELSE [worker[x] EXCEPT ![r] = [@ EXCEPT !.fresh = FALSE]]]

\* A pending request whose claim is free or expired is claimed by this run.
PrepareClaim(s, r) ==
    LET w == worker[s][r]
    IN  /\ w.pc = "prepare"
        /\ ~ Rejected(s, r)
        /\ cmd[r].state = "pending"
        /\ ClaimFree(cmd[r])
        /\ cmd' = [cmd EXCEPT ![r] = [@ EXCEPT !.owner = w.owner,
                                               !.ttl = Lease]]
        /\ worker' = ClaimTaken(r, s, [w EXCEPT !.fresh = FALSE,
                        !.pc = IF w.generated THEN "complete"
                                              ELSE "stale_check"])
        /\ UNCHANGED <<room, log, ctl, selection, provider, snapshot, closed,
                       outages, fenced>>

\* A pending request that another run holds is polled.
PrepareObserve(s, r) ==
    LET w == worker[s][r]
    IN  /\ w.pc = "prepare"
        /\ ~ Rejected(s, r)
        /\ cmd[r].state = "pending"
        /\ ~ ClaimFree(cmd[r])
        /\ SetWorker(s, r, [w EXCEPT !.pc = "waiting"])
        /\ UNCHANGED <<room, log, cmd, ctl, selection, provider, snapshot,
                       closed, outages, fenced>>

\* Plausible bug: the wait is not ended by the lifecycle signal of a closing service.
PollElapsedWhileOpen(s, r) ==
    /\ worker[s][r].pc = "waiting"
    /\ ~ closed[s]
    /\ SetWorker(s, r, [worker[s][r] EXCEPT !.pc = "prepare"])
    /\ UNCHANGED <<room, log, cmd, ctl, selection, provider, snapshot, closed,
                   outages, fenced>>

\* The wait between two polls ends, by the timer or by the lifecycle signal.
PollElapsed(s, r) ==
    /\ worker[s][r].pc = "waiting"
    /\ SetWorker(s, r, [worker[s][r] EXCEPT !.pc = "prepare"])
    /\ UNCHANGED <<room, log, cmd, ctl, selection, provider, snapshot, closed,
                   outages, fenced>>

\* Plausible bug: a pending request whose claim ran out is admitted a second time.
IsNewOrAbandoned(r) ==
    cmd[r].state = "none" \/ (cmd[r].state = "pending" /\ ClaimFree(cmd[r]))

IsNew(r) == cmd[r].state = "none"

\* A new request: the human message and the director's decision enter the
\* log, the director state moves when somebody is chosen, and the command is
\* stored complete (nobody speaks) or pending and claimed by this run.
PrepareNew(s, r) ==
    LET w == worker[s][r]
        human == Len(events) + 1
        withHuman == Append(events, [type |-> "human_message",
                                     speaker |-> Nobody, source |-> 0])
        speaker == Speaker(withHuman, w.payload)
        scheduled == speaker # Nobody
    IN  /\ w.pc = "prepare"
        /\ ~ Rejected(s, r)
        /\ IsNew(r)
        /\ events' = Append(withHuman, [type |-> "director_decision",
                                        speaker |-> speaker, source |-> human])
        /\ director' = IF scheduled
                       THEN [speaker |-> speaker, human |-> human]
                       ELSE director
        /\ cmd' = [cmd EXCEPT ![r] =
                     [NoCommand EXCEPT
                        !.state = IF scheduled THEN "pending" ELSE "complete",
                        !.payload = w.payload, !.revision = w.revision,
                        !.human = human, !.speaker = speaker,
                        !.generation = generation,
                        !.owner = IF scheduled THEN w.owner ELSE NoOwner,
                        !.ttl = IF scheduled THEN Lease ELSE 0,
                        !.outcome = IF scheduled THEN "none"
                                                 ELSE "not_scheduled"]]
        /\ IF scheduled
           THEN SetWorker(s, r, [w EXCEPT !.pc = "stale_check"])
           ELSE Settle(s, r)
        /\ UNCHANGED <<room, ctl, selection, provider, snapshot, closed,
                       outages, fenced>>

\* #generateMessage begins: a request that is already stale is not generated.
CheckStale(s, r) ==
    LET w == worker[s][r]
    IN  /\ w.pc = "stale_check"
        /\ SetWorker(s, r, [w EXCEPT
              !.pc = IF Stale(r) THEN "complete" ELSE "pin",
              !.generated = Stale(r),
              !.aborted = FALSE, !.lost = FALSE, !.decision = 0,
              !.fresh = TRUE])
        /\ UNCHANGED <<room, log, cmd, ctl, selection, provider, snapshot,
                       closed, outages, fenced>>

\* Plausible bug: every run pins anew.
PinnedAnew(c) == provider

\* The first run to resolve the provider pins; later runs keep what it pinned.
PinnedDecision(c) == IF c.decision # 0 THEN c.decision ELSE provider

\* #pinProviderDecision, then the check that the pinned decision is still the
\* room's.
Pin(s, r) ==
    LET w == worker[s][r]
        c == cmd[r]
        pinned == PinnedDecision(c)
        current == pinned = 0 \/ pinned = provider
    IN  /\ w.pc = "pin"
        /\ c.owner = w.owner
        /\ c.state = "pending"
        /\ cmd' = [cmd EXCEPT ![r] = [@ EXCEPT !.decision = pinned]]
        /\ SetWorker(s, r, [w EXCEPT
              !.pc = IF current THEN "calling" ELSE "complete",
              !.generated = ~ current,
              !.decision = pinned])
        /\ UNCHANGED <<room, log, ctl, selection, provider, snapshot, closed,
                       outages, fenced>>

\* The provider answers, even if it was told to stop a moment ago.
ProviderReturns(s, r, result) ==
    LET w == worker[s][r]
    IN  /\ w.pc = "calling"
        /\ SetWorker(s, r, [w EXCEPT
              !.pc = "complete", !.generated = TRUE,
              !.result = IF w.lost THEN "none" ELSE result])
        /\ UNCHANGED <<room, log, cmd, ctl, selection, provider, snapshot,
                       closed, outages, fenced>>

\* The decision cannot be resolved, the claim is gone, the provider fails,
\* answers nonsense, times out or is aborted.
GenerationFails(s, r) ==
    LET w == worker[s][r]
        noResult == [w EXCEPT !.pc = "complete", !.generated = TRUE,
                                !.decision = 0]
    IN  /\ w.pc \in {"pin", "calling"}
        /\ IF Stale(r) \/ w.lost
           THEN SetWorker(s, r, noResult) /\ UNCHANGED cmd
           ELSE /\ cmd' = [cmd EXCEPT ![r] = ReleasedBy(cmd[r], w.owner)]
                /\ Settle(s, r)
        /\ UNCHANGED <<room, log, ctl, selection, provider, snapshot, closed,
                       outages, fenced>>

\* Plausible bug: a renewal adds a lease to what is left of the old one.
RenewedOnTop(c) == [c EXCEPT !.ttl = @ + Lease]

Renewed(c) == [c EXCEPT !.ttl = Lease]

\* #maintainClaim: the timer renews a live claim and aborts on a lost one.
Renew(s, r) ==
    LET w == worker[s][r]
        held == /\ cmd[r].owner = w.owner
                /\ cmd[r].ttl > 0
                /\ cmd[r].state = "pending"
    IN  /\ w.pc = "calling"
        /\ ~ w.aborted
        /\ IF held
           THEN /\ cmd' = [cmd EXCEPT ![r] = Renewed(cmd[r])]
                /\ UNCHANGED worker
           ELSE /\ SetWorker(s, r, [w EXCEPT !.lost = TRUE, !.aborted = TRUE])
                /\ UNCHANGED cmd
        /\ UNCHANGED <<room, log, ctl, selection, provider, snapshot, closed,
                       outages, fenced>>

\* #completeMessage leaves the run over: closed, or completed by another run.
CompleteSettled(s, r) ==
    /\ worker[s][r].pc = "complete"
    /\ closed[s] \/ cmd[r].state = "complete"
    /\ Settle(s, r)
    /\ UNCHANGED <<room, log, cmd, ctl, selection, provider, snapshot, closed,
                   outages, fenced>>

HoldsClaim(w, c) == c.owner = w.owner /\ c.ttl > 0

\* Plausible bug: the result survives the loss of the claim.
DiscardNothing(w) == [w EXCEPT !.pc = "prepare"]

\* The claim was lost or ran out: the result is discarded and the loop begins
\* again.
Discard(w) == [w EXCEPT !.pc = "prepare", !.generated = FALSE,
                        !.result = "none", !.decision = 0]

CompleteLost(s, r) ==
    LET w == worker[s][r]
    IN  /\ w.pc = "complete"
        /\ ~ closed[s]
        /\ cmd[r].state # "complete"
        /\ ~ HoldsClaim(w, cmd[r])
        /\ SetWorker(s, r, Discard(w))
        /\ UNCHANGED <<room, log, cmd, ctl, selection, provider, snapshot,
                       closed, outages, fenced>>

\* The room or the provider decision changed since the generation began.
StaleAtCommit(s, r) ==
    LET d == worker[s][r].decision
    IN  Stale(r) \/ (d # 0 /\ d # provider)

OutcomeOf(s, r) ==
    IF StaleAtCommit(s, r) \/ worker[s][r].result = "none"
    THEN "stale" ELSE worker[s][r].result

\* The completed row: the outcome, the reply's sequence, no claim.
Completed(c, outcome, sequence) ==
    [c EXCEPT !.state = "complete", !.outcome = outcome,
              !.reply = IF outcome = "text" THEN sequence ELSE 0,
              !.owner = NoOwner, !.ttl = 0]

\* Plausible bug: a stale outcome commits the provider decision too.
SnapshotAlways(r, outcome, decision) ==
    [snapshot EXCEPT ![r] = decision]

CommittedSnapshot(r, outcome, decision) ==
    IF outcome = "stale" THEN snapshot ELSE [snapshot EXCEPT ![r] = decision]

\* The claim is held: the outcome, the persona's message and the provider
\* decision snapshot are committed together and the claim is dropped.
CompleteCommit(s, r) ==
    LET w == worker[s][r]
        outcome == OutcomeOf(s, r)
    IN  /\ w.pc = "complete"
        /\ ~ closed[s]
        /\ cmd[r].state # "complete"
        /\ HoldsClaim(w, cmd[r])
        /\ events' = IF outcome = "text"
                     THEN Append(events, [type |-> "persona_message",
                                          speaker |-> cmd[r].speaker,
                                          source |-> cmd[r].human])
                     ELSE events
        /\ cmd' = [cmd EXCEPT ![r] =
                     Completed(cmd[r], outcome, Len(events) + 1)]
        /\ snapshot' = CommittedSnapshot(r, outcome, w.decision)
        /\ Settle(s, r)
        /\ UNCHANGED <<room, director, ctl, selection, provider, closed,
                       outages, fenced>>

-----------------------------------------------------------------------------
(* Controls *)

\* A fence: the generation moves, every claim of the room is dropped, and the
\* service that handled the control aborts its own provider calls.
Fence(s) ==
    /\ generation' = generation + 1
    /\ cmd' = [r \in Requests |-> Released(cmd[r])]
    /\ worker' = [worker EXCEPT ![s] =
                    [r \in Requests |->
                        IF worker[s][r].pc = "calling"
                        THEN [worker[s][r] EXCEPT !.aborted = TRUE]
                        ELSE worker[s][r]]]

NoFence == UNCHANGED <<generation, cmd, worker>>

\* History: what was pending when the room was halted or a persona silenced.
RecordFenced ==
    LET silenced == \/ status' # status /\ status' # "active"
                    \/ muted' \ muted # {}
    IN  fenced' = IF silenced
                  THEN fenced \cup {r \in Requests : cmd[r].state = "pending"}
                  ELSE fenced

TargetStatus(kind) ==
    CASE kind = "pause" -> "paused"
      [] kind = "resume" -> "active"
      [] kind = "stop" -> "stopped"

\* #roomControl, for a request id that was not used before (a replay of a
\* used one changes nothing).
RoomControl(s, c, kind, revision) ==
    LET target == TargetStatus(kind)
        changed == status # target
    IN  /\ ~ closed[s]
        /\ ctl[c].kind = "none"
        /\ Selected(revision)
        /\ status = "stopped" => kind = "stop"
        /\ status' = target
        /\ IF changed /\ kind \in {"pause", "stop"} THEN Fence(s) ELSE NoFence
        /\ ctl' = [ctl EXCEPT ![c] = [kind |-> kind, changed |-> changed,
                                      generation |-> generation']]
        /\ UNCHANGED <<muted, log, selection, provider, snapshot, closed,
                       outages>>
        /\ RecordFenced

MuteFences(kind, changed) == changed /\ kind = "mute"

\* #personaControl: muting fences, unmuting does not.
PersonaControl(s, c, kind, persona, revision) ==
    LET changed == (persona \in muted) # (kind = "mute")
    IN  /\ ~ closed[s]
        /\ ctl[c].kind = "none"
        /\ Selected(revision)
        /\ status # "stopped"
        /\ muted' = IF kind = "mute" THEN muted \cup {persona}
                                     ELSE muted \ {persona}
        /\ IF MuteFences(kind, changed) THEN Fence(s) ELSE NoFence
        /\ ctl' = [ctl EXCEPT ![c] = [kind |-> kind, changed |-> changed,
                                      generation |-> generation']]
        /\ UNCHANGED <<status, log, selection, provider, snapshot, closed,
                       outages>>
        /\ RecordFenced

-----------------------------------------------------------------------------
(* Life of a service, and what happens around it *)

\* close: no new work, provider calls aborted, own claims released; the runs
\* in flight then settle one by one.
Close(s) ==
    /\ ~ closed[s]
    /\ outages < MaxOutages
    /\ outages' = outages + 1
    /\ closed' = [closed EXCEPT ![s] = TRUE]
    /\ cmd' = [r \in Requests |-> ReleasedBy(cmd[r], worker[s][r].owner)]
    /\ worker' = [worker EXCEPT ![s] =
                    [r \in Requests |->
                        IF worker[s][r].pc = "calling"
                        THEN [worker[s][r] EXCEPT !.aborted = TRUE]
                        ELSE worker[s][r]]]
    /\ UNCHANGED <<room, log, ctl, selection, provider, snapshot, fenced>>

\* A new service replaces one whose close() has resolved.
Restart(s) ==
    /\ closed[s]
    /\ \A r \in Requests : worker[s][r].pc = "idle"
    /\ closed' = [closed EXCEPT ![s] = FALSE]
    /\ UNCHANGED <<room, log, cmd, ctl, selection, provider, snapshot, worker,
                   outages, fenced>>

\* The process dies and a new one takes its place; only the database stays.
Crash(s) ==
    /\ outages < MaxOutages
    /\ outages' = outages + 1
    /\ closed' = [closed EXCEPT ![s] = FALSE]
    /\ worker' = [worker EXCEPT ![s] = [r \in Requests |-> IdleWorker]]
    /\ UNCHANGED <<room, log, cmd, ctl, selection, provider, snapshot, fenced>>

Aged(c) == [c EXCEPT !.ttl = IF @ > 0 THEN @ - 1 ELSE 0]

\* Time passes: every claim gets one tick nearer to its expiry.
Tick ==
    /\ \E r \in Requests : cmd[r].ttl > 0
    /\ cmd' = [r \in Requests |-> Aged(cmd[r])]
    /\ UNCHANGED <<room, log, ctl, selection, provider, snapshot, worker,
                   closed, outages, fenced>>

\* selectRoom or replaceCurrentRoomCast: the pointer moves, to this room or
\* to another one.
MoveSelection(here) ==
    /\ selection.revision < MaxRevision
    /\ selection' = [revision |-> selection.revision + 1, here |-> here]
    /\ UNCHANGED <<room, log, cmd, ctl, provider, snapshot, worker, closed,
                   outages, fenced>>

\* The room is bound, or its binding, model or connection is revised.
Rebind ==
    /\ provider < MaxProvider
    /\ provider' = provider + 1
    /\ UNCHANGED <<room, log, cmd, ctl, selection, snapshot, worker, closed,
                   outages, fenced>>

-----------------------------------------------------------------------------
Run(s, r) ==
    \/ PrepareRejected(s, r)
    \/ PrepareReplay(s, r)
    \/ PrepareClaim(s, r)
    \/ PrepareObserve(s, r)
    \/ PrepareNew(s, r)
    \/ PollElapsed(s, r)
    \/ CheckStale(s, r)
    \/ Pin(s, r)
    \/ \E result \in {"silence", "text"} : ProviderReturns(s, r, result)
    \/ GenerationFails(s, r)
    \/ Renew(s, r)
    \/ CompleteSettled(s, r)
    \/ CompleteLost(s, r)
    \/ CompleteCommit(s, r)

Steer(s) ==
    \E c \in Controls, revision \in 0 .. selection.revision :
        \/ \E kind \in {"pause", "resume", "stop"} :
              RoomControl(s, c, kind, revision)
        \/ \E kind \in {"mute", "unmute"}, persona \in Personas :
              PersonaControl(s, c, kind, persona, revision)

Next ==
    \/ \E s \in Services, r \in Requests :
          \/ \E payload \in Payloads, revision \in 0 .. selection.revision :
                SendMessage(s, r, payload, revision)
          \/ Run(s, r)
    \/ \E s \in Services : Steer(s) \/ Close(s) \/ Restart(s) \/ Crash(s)
    \/ \E here \in BOOLEAN : MoveSelection(here)
    \/ Rebind
    \/ Tick

Spec == Init /\ [][Next]_vars
-----------------------------------------------------------------------------
(* Properties *)

Admitted(r) == cmd[r].state # "none"

IsReply(i) == events[i].type = "persona_message"

\* However often a request is sent, by however many services, across crashes,
\* lost claims and retries, its human message is in the log exactly once, is
\* followed by the one director decision made for it, and no human message or
\* decision is in the log without its request (#prepareMessage inserts the
\* command row in the transaction that appends both events).
AdmittedOnce ==
    /\ \A r \in Requests : Admitted(r) =>
          /\ cmd[r].human + 1 \in DOMAIN events
          /\ cmd[r].human \in DOMAIN events
          /\ events[cmd[r].human].type = "human_message"
          /\ events[cmd[r].human + 1] =
                [type |-> "director_decision", speaker |-> cmd[r].speaker,
                 source |-> cmd[r].human]
    /\ \A i \in DOMAIN events :
          /\ events[i].type = "human_message" =>
                \E r \in Requests : Admitted(r) /\ cmd[r].human = i
          /\ events[i].type = "director_decision" =>
                \E r \in Requests : Admitted(r) /\ cmd[r].human + 1 = i
    /\ \A q, r \in Requests :
          Admitted(q) /\ Admitted(r) /\ cmd[q].human = cmd[r].human => q = r

\* A request is answered at most once whoever generates for it: a persona
\* message is the stored reply of a request, spoken by the persona the
\* director chose for it, and no human message has two replies
\* (#completeMessage stores the outcome in the transaction that appends the
\* reply, under the claim).
RepliedOnce ==
    /\ \A i \in DOMAIN events : IsReply(i) =>
          \E r \in Requests :
              /\ cmd[r].outcome = "text"
              /\ cmd[r].reply = i
              /\ cmd[r].human = events[i].source
              /\ cmd[r].speaker = events[i].speaker
    /\ \A r \in Requests : cmd[r].outcome = "text" =>
          cmd[r].reply \in DOMAIN events /\ IsReply(cmd[r].reply)
    /\ \A i, j \in DOMAIN events :
          IsReply(i) /\ IsReply(j) /\ events[i].source = events[j].source
             => i = j

\* A request that was waiting for its reply when a pause, a stop or a mute
\* took effect is never answered, not even after a resume or an unmute, a
\* retry or a restart (the generation fence of #roomControl, #personaControl
\* and #isStale).
FencedNeverSpeaks ==
    \A r \in fenced : cmd[r].outcome \in {"none", "stale"}

\* What a client can rely on for its request: admitted once, answered at most
\* once, and never answered from behind a fence (#prepareMessage,
\* #completeMessage, #isStale).
RequestsSound == AdmittedOnce /\ RepliedOnce /\ FencedNeverSpeaks

\* A text or a silence carries the snapshot of the provider decision that was
\* pinned for the request, and a stale outcome carries none
\* (commitDecisionSnapshotInTransaction inside #completeMessage).
SnapshotMatchesOutcome ==
    \A r \in Requests :
        snapshot[r] = IF cmd[r].outcome \in {"text", "silence"}
                      THEN cmd[r].decision ELSE 0

\* A run of a service that has begun to close holds no claim, so another
\* service can take its request at once (#close releases, and
\* #executeMessage re-checks #closed before each transaction that claims).
ClosedHoldsNoClaim ==
    \A s \in Services, r \in Requests :
        closed[s] /\ worker[s][r].pc # "idle"
            => cmd[r].owner # worker[s][r].owner

\* What the rows say of runs that are over: the snapshot fits the outcome, and
\* no run of a closed service is named by a claim (#completeMessage, #close).
RowsSound == SnapshotMatchesOutcome /\ ClosedHoldsNoClaim

\* What is stored about a request stays: a completed row never changes again,
\* a pending row keeps its digest, its place in the log, its speaker, its
\* generation and the provider decision once pinned.
StoredForever ==
    [][\A r \in Requests :
          /\ cmd[r].state = "complete" => cmd'[r] = cmd[r]
          /\ cmd[r].state = "pending" =>
                /\ cmd'[r].state # "none"
                /\ cmd'[r].payload = cmd[r].payload
                /\ cmd'[r].revision = cmd[r].revision
                /\ cmd'[r].human = cmd[r].human
                /\ cmd'[r].speaker = cmd[r].speaker
                /\ cmd'[r].generation = cmd[r].generation
                /\ cmd[r].decision # 0 => cmd'[r].decision = cmd[r].decision
      ]_vars

\* A reply is committed only from a generation that ran under the claim in
\* force when it commits: a result obtained under an older claim is discarded,
\* even when the same run has won the claim again in between ("claim turnover
\* cannot commit a provider result generated under an older claim").
NoResultFromOlderClaim ==
    [][\A r \in Requests :
          cmd[r].outcome # "text" /\ cmd'[r].outcome = "text" =>
             \E s \in Services :
                 /\ worker[s][r].owner = cmd[r].owner
                 /\ worker[s][r].fresh
                 /\ worker'[s][r].pc = "idle"
      ]_vars

\* Nothing is committed on behalf of a provider decision that was replaced
\* while the provider was working (the second #isProviderDecisionCurrent).
CommitsUnderCurrentProvider ==
    [][\A r \in Requests :
          snapshot'[r] # snapshot[r] => snapshot'[r] = provider]_vars

\* What is committed was generated under the claim and for the provider in
\* force at that moment (#completeMessage).
CommitsInForce == NoResultFromOlderClaim /\ CommitsUnderCurrentProvider

-----------------------------------------------------------------------------
\* The request an entry of the log belongs to, by the human message it is or
\* refers to.
RequestOf(i) ==
    CHOOSE r \in Requests :
        /\ Admitted(r)
        /\ cmd[r].human = IF events[i].type = "human_message" THEN i ELSE events[i].source

Contract == INSTANCE RoomContract WITH
    transcript <- [i \in DOMAIN events |->
                     [kind |-> events[i].type, request |-> RequestOf(i)]],
    open <- {r \in Requests : cmd[r].state = "pending"},
    ended <- {r \in Requests : cmd[r].state = "complete"}

\* Claims, leases, retries, provider decisions and service lifetimes are
\* invisible: the room implements its contract (the two transactions of
\* #prepareMessage and #completeMessage are all that moves a request on, and
\* the generation is all that fences it).
KeepsContract == Contract!ContractSpec

-----------------------------------------------------------------------------
(* Liveness.  A run takes its next step (the event loop is not blocked); a  *)
(* call settles (the generation timeout); a provider that is resolved and   *)
(* asked again and again is found and answers at some time; a client        *)
(* repeats its request until it is answered; and a running service renews   *)
(* in time, so only the claim of a run that no longer exists runs out.      *)

Progress(s, r) ==
    \/ PrepareRejected(s, r)
    \/ PrepareReplay(s, r)
    \/ PrepareClaim(s, r)
    \/ PrepareObserve(s, r)
    \/ PrepareNew(s, r)
    \/ PollElapsed(s, r)
    \/ CheckStale(s, r)
    \/ Pin(s, r)
    \/ \E result \in {"silence", "text"} : ProviderReturns(s, r, result)
    \/ GenerationFails(s, r)
    \/ CompleteSettled(s, r)
    \/ CompleteLost(s, r)
    \/ CompleteCommit(s, r)

TimelyTick ==
    /\ \A s \in Services, r \in Requests :
          HoldsClaim(worker[s][r], cmd[r]) => cmd[r].ttl > 1
    /\ Tick

Retry(r) ==
    /\ cmd[r].state = "pending"
    /\ \E s \in Services :
          SendMessage(s, r, cmd[r].payload, cmd[r].revision)

TimelyNext ==
    \/ \E s \in Services, r \in Requests :
          \/ \E payload \in Payloads, revision \in 0 .. selection.revision :
                SendMessage(s, r, payload, revision)
          \/ Run(s, r)
    \/ \E s \in Services : Steer(s) \/ Close(s) \/ Restart(s) \/ Crash(s)
    \/ \E here \in BOOLEAN : MoveSelection(here)
    \/ Rebind
    \/ TimelyTick

TimelySpec ==
    /\ Init
    /\ [][TimelyNext]_vars
    /\ \A s \in Services, r \in Requests :
          /\ WF_vars(Progress(s, r))
          /\ SF_vars(Pin(s, r))
          /\ SF_vars(\E result \in {"silence", "text"} :
                        ProviderReturns(s, r, result))
    /\ \A r \in Requests : SF_vars(Retry(r))
    /\ \A s \in Services : WF_vars(Restart(s))
    /\ WF_vars(TimelyTick)

\* A request left pending by a crash, a lost claim, a failed provider or a
\* closing service does not stay pending while its client retries: it is
\* completed, unless the selection has moved on.  After the selection has
\* moved, the request can no longer be claimed by anyone, because the retry
\* must carry the old revision (requireRoomSelection) and may not carry the
\* new one (the digest covers it).
PendingSettles ==
    \A r \in Requests :
        (cmd[r].state = "pending" /\ Selected(cmd[r].revision))
            ~> (cmd[r].state = "complete" \/ ~ Selected(cmd[r].revision))

\* close() resolves: every run of a closing service settles, also one whose
\* provider ignores the abort signal and one that polls another's claim.
CloseResolves ==
    \A s \in Services :
        closed[s] ~> (\A r \in Requests : worker[s][r].pc = "idle")
=============================================================================
