------------------------- MODULE RoomServiceProofs -------------------------
(***************************************************************************)
(* Proofs about RoomService, for every number of services, requests,       *)
(* controls and personas and every lease.                                  *)
(***************************************************************************)
EXTENDS RoomService, TurnsProofs, SequenceTheorems

-----------------------------------------------------------------------------
(* Types of the building blocks *)

LEMMA IdleTypes == NoCommand \in Command /\ IdleWorker \in Worker
<1>1. AnyPayload \in Payloads
  BY ConstantsAssumption DEF AnyPayload
<1>2. QED
  BY <1>1, ConstantsAssumption
  DEF NoCommand, IdleWorker, Command, Worker, Outcomes, Phases

\* #decide names a persona of the roster or nobody.
LEMMA DecideType ==
    ASSUME NEW last \in Personas \cup {Nobody}, NEW since, NEW quiet,
           NEW payload \in Payload
    PROVE  Decide(last, since, quiet, payload) \in Personas \cup {Nobody}
<1> DEFINE unmuted == Personas \ quiet
           start == IF last = Nobody THEN 0 ELSE After(last)
<1>1. start \in Int
  BY AfterType DEF Personas, Nobody
<1>2. Candidates(last, since, quiet) \subseteq Personas
  BY DEF Candidates
<1>3. FirstFrom(start, Candidates(last, since, quiet))
         \in Personas \cup {Nobody}
  BY <1>1, <1>2, FirstFromType
<1>4. (\E p \in unmuted : unmuted = {p}) =>
         (CHOOSE p \in unmuted : unmuted = {p}) \in Personas
  OBVIOUS
<1>5. payload.target \in Personas \cup {Nobody}
  BY DEF Payload
<1>6. QED
  BY <1>3, <1>4, <1>5 DEF Decide

LEMMA SetWorkerType ==
    ASSUME worker \in [Services -> [Requests -> Worker]],
           NEW s \in Services, NEW r \in Requests, NEW w \in Worker,
           SetWorker(s, r, w)
    PROVE  worker' \in [Services -> [Requests -> Worker]]
  BY DEF SetWorker

LEMMA LeaseType == 0 \in 0 .. Lease /\ Lease \in 0 .. Lease
  BY ConstantsAssumption

LEMMA ClaimType ==
    ASSUME NEW c \in Command, NEW owner \in Owners \cup {NoOwner},
           NEW ttl \in 0 .. Lease
    PROVE  [c EXCEPT !.owner = owner, !.ttl = ttl] \in Command
  BY DEF Command

LEMMA ReleasedType ==
    ASSUME NEW c \in Command, NEW owner
    PROVE  Released(c) \in Command /\ ReleasedBy(c, owner) \in Command
  BY LeaseType, ClaimType DEF Released, ReleasedBy

-----------------------------------------------------------------------------
(* Type correctness *)

LEMMA TypeInit == Init => TypeOK
  BY IdleTypes
  DEF Init, TypeOK, Statuses, Personas, Nobody, Control, ControlKinds

LEMMA TypeSend ==
    ASSUME TypeOK, NEW s \in Services, NEW r \in Requests,
           NEW payload \in Payloads, NEW revision \in 0 .. selection.revision,
           SendMessage(s, r, payload, revision)
    PROVE  TypeOK'
<1>1. PICK owner \in Owners \ UsedOwners :
         SetWorker(s, r, [IdleWorker EXCEPT !.pc = "prepare",
                            !.owner = owner, !.payload = payload,
                            !.revision = revision])
  BY DEF SendMessage
<1>2. revision \in Nat
  BY DEF TypeOK
<1>3. [IdleWorker EXCEPT !.pc = "prepare", !.owner = owner,
          !.payload = payload, !.revision = revision] \in Worker
  BY <1>2, IdleTypes DEF Worker, Phases
<1>4. worker' \in [Services -> [Requests -> Worker]]
  BY <1>1, <1>3, SetWorkerType DEF TypeOK
<1>5. QED
  BY <1>4 DEF SendMessage, TypeOK, room, log

\* The steps of a run that write no row.
LEMMA TypeQuietRun ==
    ASSUME TypeOK, NEW s \in Services, NEW r \in Requests,
           \/ PrepareRejected(s, r)
           \/ PrepareReplay(s, r)
           \/ PrepareObserve(s, r)
           \/ PollElapsed(s, r)
           \/ CheckStale(s, r)
           \/ \E result \in {"silence", "text"} : ProviderReturns(s, r, result)
           \/ CompleteSettled(s, r)
           \/ CompleteLost(s, r)
    PROVE  TypeOK'
<1>1. worker[s][r] \in Worker
  BY DEF TypeOK
<1>2. \E w \in Worker : SetWorker(s, r, w)
  <2>1. CASE PrepareRejected(s, r) \/ PrepareReplay(s, r)
             \/ CompleteSettled(s, r)
    BY <2>1, IdleTypes
    DEF PrepareRejected, PrepareReplay, CompleteSettled, Settle
  <2>2. CASE PrepareObserve(s, r)
    BY <2>2, <1>1 DEF PrepareObserve, Worker, Phases
  <2>3. CASE PollElapsed(s, r)
    BY <2>3, <1>1 DEF PollElapsed, Worker, Phases
  <2>4. CASE CheckStale(s, r)
    <3>1. Stale(r) \in BOOLEAN
      BY DEF Stale
    <3>2. QED
      BY <2>4, <3>1, <1>1 DEF CheckStale, Worker, Phases
  <2>5. CASE \E result \in {"silence", "text"} : ProviderReturns(s, r, result)
    BY <2>5, <1>1 DEF ProviderReturns, Worker, Phases
  <2>6. CASE CompleteLost(s, r)
    BY <2>6, <1>1 DEF CompleteLost, Discard, Worker, Phases
  <2>7. QED
    BY <2>1, <2>2, <2>3, <2>4, <2>5, <2>6
<1>3. worker' \in [Services -> [Requests -> Worker]]
  BY <1>2, SetWorkerType DEF TypeOK
<1>4. UNCHANGED <<room, log, cmd, ctl, selection, provider, snapshot, closed,
                  outages, fenced>>
  BY DEF PrepareRejected, PrepareReplay, PrepareObserve, PollElapsed,
         CheckStale, ProviderReturns, CompleteSettled, CompleteLost
<1>5. QED
  BY <1>3, <1>4 DEF TypeOK, room, log

LEMMA TypePrepareClaim ==
    ASSUME TypeOK, NEW s \in Services, NEW r \in Requests, PrepareClaim(s, r)
    PROVE  TypeOK'
<1>1. worker[s][r] \in Worker /\ cmd[r] \in Command
  BY DEF TypeOK
<1>2. cmd' \in [Requests -> Command]
  <2>1. worker[s][r].owner \in Owners \cup {NoOwner}
    BY <1>1 DEF Worker
  <2>2. [cmd[r] EXCEPT !.owner = worker[s][r].owner, !.ttl = Lease] \in Command
    BY <1>1, <2>1, LeaseType, ClaimType
  <2>3. cmd' = [cmd EXCEPT ![r] =
                  [cmd[r] EXCEPT !.owner = worker[s][r].owner, !.ttl = Lease]]
    BY DEF PrepareClaim, TypeOK
  <2>4. QED
    BY <2>2, <2>3 DEF TypeOK
<1>3. worker' \in [Services -> [Requests -> Worker]]
  <2> DEFINE w == [worker[s][r] EXCEPT !.fresh = FALSE,
                     !.pc = IF worker[s][r].generated THEN "complete"
                                                      ELSE "stale_check"]
  <2>1. w \in Worker
    BY <1>1 DEF Worker, Phases
  <2>2. \A x \in Services :
           [worker[x][r] EXCEPT !.fresh = FALSE] \in Worker
    <3> TAKE x \in Services
    <3>1. worker[x][r] \in Worker
      BY DEF TypeOK
    <3>2. QED
      BY <3>1 DEF Worker
  <2>4. \A x \in Services :
           [worker[x] EXCEPT ![r] = [@ EXCEPT !.fresh = FALSE]]
              \in [Requests -> Worker]
    BY <2>2 DEF TypeOK
  <2>5. worker' = ClaimTaken(r, s, w)
    BY DEF PrepareClaim
  <2> HIDE DEF w
  <2>6. QED
    BY <2>1, <2>4, <2>5 DEF ClaimTaken, TypeOK
<1>4. QED
  BY <1>2, <1>3 DEF PrepareClaim, TypeOK, room, log

LEMMA TypePrepareNew ==
    ASSUME TypeOK, NEW s \in Services, NEW r \in Requests, PrepareNew(s, r)
    PROVE  TypeOK'
<1> DEFINE w == worker[s][r]
           human == Len(events) + 1
           withHuman == Append(events, [type |-> "human_message",
                                        speaker |-> Nobody, source |-> 0])
           speaker == Speaker(withHuman, w.payload)
           decision == [type |-> "director_decision",
                        speaker |-> speaker, source |-> human]
<1>1. w \in Worker /\ human \in Nat
  BY DEF TypeOK
<1>2. speaker \in Personas \cup {Nobody}
  BY <1>1, DecideType, ConstantsAssumption DEF Speaker, TypeOK, Worker
<1>3. withHuman \in Seq(Event)
  BY DEF TypeOK, Event, EventTypes
<1>4. decision \in Event
  BY <1>1, <1>2 DEF Event, EventTypes
<1>5. events' \in Seq(Event)
  BY <1>3, <1>4 DEF PrepareNew
<1>6. director' \in [speaker : Personas \cup {Nobody}, human : Nat]
  BY <1>1, <1>2 DEF PrepareNew, TypeOK
<1>7. cmd' \in [Requests -> Command]
  <2> DEFINE state == IF speaker # Nobody THEN "pending" ELSE "complete"
             owner == IF speaker # Nobody THEN w.owner ELSE NoOwner
             ttl == IF speaker # Nobody THEN Lease ELSE 0
             outcome == IF speaker # Nobody THEN "none" ELSE "not_scheduled"
             new == [NoCommand EXCEPT !.state = state,
                       !.payload = w.payload, !.revision = w.revision,
                       !.human = human, !.speaker = speaker,
                       !.generation = generation,
                       !.owner = owner, !.ttl = ttl, !.outcome = outcome]
  <2>1. cmd' = [cmd EXCEPT ![r] = new]
    BY DEF PrepareNew
  <2>2. /\ w.payload \in Payloads /\ w.revision \in Nat
        /\ w.owner \in Owners \cup {NoOwner} /\ generation \in Nat
    BY <1>1 DEF Worker, TypeOK
  <2> HIDE DEF w, human, speaker
  <2>3. /\ state \in {"none", "pending", "complete"}
        /\ owner \in Owners \cup {NoOwner} /\ ttl \in 0 .. Lease
        /\ outcome \in Outcomes
    BY <2>2, LeaseType DEF Outcomes
  <2> HIDE DEF state, owner, ttl, outcome
  <2>4. new \in Command
    BY <1>1, <1>2, <2>2, <2>3, IdleTypes DEF Command
  <2> HIDE DEF new
  <2>5. QED
    BY <2>1, <2>4 DEF TypeOK
<1>8. worker' \in [Services -> [Requests -> Worker]]
  <2>1. [w EXCEPT !.pc = "stale_check"] \in Worker
    BY <1>1 DEF Worker, Phases
  <2>2. SetWorker(s, r, [w EXCEPT !.pc = "stale_check"])
           \/ SetWorker(s, r, IdleWorker)
    BY DEF PrepareNew, Settle
  <2>3. QED
    BY <2>1, <2>2, IdleTypes, SetWorkerType DEF TypeOK
<1>9. QED
  BY <1>5, <1>6, <1>7, <1>8 DEF PrepareNew, TypeOK, room

\* The steps of a run that touch the row of its request.
LEMMA TypePin ==
    ASSUME TypeOK, NEW s \in Services, NEW r \in Requests, Pin(s, r)
    PROVE  TypeOK'
<1> DEFINE pinned == PinnedDecision(cmd[r])
<1>1. worker[s][r] \in Worker /\ cmd[r] \in Command /\ pinned \in Nat
  BY DEF TypeOK, PinnedDecision, Command
<1>2. [cmd[r] EXCEPT !.decision = pinned] \in Command
  <2> HIDE DEF pinned
  <2>1. QED
    BY <1>1 DEF Command
<1>3. cmd' \in [Requests -> Command]
  BY <1>2 DEF Pin, TypeOK
<1>4. PICK w \in Worker : SetWorker(s, r, w)
  <2> HIDE DEF pinned
  <2> DEFINE ok == pinned = 0 \/ pinned = provider
  <2>1. [worker[s][r] EXCEPT !.pc = IF ok THEN "calling" ELSE "complete",
            !.generated = ~ ok, !.decision = pinned] \in Worker
    BY <1>1 DEF Worker, Phases
  <2> USE DEF pinned
  <2>2. QED
    BY <2>1 DEF Pin
<1>5. worker' \in [Services -> [Requests -> Worker]]
  BY <1>4, SetWorkerType DEF TypeOK
<1>6. QED
  BY <1>3, <1>5 DEF Pin, TypeOK, room, log

LEMMA TypeGenerationFails ==
    ASSUME TypeOK, NEW s \in Services, NEW r \in Requests,
           GenerationFails(s, r)
    PROVE  TypeOK'
<1>1. worker[s][r] \in Worker /\ cmd[r] \in Command
  BY DEF TypeOK
<1>2. cmd' \in [Requests -> Command]
  <2>1. ReleasedBy(cmd[r], worker[s][r].owner) \in Command
    BY <1>1, ReleasedType
  <2>2. \/ cmd' = cmd
        \/ cmd' = [cmd EXCEPT ![r] = ReleasedBy(cmd[r], worker[s][r].owner)]
    BY DEF GenerationFails
  <2>3. QED
    BY <2>1, <2>2 DEF TypeOK
<1>3. [worker[s][r] EXCEPT !.pc = "complete", !.generated = TRUE,
          !.decision = 0] \in Worker
  BY <1>1 DEF Worker, Phases
<1>4. \E w \in Worker : SetWorker(s, r, w)
  BY <1>3, IdleTypes DEF GenerationFails, Settle
<1>5. worker' \in [Services -> [Requests -> Worker]]
  BY <1>4, SetWorkerType DEF TypeOK
<1>6. QED
  BY <1>2, <1>5 DEF GenerationFails, TypeOK, room, log

LEMMA TypeRenew ==
    ASSUME TypeOK, NEW s \in Services, NEW r \in Requests, Renew(s, r)
    PROVE  TypeOK'
<1>1. worker[s][r] \in Worker /\ cmd[r] \in Command
  BY DEF TypeOK
<1>2. [cmd[r] EXCEPT !.ttl = Lease] \in Command
  BY <1>1, LeaseType DEF Command
<1>3. cmd' \in [Requests -> Command]
  BY <1>2 DEF Renew, Renewed, TypeOK
<1>4. [worker[s][r] EXCEPT !.lost = TRUE, !.aborted = TRUE] \in Worker
  BY <1>1 DEF Worker
<1>5. worker' \in [Services -> [Requests -> Worker]]
  BY <1>4, SetWorkerType DEF Renew, TypeOK
<1>6. QED
  BY <1>3, <1>5 DEF Renew, TypeOK, room, log

\* The outcome a commit stores.
LEMMA OutcomeType ==
    ASSUME TypeOK, NEW s \in Services, NEW r \in Requests
    PROVE  OutcomeOf(s, r) \in {"stale", "silence", "text"}
<1>1. worker[s][r].result \in {"none", "silence", "text"}
  BY DEF TypeOK, Worker
<1>2. QED
  BY <1>1 DEF OutcomeOf

LEMMA CompletedType ==
    ASSUME NEW c \in Command, NEW outcome \in {"stale", "silence", "text"},
           NEW sequence \in Nat
    PROVE  Completed(c, outcome, sequence) \in Command
<1> DEFINE reply == IF outcome = "text" THEN sequence ELSE 0
<1>1. reply \in Nat
  OBVIOUS
<1> HIDE DEF reply
<1>2. [c EXCEPT !.state = "complete", !.outcome = outcome, !.reply = reply,
                !.owner = NoOwner, !.ttl = 0] \in Command
  BY <1>1, LeaseType DEF Command, Outcomes
<1>3. QED
  BY <1>2 DEF Completed, reply

LEMMA TypeCompleteCommit ==
    ASSUME TypeOK, NEW s \in Services, NEW r \in Requests,
           CompleteCommit(s, r)
    PROVE  TypeOK'
<1> DEFINE outcome == OutcomeOf(s, r)
           reply == [type |-> "persona_message", speaker |-> cmd[r].speaker,
                     source |-> cmd[r].human]
<1>1. /\ worker[s][r] \in Worker /\ cmd[r] \in Command
      /\ Len(events) + 1 \in Nat
  BY DEF TypeOK
<1>2. outcome \in {"stale", "silence", "text"}
  BY OutcomeType
<1>3. reply \in Event
  BY <1>1 DEF Event, EventTypes, Command
<1>4. events' \in Seq(Event)
  BY <1>3 DEF CompleteCommit, TypeOK
<1>5. cmd' \in [Requests -> Command]
  <2>1. Completed(cmd[r], outcome, Len(events) + 1) \in Command
    BY <1>1, <1>2, CompletedType
  <2>2. QED
    BY <2>1 DEF CompleteCommit, TypeOK
<1>6. snapshot' \in [Requests -> Nat]
  BY <1>1 DEF CompleteCommit, CommittedSnapshot, TypeOK, Worker
<1>7. worker' \in [Services -> [Requests -> Worker]]
  BY IdleTypes, SetWorkerType DEF CompleteCommit, Settle, TypeOK
<1>8. QED
  BY <1>4, <1>5, <1>6, <1>7 DEF CompleteCommit, TypeOK, room

-----------------------------------------------------------------------------
(* Controls and the life of a service *)

LEMMA AbortedType ==
    ASSUME TypeOK, NEW s \in Services,
           worker' = [worker EXCEPT ![s] =
                        [r \in Requests |->
                            IF worker[s][r].pc = "calling"
                            THEN [worker[s][r] EXCEPT !.aborted = TRUE]
                            ELSE worker[s][r]]]
    PROVE  worker' \in [Services -> [Requests -> Worker]]
<1>1. \A r \in Requests : worker[s][r] \in Worker
  BY DEF TypeOK
<1>2. \A r \in Requests :
         [worker[s][r] EXCEPT !.aborted = TRUE] \in Worker
  BY <1>1 DEF Worker
<1>3. QED
  BY <1>1, <1>2 DEF TypeOK

LEMMA FenceType ==
    ASSUME TypeOK, NEW s \in Services, Fence(s) \/ NoFence
    PROVE  /\ generation' \in Nat
           /\ cmd' \in [Requests -> Command]
           /\ worker' \in [Services -> [Requests -> Worker]]
<1>1. CASE Fence(s)
  <2>1. \A r \in Requests : Released(cmd[r]) \in Command
    BY ReleasedType DEF TypeOK
  <2>2. generation' \in Nat /\ cmd' \in [Requests -> Command]
    BY <1>1, <2>1 DEF Fence, TypeOK
  <2>3. worker' \in [Services -> [Requests -> Worker]]
    BY <1>1, AbortedType DEF Fence
  <2>4. QED
    BY <2>2, <2>3
<1>2. CASE NoFence
  BY <1>2 DEF NoFence, TypeOK
<1>3. QED
  BY <1>1, <1>2

LEMMA FencedType ==
    ASSUME TypeOK, RecordFenced PROVE fenced' \in SUBSET Requests
  BY DEF RecordFenced, TypeOK

LEMMA TypeSteer ==
    ASSUME TypeOK, NEW s \in Services, Steer(s)
    PROVE  TypeOK'
<1>1. PICK c \in Controls, revision \in 0 .. selection.revision :
         \/ \E kind \in {"pause", "resume", "stop"} :
               RoomControl(s, c, kind, revision)
         \/ \E kind \in {"mute", "unmute"}, persona \in Personas :
               PersonaControl(s, c, kind, persona, revision)
  BY DEF Steer
<1>2. CASE \E kind \in {"pause", "resume", "stop"} :
              RoomControl(s, c, kind, revision)
  <2>1. PICK kind \in {"pause", "resume", "stop"} :
           RoomControl(s, c, kind, revision)
    BY <1>2
  <2>2. status' \in Statuses
    BY <2>1 DEF RoomControl, TargetStatus, Statuses
  <2>3. Fence(s) \/ NoFence
    BY <2>1 DEF RoomControl
  <2>4. /\ generation' \in Nat
        /\ cmd' \in [Requests -> Command]
        /\ worker' \in [Services -> [Requests -> Worker]]
    BY <2>3, FenceType
  <2>5. ctl' \in [Controls -> Control]
    BY <2>1, <2>4 DEF RoomControl, TypeOK, Control, ControlKinds
  <2>6. fenced' \in SUBSET Requests
    BY <2>1, FencedType DEF RoomControl
  <2>7. QED
    BY <2>1, <2>2, <2>4, <2>5, <2>6 DEF RoomControl, TypeOK, log
<1>3. CASE \E kind \in {"mute", "unmute"}, persona \in Personas :
              PersonaControl(s, c, kind, persona, revision)
  <2>1. PICK kind \in {"mute", "unmute"}, persona \in Personas :
           PersonaControl(s, c, kind, persona, revision)
    BY <1>3
  <2>2. muted' \in SUBSET Personas
    BY <2>1 DEF PersonaControl, TypeOK
  <2>3. Fence(s) \/ NoFence
    BY <2>1 DEF PersonaControl
  <2>4. /\ generation' \in Nat
        /\ cmd' \in [Requests -> Command]
        /\ worker' \in [Services -> [Requests -> Worker]]
    BY <2>3, FenceType
  <2>5. ctl' \in [Controls -> Control]
    BY <2>1, <2>4 DEF PersonaControl, TypeOK, Control, ControlKinds
  <2>6. fenced' \in SUBSET Requests
    BY <2>1, FencedType DEF PersonaControl
  <2>7. QED
    BY <2>1, <2>2, <2>4, <2>5, <2>6 DEF PersonaControl, TypeOK, log
<1>4. QED
  BY <1>1, <1>2, <1>3

LEMMA TypeLife ==
    ASSUME TypeOK, NEW s \in Services, Close(s) \/ Restart(s) \/ Crash(s)
    PROVE  TypeOK'
<1>1. CASE Close(s)
  <2>1. \A r \in Requests :
           ReleasedBy(cmd[r], worker[s][r].owner) \in Command
    BY ReleasedType DEF TypeOK
  <2>2. worker' \in [Services -> [Requests -> Worker]]
    BY <1>1, AbortedType DEF Close
  <2>3. QED
    BY <1>1, <2>1, <2>2 DEF Close, TypeOK, room, log
<1>2. CASE Restart(s)
  BY <1>2 DEF Restart, TypeOK, room, log
<1>3. CASE Crash(s)
  BY <1>3, IdleTypes DEF Crash, TypeOK, room, log
<1>4. QED
  BY <1>1, <1>2, <1>3

LEMMA AgedType ==
    ASSUME NEW c \in Command PROVE Aged(c) \in Command
<1> DEFINE ttl == IF c.ttl > 0 THEN c.ttl - 1 ELSE 0
<1>1. ttl \in 0 .. Lease
  BY ConstantsAssumption DEF Command
<1> HIDE DEF ttl
<1>2. [c EXCEPT !.ttl = ttl] \in Command
  BY <1>1 DEF Command
<1>3. QED
  BY <1>2 DEF Aged, ttl

LEMMA TypeWorld ==
    ASSUME TypeOK,
           Tick \/ Rebind \/ \E here \in BOOLEAN : MoveSelection(here)
    PROVE  TypeOK'
<1>1. CASE Tick
  <2>1. \A r \in Requests : Aged(cmd[r]) \in Command
    BY AgedType DEF TypeOK
  <2>2. QED
    BY <1>1, <2>1 DEF Tick, TypeOK, room, log
<1>2. CASE Rebind
  BY <1>2 DEF Rebind, TypeOK, room, log
<1>3. CASE \E here \in BOOLEAN : MoveSelection(here)
  BY <1>3 DEF MoveSelection, TypeOK, room, log
<1>4. QED
  BY <1>1, <1>2, <1>3

LEMMA TypeStep == TypeOK /\ [Next]_vars => TypeOK'
<1> SUFFICES ASSUME TypeOK, [Next]_vars PROVE TypeOK'
  OBVIOUS
<1>1. ASSUME NEW s \in Services, NEW r \in Requests,
             \E payload \in Payloads, revision \in 0 .. selection.revision :
                SendMessage(s, r, payload, revision)
      PROVE  TypeOK'
  BY <1>1, TypeSend
<1>2. ASSUME NEW s \in Services, NEW r \in Requests, Run(s, r)
      PROVE  TypeOK'
  BY <1>2, TypeQuietRun, TypePrepareClaim, TypePrepareNew, TypePin,
     TypeGenerationFails, TypeRenew, TypeCompleteCommit DEF Run
<1>3. ASSUME NEW s \in Services,
             Steer(s) \/ Close(s) \/ Restart(s) \/ Crash(s)
      PROVE  TypeOK'
  BY <1>3, TypeSteer, TypeLife
<1>4. CASE Tick \/ Rebind \/ \E here \in BOOLEAN : MoveSelection(here)
  BY <1>4, TypeWorld
<1>5. CASE UNCHANGED vars
  BY <1>5 DEF vars, TypeOK
<1>6. QED
  BY <1>1, <1>2, <1>3, <1>4, <1>5 DEF Next

\* Every reachable state of the room service is well formed.
THEOREM TypeCorrect == Spec => []TypeOK
<1>1. Init => TypeOK
  BY TypeInit
<1>2. TypeOK /\ [Next]_vars => TypeOK'
  BY TypeStep
<1>3. QED
  BY <1>1, <1>2, PTL DEF Spec

-----------------------------------------------------------------------------
(***************************************************************************)
(* The log and the rows.  AdmittedOnce and RepliedOnce need the shape of a *)
(* row in each of its states; FencedNeverSpeaks needs that the generation  *)
(* of a fenced request was left behind.                                    *)
(***************************************************************************)

RowShape(r) ==
    /\ cmd[r].state = "none" => cmd[r].ttl = 0 /\ cmd[r].outcome = "none"
    /\ cmd[r].state = "pending" => cmd[r].outcome = "none"
    /\ cmd[r].state = "complete" =>
          /\ cmd[r].outcome # "none"
          /\ cmd[r].owner = NoOwner
          /\ cmd[r].ttl = 0
    /\ cmd[r].state # "none" => cmd[r].generation <= generation

FencedBehind(r) ==
    /\ Admitted(r)
    /\ cmd[r].outcome \in {"none", "stale"}
    /\ cmd[r].generation < generation

IInv ==
    /\ TypeOK
    /\ \A r \in Requests : RowShape(r)
    /\ AdmittedOnce
    /\ RepliedOnce
    /\ \A r \in fenced : FencedBehind(r)

\* A row that neither is admitted nor completes: d is c but for its claim and
\* a decision that was not pinned before.
Keeps(c, d) ==
    /\ d.state = c.state
    /\ d.payload = c.payload
    /\ d.revision = c.revision
    /\ d.human = c.human
    /\ d.speaker = c.speaker
    /\ d.generation = c.generation
    /\ d.outcome = c.outcome
    /\ d.reply = c.reply
    /\ c.decision # 0 => d.decision = c.decision
    /\ c.state # "pending" => d = c

Kept == events' = events /\ \A r \in Requests : Keeps(cmd[r], cmd'[r])

LEMMA ReleasedKeeps ==
    ASSUME NEW c \in Command, NEW owner
    PROVE  Keeps(c, Released(c)) /\ Keeps(c, ReleasedBy(c, owner))
<1>1. Keeps(c, c)
  BY DEF Keeps
<1>2. c.state = "pending" => Keeps(c, [c EXCEPT !.owner = NoOwner, !.ttl = 0])
  BY DEF Command, Keeps
<1>3. QED
  BY <1>1, <1>2 DEF Released, ReleasedBy

\* A claim that has run out, and the row that has none, do not age.
LEMMA AgedKeeps ==
    ASSUME NEW c \in Command, c.state # "pending" => c.ttl = 0
    PROVE  Keeps(c, Aged(c))
<1> DEFINE ttl == IF c.ttl > 0 THEN c.ttl - 1 ELSE 0
<1>1. Aged(c) = [c EXCEPT !.ttl = ttl]
  BY DEF Aged
<1>2. c.ttl = 0 => ttl = c.ttl
  OBVIOUS
<1> HIDE DEF ttl
<1>3. ttl = c.ttl => [c EXCEPT !.ttl = ttl] = c
  BY DEF Command
<1>4. QED
  BY <1>1, <1>2, <1>3 DEF Keeps, Command

LEMMA RowUpdateKept ==
    ASSUME TypeOK, NEW r \in Requests, NEW c, Keeps(cmd[r], c),
           cmd' = [cmd EXCEPT ![r] = c], events' = events
    PROVE  Kept
<1>1. cmd \in [Requests -> Command]
  BY DEF TypeOK
<1>2. cmd'[r] = c /\ \A q \in Requests : q # r => cmd'[q] = cmd[q]
  BY <1>1
<1>3. ASSUME NEW q \in Requests, q # r PROVE Keeps(cmd[q], cmd'[q])
  BY <1>2, <1>3 DEF Keeps
<1>4. QED
  BY <1>2, <1>3 DEF Kept

LEMMA UnchangedKept ==
    ASSUME cmd' = cmd, events' = events PROVE Kept
  BY DEF Kept, Keeps

\* The steps of a run that neither admit nor complete.
QuietRun(s, r) ==
    \/ PrepareRejected(s, r)
    \/ PrepareReplay(s, r)
    \/ PrepareObserve(s, r)
    \/ PollElapsed(s, r)
    \/ CheckStale(s, r)
    \/ \E result \in {"silence", "text"} : ProviderReturns(s, r, result)
    \/ CompleteSettled(s, r)
    \/ CompleteLost(s, r)
    \/ PrepareClaim(s, r)
    \/ Pin(s, r)
    \/ GenerationFails(s, r)
    \/ Renew(s, r)

LEMMA QuietRunKept ==
    ASSUME TypeOK, NEW s \in Services, NEW r \in Requests, QuietRun(s, r)
    PROVE  Kept /\ UNCHANGED <<generation, fenced>>
<1>1. cmd[r] \in Command /\ worker[s][r] \in Worker
  BY DEF TypeOK
<1>2. UNCHANGED <<generation, fenced>> /\ events' = events
  BY DEF QuietRun, PrepareRejected, PrepareReplay, PrepareObserve,
         PollElapsed, CheckStale, ProviderReturns, CompleteSettled,
         CompleteLost, PrepareClaim, Pin, GenerationFails, Renew, room, log
<1>3. CASE cmd' = cmd
  BY <1>2, <1>3, UnchangedKept
<1>4. CASE PrepareClaim(s, r)
  <2> DEFINE c == [cmd[r] EXCEPT !.owner = worker[s][r].owner, !.ttl = Lease]
  <2>1. cmd' = [cmd EXCEPT ![r] = c] /\ cmd[r].state = "pending"
    BY <1>4 DEF PrepareClaim, TypeOK
  <2>2. Keeps(cmd[r], c)
    BY <1>1, <2>1 DEF Command, Keeps
  <2> HIDE DEF c
  <2>3. QED
    BY <1>2, <2>1, <2>2, RowUpdateKept
<1>5. CASE Pin(s, r)
  <2> DEFINE pinned == PinnedDecision(cmd[r])
             c == [cmd[r] EXCEPT !.decision = pinned]
  <2>1. cmd[r].decision # 0 => pinned = cmd[r].decision
    BY DEF PinnedDecision
  <2>2. cmd' = [cmd EXCEPT ![r] = c] /\ cmd[r].state = "pending"
    BY <1>5 DEF Pin, TypeOK
  <2> HIDE DEF pinned
  <2>3. Keeps(cmd[r], c)
    BY <1>1, <2>1, <2>2 DEF Command, Keeps
  <2> HIDE DEF c
  <2>4. QED
    BY <1>2, <2>2, <2>3, RowUpdateKept
<1>6. CASE GenerationFails(s, r) /\ cmd' # cmd
  <2> DEFINE c == ReleasedBy(cmd[r], worker[s][r].owner)
  <2>1. cmd' = [cmd EXCEPT ![r] = c]
    BY <1>6 DEF GenerationFails
  <2>2. Keeps(cmd[r], c)
    BY <1>1, ReleasedKeeps
  <2> HIDE DEF c
  <2>3. QED
    BY <1>2, <2>1, <2>2, RowUpdateKept
<1>7. CASE Renew(s, r) /\ cmd' # cmd
  <2> DEFINE c == [cmd[r] EXCEPT !.ttl = Lease]
  <2>1. cmd' = [cmd EXCEPT ![r] = c] /\ cmd[r].state = "pending"
    BY <1>7 DEF Renew, Renewed, TypeOK
  <2>2. Keeps(cmd[r], c)
    BY <1>1, <2>1 DEF Command, Keeps
  <2> HIDE DEF c
  <2>3. QED
    BY <1>2, <2>1, <2>2, RowUpdateKept
<1>8. QED
  BY <1>2, <1>3, <1>4, <1>5, <1>6, <1>7
  DEF QuietRun, PrepareRejected, PrepareReplay, PrepareObserve,
      PollElapsed, CheckStale, ProviderReturns, CompleteSettled, CompleteLost

\* The steps outside the runs: sending, steering, living, the world.
LEMMA OutsideKept ==
    ASSUME TypeOK, \A r \in Requests : RowShape(r),
           \/ \E s \in Services, r \in Requests, payload \in Payloads,
                 revision \in 0 .. selection.revision :
                    SendMessage(s, r, payload, revision)
           \/ \E s \in Services : Close(s) \/ Restart(s) \/ Crash(s)
           \/ \E here \in BOOLEAN : MoveSelection(here)
           \/ Rebind
           \/ Tick
           \/ UNCHANGED vars
    PROVE  Kept /\ UNCHANGED <<generation, fenced>>
<1>1. UNCHANGED <<generation, fenced>> /\ events' = events
  BY DEF SendMessage, Close, Restart, Crash, MoveSelection, Rebind, Tick,
         vars, room, log
<1>2. CASE cmd' = cmd
  BY <1>1, <1>2, UnchangedKept
<1>3. CASE \E s \in Services : Close(s)
  <2>1. PICK s \in Services : Close(s)
    BY <1>3
  <2>2. ASSUME NEW r \in Requests PROVE Keeps(cmd[r], cmd'[r])
    <3>1. cmd'[r] = ReleasedBy(cmd[r], worker[s][r].owner)
      BY <2>1 DEF Close
    <3>2. cmd[r] \in Command
      BY DEF TypeOK
    <3>3. QED
      BY <3>1, <3>2, ReleasedKeeps
  <2>3. QED
    BY <1>1, <2>2 DEF Kept
<1>4. CASE Tick
  <2>1. ASSUME NEW r \in Requests PROVE Keeps(cmd[r], cmd'[r])
    <3>1. cmd'[r] = Aged(cmd[r])
      BY <1>4 DEF Tick
    <3>2. cmd[r] \in Command
      BY DEF TypeOK
    <3>3. cmd[r].state # "pending" => cmd[r].ttl = 0
      BY <3>2 DEF RowShape, Command
    <3>4. QED
      BY <3>1, <3>2, <3>3, AgedKeeps
  <2>2. QED
    BY <1>1, <2>1 DEF Kept
<1>5. QED
  BY <1>2, <1>3, <1>4
  DEF SendMessage, Restart, Crash, MoveSelection, Rebind, vars

\* A control keeps the rows; what it fences is left a generation behind.
LEMMA SteerKept ==
    ASSUME TypeOK, NEW s \in Services, Steer(s)
    PROVE  /\ Kept
           /\ generation' >= generation
           /\ \/ fenced' = fenced
              \/ /\ generation' = generation + 1
                 /\ fenced' = fenced \cup
                       {r \in Requests : cmd[r].state = "pending"}
<1>1. events' = events /\ (Fence(s) \/ NoFence) /\ RecordFenced
  BY DEF Steer, RoomControl, PersonaControl, log
<1>2. Kept
  <2>1. CASE NoFence
    BY <1>1, <2>1, UnchangedKept DEF NoFence
  <2>2. CASE Fence(s)
    <3>1. ASSUME NEW r \in Requests PROVE Keeps(cmd[r], cmd'[r])
      <4>1. cmd'[r] = Released(cmd[r])
        BY <2>2 DEF Fence
      <4>2. cmd[r] \in Command
        BY DEF TypeOK
      <4>3. QED
        BY <4>1, <4>2, ReleasedKeeps
    <3>2. QED
      BY <1>1, <3>1 DEF Kept
  <2>3. QED
    BY <1>1, <2>1, <2>2
<1>3. generation' >= generation
  BY <1>1 DEF Fence, NoFence, TypeOK
<1>4. fenced' # fenced => Fence(s)
  <2>1. SUFFICES ASSUME fenced' # fenced PROVE Fence(s)
    OBVIOUS
  <2>2. \/ status' # status /\ status' # "active"
        \/ muted' \ muted # {}
    BY <1>1, <2>1 DEF RecordFenced
  <2>3. PICK c \in Controls, revision \in 0 .. selection.revision :
           \/ \E kind \in {"pause", "resume", "stop"} :
                 RoomControl(s, c, kind, revision)
           \/ \E kind \in {"mute", "unmute"}, persona \in Personas :
                 PersonaControl(s, c, kind, persona, revision)
    BY DEF Steer
  <2>4. ASSUME NEW kind \in {"pause", "resume", "stop"},
               RoomControl(s, c, kind, revision)
        PROVE  Fence(s)
    <3>1. muted' = muted /\ status' = TargetStatus(kind)
      BY <2>4 DEF RoomControl
    <3>2. kind # "resume"
      BY <2>2, <3>1 DEF TargetStatus
    <3>3. QED
      BY <2>2, <2>4, <3>1, <3>2 DEF RoomControl
  <2>5. ASSUME NEW kind \in {"mute", "unmute"}, NEW persona \in Personas,
               PersonaControl(s, c, kind, persona, revision)
        PROVE  Fence(s)
    <3>1. status' = status /\ muted' \ muted # {}
      BY <2>2, <2>5 DEF PersonaControl
    <3>2. kind = "mute" /\ persona \notin muted
      BY <2>5, <3>1 DEF PersonaControl
    <3>3. QED
      BY <2>5, <3>2 DEF PersonaControl, MuteFences
  <2>6. QED
    BY <2>3, <2>4, <2>5
<1>5. QED
  BY <1>1, <1>2, <1>3, <1>4 DEF Fence, RecordFenced

-----------------------------------------------------------------------------
(* The invariant is inductive *)

LEMMA IInvInit == Init => IInv
<1> SUFFICES ASSUME Init PROVE IInv
  OBVIOUS
<1>1. TypeOK
  BY TypeInit
<1>2. \A r \in Requests : cmd[r] = NoCommand
  BY DEF Init
<1>3. events = <<>> /\ fenced = {}
  BY DEF Init
<1>4. QED
  BY <1>1, <1>2, <1>3
  DEF IInv, RowShape, NoCommand, AdmittedOnce, RepliedOnce, Admitted

\* A step that keeps the rows and the log keeps the invariant, whether or not
\* it fences.
LEMMA KeptStep ==
    ASSUME IInv, TypeOK', Kept, generation' >= generation,
           \/ fenced' = fenced
           \/ /\ generation' = generation + 1
              /\ fenced' = fenced \cup {r \in Requests : cmd[r].state = "pending"}
    PROVE  IInv'
<1>1. /\ generation \in Nat /\ generation' \in Nat
      /\ cmd \in [Requests -> Command] /\ cmd' \in [Requests -> Command]
      /\ fenced \in SUBSET Requests
  BY DEF IInv, TypeOK
<1>2. ASSUME NEW r \in Requests
      PROVE  /\ cmd'[r].state = cmd[r].state
             /\ cmd'[r].human = cmd[r].human
             /\ cmd'[r].speaker = cmd[r].speaker
             /\ cmd'[r].generation = cmd[r].generation
             /\ cmd'[r].outcome = cmd[r].outcome
             /\ cmd'[r].reply = cmd[r].reply
             /\ cmd[r].generation \in Nat
             /\ cmd[r].state # "pending" => cmd'[r] = cmd[r]
  BY <1>1 DEF Kept, Keeps, Command
<1>3. events' = events
  BY DEF Kept
<1>4. \A r \in Requests : RowShape(r)'
  BY <1>1, <1>2 DEF IInv, RowShape
<1>5. AdmittedOnce'
  BY <1>2, <1>3 DEF IInv, AdmittedOnce, Admitted
<1>6. RepliedOnce'
  BY <1>2, <1>3 DEF IInv, RepliedOnce, IsReply
<1>7. ASSUME NEW r \in fenced' PROVE FencedBehind(r)'
  <2>1. r \in Requests
    BY <1>1
  <2>2. CASE r \in fenced
    BY <1>1, <1>2, <2>1, <2>2 DEF IInv, FencedBehind, Admitted
  <2>3. CASE r \notin fenced
    <3>1. cmd[r].state = "pending" /\ generation' = generation + 1
      BY <2>3
    <3>2. QED
      BY <1>1, <1>2, <2>1, <3>1 DEF IInv, RowShape, FencedBehind, Admitted
  <2>4. QED
    BY <2>2, <2>3
<1>8. QED
  BY <1>4, <1>5, <1>6, <1>7 DEF IInv

\* What admitting a request writes: two events at the end of the log and the
\* row of the request, pending or complete.
LEMMA NewFacts ==
    ASSUME IInv, TypeOK', NEW s \in Services, NEW r \in Requests,
           PrepareNew(s, r)
    PROVE  /\ generation' = generation /\ fenced' = fenced
           /\ cmd[r].state = "none"
           /\ \A q \in Requests : q # r => cmd'[q] = cmd[q]
           /\ cmd'[r].human = Len(events) + 1
           /\ cmd'[r].generation = generation
           /\ \/ /\ cmd'[r].state = "pending" /\ cmd'[r].outcome = "none"
              \/ /\ cmd'[r].state = "complete"
                 /\ cmd'[r].outcome = "not_scheduled"
                 /\ cmd'[r].owner = NoOwner /\ cmd'[r].ttl = 0
           /\ Len(events) \in Nat /\ Len(events') = Len(events) + 2
           /\ \A i \in 1 .. Len(events) : events'[i] = events[i]
           /\ events'[Len(events) + 1].type = "human_message"
           /\ events'[Len(events) + 2] =
                 [type |-> "director_decision", speaker |-> cmd'[r].speaker,
                  source |-> Len(events) + 1]
           /\ DOMAIN events = 1 .. Len(events)
           /\ DOMAIN events' = 1 .. (Len(events) + 2)
<1> DEFINE human == Len(events) + 1
           message == [type |-> "human_message", speaker |-> Nobody,
                       source |-> 0]
           speaker == Speaker(Append(events, message), worker[s][r].payload)
           decision == [type |-> "director_decision", speaker |-> speaker,
                        source |-> human]
<1>1. /\ generation \in Nat /\ generation' = generation /\ fenced' = fenced
      /\ cmd \in [Requests -> Command] /\ cmd' \in [Requests -> Command]
      /\ events \in Seq(Event) /\ events' \in Seq(Event)
      /\ fenced \in SUBSET Requests /\ cmd[r].state = "none"
  BY DEF IInv, TypeOK, PrepareNew, IsNew, room
<1>2. \A q \in Requests : q # r => cmd'[q] = cmd[q]
  BY <1>1 DEF PrepareNew
<1>3. /\ cmd'[r].human = human /\ cmd'[r].speaker = speaker
      /\ cmd'[r].generation = generation
      /\ \/ /\ cmd'[r].state = "pending" /\ cmd'[r].outcome = "none"
         \/ /\ cmd'[r].state = "complete"
            /\ cmd'[r].outcome = "not_scheduled"
            /\ cmd'[r].owner = NoOwner /\ cmd'[r].ttl = 0
  <2> DEFINE w == worker[s][r]
             scheduled == speaker # Nobody
             state == IF scheduled THEN "pending" ELSE "complete"
             owner == IF scheduled THEN w.owner ELSE NoOwner
             ttl == IF scheduled THEN Lease ELSE 0
             outcome == IF scheduled THEN "none" ELSE "not_scheduled"
             new == [NoCommand EXCEPT !.state = state,
                       !.payload = w.payload, !.revision = w.revision,
                       !.human = human, !.speaker = speaker,
                       !.generation = generation,
                       !.owner = owner, !.ttl = ttl, !.outcome = outcome]
  <2>1. cmd' = [cmd EXCEPT ![r] = new]
    BY DEF PrepareNew
  <2>2. \/ state = "pending" /\ outcome = "none"
        \/ /\ state = "complete" /\ outcome = "not_scheduled"
           /\ owner = NoOwner /\ ttl = 0
    OBVIOUS
  <2> HIDE DEF w, human, speaker, state, owner, ttl, outcome
  <2>3. /\ new.state = state /\ new.human = human /\ new.speaker = speaker
        /\ new.generation = generation /\ new.owner = owner
        /\ new.ttl = ttl /\ new.outcome = outcome
    BY DEF NoCommand
  <2> HIDE DEF new
  <2>4. cmd'[r] = new
    BY <1>1, <2>1
  <2>5. QED
    BY <2>2, <2>3, <2>4
<1>4. events' = Append(Append(events, message), decision)
  BY DEF PrepareNew
<1>5. /\ Len(events) \in Nat /\ Len(events') = Len(events) + 2
      /\ \A i \in 1 .. Len(events) : events'[i] = events[i]
      /\ events'[Len(events) + 1] = message
      /\ events'[Len(events) + 2] = decision
      /\ DOMAIN events = 1 .. Len(events)
      /\ DOMAIN events' = 1 .. (Len(events) + 2)
  <2> HIDE DEF human, speaker
  <2>1. message \in Event /\ decision \in Event
    <3>1. message \in Event
      BY DEF Event, EventTypes
    <3>2. Append(events, message) \in Seq(Event)
      BY <1>1, <3>1
    <3>3. human \in Nat /\ speaker \in Personas \cup {Nobody}
      <4>1. cmd'[r] \in Command
        BY <1>1
      <4>2. QED
        BY <1>3, <4>1 DEF Command
    <3>4. QED
      BY <3>1, <3>3 DEF Event, EventTypes
  <2> HIDE DEF message, decision
  <2>2. QED
    BY <1>1, <1>4, <2>1
<1>6. /\ message.type = "human_message" /\ decision.type = "director_decision"
      /\ message.type # "persona_message" /\ decision.type # "persona_message"
      /\ human = Len(events) + 1
  OBVIOUS
<1> HIDE DEF speaker
<1>7. QED
  BY <1>1, <1>2, <1>3, <1>5

\* A new request brings its human message and its decision, at places of the
\* log that no other row names.
LEMMA NewStep ==
    ASSUME IInv, TypeOK', NEW s \in Services, NEW r \in Requests,
           PrepareNew(s, r)
    PROVE  IInv'
<1> DEFINE human == Len(events) + 1
           decision == [type |-> "director_decision",
                        speaker |-> cmd'[r].speaker, source |-> human]
<1>1. /\ generation \in Nat /\ generation' = generation /\ fenced' = fenced
      /\ cmd \in [Requests -> Command] /\ cmd' \in [Requests -> Command]
      /\ events \in Seq(Event) /\ events' \in Seq(Event)
      /\ fenced \in SUBSET Requests /\ cmd[r].state = "none"
  BY NewFacts DEF IInv, TypeOK
<1>2. \A q \in Requests : q # r => cmd'[q] = cmd[q]
  BY NewFacts
<1>3. /\ cmd'[r].human = human
      /\ cmd'[r].generation = generation
      /\ \/ /\ cmd'[r].state = "pending" /\ cmd'[r].outcome = "none"
         \/ /\ cmd'[r].state = "complete"
            /\ cmd'[r].outcome = "not_scheduled"
            /\ cmd'[r].owner = NoOwner /\ cmd'[r].ttl = 0
  BY NewFacts
<1>5. /\ Len(events) \in Nat /\ Len(events') = Len(events) + 2
      /\ \A i \in 1 .. Len(events) : events'[i] = events[i]
      /\ events'[Len(events) + 1].type = "human_message"
      /\ events'[Len(events) + 2] = decision
      /\ DOMAIN events = 1 .. Len(events)
      /\ DOMAIN events' = 1 .. (Len(events) + 2)
  BY NewFacts
<1>6. decision.type = "director_decision" /\ human = Len(events) + 1
  OBVIOUS
<1>7. \A q \in Requests : RowShape(q)'
  <2>1. RowShape(r)'
    BY <1>1, <1>3 DEF RowShape
  <2>2. ASSUME NEW q \in Requests, q # r PROVE RowShape(q)'
    BY <1>1, <1>2, <2>2 DEF IInv, RowShape
  <2>3. QED
    BY <2>1, <2>2
<1>8. ASSUME NEW q \in Requests, q # r, Admitted(q)
      PROVE  /\ cmd[q].human \in 1 .. Len(events)
             /\ cmd[q].human + 1 \in 1 .. Len(events)
  BY <1>5, <1>8 DEF IInv, AdmittedOnce
<1>9. AdmittedOnce'
  <2>1. ASSUME NEW q \in Requests, Admitted(q)'
        PROVE  /\ cmd'[q].human + 1 \in DOMAIN events'
               /\ cmd'[q].human \in DOMAIN events'
               /\ events'[cmd'[q].human].type = "human_message"
               /\ events'[cmd'[q].human + 1] =
                     [type |-> "director_decision", speaker |-> cmd'[q].speaker,
                      source |-> cmd'[q].human]
    <3>1. CASE q = r
      BY <3>1, <1>3, <1>5, <1>6
    <3>2. CASE q # r
      <4>1. Admitted(q) /\ cmd'[q] = cmd[q]
        BY <2>1, <3>2, <1>2 DEF Admitted
      <4>2. /\ events'[cmd[q].human] = events[cmd[q].human]
            /\ events'[cmd[q].human + 1] = events[cmd[q].human + 1]
            /\ cmd[q].human \in DOMAIN events'
            /\ cmd[q].human + 1 \in DOMAIN events'
        BY <1>5, <1>8, <3>2, <4>1
      <4>3. QED
        BY <4>1, <4>2 DEF IInv, AdmittedOnce
    <3>3. QED
      BY <3>1, <3>2
  <2>2. ASSUME NEW i \in DOMAIN events'
        PROVE  /\ events'[i].type = "human_message" =>
                     \E q \in Requests : Admitted(q)' /\ cmd'[q].human = i
               /\ events'[i].type = "director_decision" =>
                     \E q \in Requests : Admitted(q)' /\ cmd'[q].human + 1 = i
    <3>1. CASE i \in 1 .. Len(events)
      <4>1. \A q \in Requests : Admitted(q) =>
               q # r /\ Admitted(q)' /\ cmd'[q] = cmd[q]
        BY <1>1, <1>2 DEF Admitted
      <4>2. events'[i] = events[i] /\ i \in DOMAIN events
        BY <1>5, <3>1
      <4>3. QED
        BY <4>1, <4>2 DEF IInv, AdmittedOnce
    <3>2. Admitted(r)' /\ cmd'[r].human = Len(events) + 1
      BY <1>3 DEF Admitted
    <3>3. CASE i = Len(events) + 1
      BY <1>5, <1>6, <3>2, <3>3
    <3>4. CASE i = Len(events) + 2
      BY <1>5, <1>6, <3>2, <3>4
    <3>5. QED
      BY <1>5, <3>1, <3>3, <3>4
  <2>3. ASSUME NEW p \in Requests, NEW q \in Requests,
               Admitted(p)', Admitted(q)', cmd'[p].human = cmd'[q].human
        PROVE  p = q
    <3>1. \A x \in Requests : x # r /\ Admitted(x)' =>
             /\ Admitted(x) /\ cmd'[x] = cmd[x]
             /\ cmd'[x].human # Len(events) + 1
      BY <1>2, <1>5, <1>8 DEF Admitted
    <3>2. cmd'[r].human = Len(events) + 1
      BY <1>3
    <3>3. QED
      BY <2>3, <3>1, <3>2 DEF IInv, AdmittedOnce
  <2>4. QED
    BY <2>1, <2>2, <2>3 DEF AdmittedOnce
<1>10. RepliedOnce'
  <2>1. \A i \in DOMAIN events' : IsReply(i)' =>
           i \in DOMAIN events /\ IsReply(i) /\ events'[i] = events[i]
    <3> SUFFICES ASSUME NEW i \in DOMAIN events', IsReply(i)'
                 PROVE  i \in DOMAIN events /\ IsReply(i)
                        /\ events'[i] = events[i]
      OBVIOUS
    <3>1. i # Len(events) + 1 /\ i # Len(events) + 2
      BY <1>5, <1>6 DEF IsReply
    <3>2. i \in 1 .. Len(events)
      BY <1>5, <3>1
    <3>3. QED
      BY <1>5, <3>2 DEF IsReply
  <2>2. \A q \in Requests :
           /\ cmd[q].outcome = "text" => q # r /\ cmd'[q] = cmd[q]
           /\ cmd'[q].outcome = "text" => q # r /\ cmd'[q] = cmd[q]
    BY <1>1, <1>2, <1>3 DEF IInv, RowShape
  <2>3. \A i \in DOMAIN events : i \in DOMAIN events' /\ events'[i] = events[i]
    BY <1>5
  <2>4. QED
    BY <2>1, <2>2, <2>3 DEF IInv, RepliedOnce, IsReply
<1>11. \A q \in fenced' : FencedBehind(q)'
  <2>1. \A q \in fenced : q # r
    BY <1>1 DEF IInv, FencedBehind, Admitted
  <2>2. QED
    BY <1>1, <1>2, <2>1 DEF IInv, FencedBehind, Admitted
<1>12. QED
  BY <1>7, <1>9, <1>10, <1>11 DEF IInv

\* A commit completes one pending row; its reply, if any, is the new last
\* event, and a fenced request completes as stale.
LEMMA CommitStep ==
    ASSUME IInv, TypeOK', NEW s \in Services, NEW r \in Requests,
           CompleteCommit(s, r)
    PROVE  IInv'
<1> DEFINE outcome == OutcomeOf(s, r)
           reply == [type |-> "persona_message", speaker |-> cmd[r].speaker,
                     source |-> cmd[r].human]
<1>1. /\ generation \in Nat /\ generation' = generation /\ fenced' = fenced
      /\ cmd \in [Requests -> Command] /\ cmd' \in [Requests -> Command]
      /\ events \in Seq(Event) /\ fenced \in SUBSET Requests
  BY DEF IInv, TypeOK, CompleteCommit, room
<1>2. cmd[r].state = "pending" /\ cmd[r].outcome = "none"
  <2>1. cmd[r].state # "complete" /\ cmd[r].ttl > 0
    BY DEF CompleteCommit, HoldsClaim
  <2>2. cmd[r] \in Command /\ RowShape(r)
    BY <1>1 DEF IInv
  <2>3. QED
    BY <2>1, <2>2 DEF RowShape, Command
<1>3. \A q \in Requests : q # r => cmd'[q] = cmd[q]
  BY <1>1 DEF CompleteCommit
<1>4. outcome \in {"stale", "silence", "text"}
  BY OutcomeType DEF IInv
<1>5. r \in fenced => outcome = "stale"
  <2>1. r \in fenced => cmd[r].generation # generation
    <3>1. cmd[r].generation \in Nat
      BY <1>1 DEF Command
    <3>2. QED
      BY <1>1, <3>1 DEF IInv, FencedBehind
  <2>2. QED
    BY <2>1 DEF OutcomeOf, StaleAtCommit, Stale
<1>6. /\ events' = IF outcome = "text" THEN Append(events, reply) ELSE events
      /\ cmd' = [cmd EXCEPT ![r] =
                   Completed(cmd[r], outcome, Len(events) + 1)]
  BY DEF CompleteCommit
<1> HIDE DEF outcome
<1>7. /\ cmd'[r].state = "complete" /\ cmd'[r].outcome = outcome
      /\ cmd'[r].human = cmd[r].human /\ cmd'[r].speaker = cmd[r].speaker
      /\ cmd'[r].generation = cmd[r].generation
      /\ cmd'[r].owner = NoOwner /\ cmd'[r].ttl = 0
      /\ outcome = "text" => cmd'[r].reply = Len(events) + 1
  <2> DEFINE sequence == IF outcome = "text" THEN Len(events) + 1 ELSE 0
             c == [cmd[r] EXCEPT !.state = "complete", !.outcome = outcome,
                     !.reply = sequence, !.owner = NoOwner, !.ttl = 0]
  <2>1. cmd' = [cmd EXCEPT ![r] = c]
    BY <1>6 DEF Completed
  <2>2. outcome = "text" => sequence = Len(events) + 1
    OBVIOUS
  <2> HIDE DEF sequence
  <2>3. cmd[r] \in Command
    BY <1>1
  <2>4. /\ c.state = "complete" /\ c.outcome = outcome
        /\ c.human = cmd[r].human /\ c.speaker = cmd[r].speaker
        /\ c.generation = cmd[r].generation
        /\ c.owner = NoOwner /\ c.ttl = 0 /\ c.reply = sequence
    BY <2>3 DEF Command
  <2> HIDE DEF c
  <2>5. cmd'[r] = c
    BY <1>1, <2>1
  <2>6. QED
    BY <2>2, <2>4, <2>5
<1>8. /\ Len(events) \in Nat /\ DOMAIN events = 1 .. Len(events)
      /\ outcome # "text" => events' = events
      /\ outcome = "text" =>
            /\ DOMAIN events' = 1 .. (Len(events) + 1)
            /\ \A i \in 1 .. Len(events) : events'[i] = events[i]
            /\ events'[Len(events) + 1] = reply
  <2>1. reply \in Event
    BY <1>1 DEF Event, EventTypes, Command
  <2> HIDE DEF reply
  <2>2. QED
    BY <1>1, <1>6, <2>1
<1>9. /\ reply.type = "persona_message" /\ reply.speaker = cmd[r].speaker
      /\ reply.source = cmd[r].human
  OBVIOUS
<1> HIDE DEF reply
<1>10. \A i \in DOMAIN events : i \in DOMAIN events' /\ events'[i] = events[i]
  BY <1>8
<1>11. \A i \in DOMAIN events' :
          i \in DOMAIN events \/
          (i = Len(events) + 1 /\ outcome = "text" /\ events'[i] = reply)
  BY <1>8
<1>12. \A q \in Requests :
          /\ Admitted(q)' <=> Admitted(q)
          /\ cmd'[q].human = cmd[q].human
          /\ cmd'[q].speaker = cmd[q].speaker
  BY <1>2, <1>3, <1>7 DEF Admitted
<1>13. \A q \in Requests : RowShape(q)'
  <2>1. RowShape(r)'
    BY <1>1, <1>2, <1>4, <1>7 DEF IInv, RowShape
  <2>2. ASSUME NEW q \in Requests, q # r PROVE RowShape(q)'
    BY <1>1, <1>3, <2>2 DEF IInv, RowShape
  <2>3. QED
    BY <2>1, <2>2
<1>14. AdmittedOnce'
  <2>1. ASSUME NEW q \in Requests, Admitted(q)'
        PROVE  /\ cmd'[q].human + 1 \in DOMAIN events'
               /\ cmd'[q].human \in DOMAIN events'
               /\ events'[cmd'[q].human].type = "human_message"
               /\ events'[cmd'[q].human + 1] =
                     [type |-> "director_decision", speaker |-> cmd'[q].speaker,
                      source |-> cmd'[q].human]
    BY <1>10, <1>12, <2>1 DEF IInv, AdmittedOnce
  <2>2. ASSUME NEW i \in DOMAIN events'
        PROVE  /\ events'[i].type = "human_message" =>
                     \E q \in Requests : Admitted(q)' /\ cmd'[q].human = i
               /\ events'[i].type = "director_decision" =>
                     \E q \in Requests : Admitted(q)' /\ cmd'[q].human + 1 = i
    <3>1. CASE i \in DOMAIN events
      BY <1>10, <1>12, <3>1 DEF IInv, AdmittedOnce
    <3>2. CASE i \notin DOMAIN events
      BY <1>9, <1>11, <3>2
    <3>3. QED
      BY <3>1, <3>2
  <2>3. ASSUME NEW p \in Requests, NEW q \in Requests,
               Admitted(p)', Admitted(q)', cmd'[p].human = cmd'[q].human
        PROVE  p = q
    BY <1>12, <2>3 DEF IInv, AdmittedOnce
  <2>4. QED
    BY <2>1, <2>2, <2>3 DEF AdmittedOnce
<1>15. RepliedOnce'
  <2>1. ASSUME NEW i \in DOMAIN events', IsReply(i)'
        PROVE  \E q \in Requests :
                  /\ cmd'[q].outcome = "text" /\ cmd'[q].reply = i
                  /\ cmd'[q].human = events'[i].source
                  /\ cmd'[q].speaker = events'[i].speaker
    <3>1. CASE i \in DOMAIN events
      <4>1. IsReply(i) /\ events'[i] = events[i]
        BY <1>10, <2>1, <3>1 DEF IsReply
      <4>2. PICK q \in Requests :
               /\ cmd[q].outcome = "text" /\ cmd[q].reply = i
               /\ cmd[q].human = events[i].source
               /\ cmd[q].speaker = events[i].speaker
        BY <3>1, <4>1 DEF IInv, RepliedOnce
      <4>3. cmd'[q] = cmd[q]
        BY <1>2, <1>3, <4>2
      <4>4. QED
        BY <4>1, <4>2, <4>3
    <3>2. CASE i \notin DOMAIN events
      BY <1>7, <1>9, <1>11, <3>2
    <3>3. QED
      BY <3>1, <3>2
  <2>2. ASSUME NEW q \in Requests, cmd'[q].outcome = "text"
        PROVE  cmd'[q].reply \in DOMAIN events' /\ IsReply(cmd[q].reply)'
    <3>1. CASE q = r
      BY <1>7, <1>8, <1>9, <2>2, <3>1 DEF IsReply
    <3>2. CASE q # r
      <4>1. cmd'[q] = cmd[q]
        BY <1>3, <3>2
      <4>2. cmd[q].reply \in DOMAIN events /\ IsReply(cmd[q].reply)
        BY <2>2, <4>1 DEF IInv, RepliedOnce
      <4>3. QED
        BY <1>10, <4>1, <4>2 DEF IsReply
    <3>3. QED
      BY <3>1, <3>2
  <2>3. ASSUME NEW i \in DOMAIN events', NEW j \in DOMAIN events',
               IsReply(i)', IsReply(j)', events'[i].source = events'[j].source
        PROVE  i = j
    <3>1. PICK p \in Requests :
             /\ cmd'[p].outcome = "text" /\ cmd'[p].reply = i
             /\ cmd'[p].human = events'[i].source
      BY <2>1, <2>3
    <3>2. PICK q \in Requests :
             /\ cmd'[q].outcome = "text" /\ cmd'[q].reply = j
             /\ cmd'[q].human = events'[j].source
      BY <2>1, <2>3
    <3>3. Admitted(p)' /\ Admitted(q)'
      BY <1>13, <3>1, <3>2 DEF RowShape, Admitted
    <3>4. p = q
      BY <1>14, <2>3, <3>1, <3>2, <3>3 DEF AdmittedOnce
    <3>5. QED
      BY <3>1, <3>2, <3>4
  <2>4. QED
    BY <2>1, <2>2, <2>3 DEF RepliedOnce, IsReply
<1>16. \A q \in fenced' : FencedBehind(q)'
  <2>1. ASSUME NEW q \in fenced PROVE FencedBehind(q)'
    <3>1. CASE q = r
      BY <1>1, <1>5, <1>7, <1>12, <3>1 DEF IInv, FencedBehind, Admitted
    <3>2. CASE q # r
      BY <1>1, <1>3, <3>2 DEF IInv, FencedBehind, Admitted
    <3>3. QED
      BY <3>1, <3>2
  <2>2. QED
    BY <1>1, <2>1
<1>17. QED
  BY <1>13, <1>14, <1>15, <1>16 DEF IInv

\* Every step of the room service keeps rows and log, admits, or commits.
LEMMA StepKinds ==
    ASSUME IInv, [Next]_vars
    PROVE  \/ Kept /\ UNCHANGED <<generation, fenced>>
           \/ \E s \in Services : Steer(s)
           \/ \E s \in Services, r \in Requests : PrepareNew(s, r)
           \/ \E s \in Services, r \in Requests : CompleteCommit(s, r)
<1>1. TypeOK /\ \A r \in Requests : RowShape(r)
  BY DEF IInv
<1>2. ASSUME NEW s \in Services, NEW r \in Requests, Run(s, r)
      PROVE  QuietRun(s, r) \/ PrepareNew(s, r) \/ CompleteCommit(s, r)
  BY <1>2 DEF Run, QuietRun
<1>3. QED
  BY <1>1, <1>2, QuietRunKept, OutsideKept DEF Next

LEMMA IInvStep == IInv /\ [Next]_vars => IInv'
<1> SUFFICES ASSUME IInv, [Next]_vars PROVE IInv'
  OBVIOUS
<1>1. TypeOK /\ TypeOK'
  BY TypeStep DEF IInv
<1>2. CASE Kept /\ UNCHANGED <<generation, fenced>>
  <2>1. generation' >= generation
    BY <1>1, <1>2 DEF TypeOK
  <2>2. QED
    BY <1>1, <1>2, <2>1, KeptStep
<1>3. CASE \E s \in Services : Steer(s)
  BY <1>1, <1>3, SteerKept, KeptStep
<1>4. CASE \E s \in Services, r \in Requests : PrepareNew(s, r)
  BY <1>1, <1>4, NewStep
<1>5. CASE \E s \in Services, r \in Requests : CompleteCommit(s, r)
  BY <1>1, <1>5, CommitStep
<1>6. QED
  BY <1>2, <1>3, <1>4, <1>5, StepKinds

\* The log and the rows stay consistent, and what was fenced stays behind.
THEOREM Consistent == Spec => []IInv
<1>1. Init => IInv
  BY IInvInit
<1>2. IInv /\ [Next]_vars => IInv'
  BY IInvStep
<1>3. QED
  BY <1>1, <1>2, PTL DEF Spec

\* However many services race for a request, and whatever crashes, its human
\* message and its decision enter the log exactly once (#prepareMessage).
THEOREM RequestsAdmittedOnce == Spec => []AdmittedOnce
<1>1. IInv => AdmittedOnce
  BY DEF IInv
<1>2. QED
  BY <1>1, Consistent, PTL

\* No human message is answered twice, and each reply is the stored outcome
\* of its request (#completeMessage).
THEOREM RequestsRepliedOnce == Spec => []RepliedOnce
<1>1. IInv => RepliedOnce
  BY DEF IInv
<1>2. QED
  BY <1>1, Consistent, PTL

\* A request pending when a pause, a stop or a mute took effect is never
\* answered, whatever follows (#roomControl, #personaControl, #isStale).
THEOREM FencesHold == Spec => []FencedNeverSpeaks
<1>1. IInv => FencedNeverSpeaks
  BY DEF IInv, FencedBehind, FencedNeverSpeaks
<1>2. QED
  BY <1>1, Consistent, PTL

\* What is stored about a request stays as it is (the commands row).
THEOREM RowsStoredForever == Spec => StoredForever
<1> DEFINE Stays(r) ==
      /\ cmd[r].state = "complete" => cmd'[r] = cmd[r]
      /\ cmd[r].state = "pending" =>
            /\ cmd'[r].state # "none"
            /\ cmd'[r].payload = cmd[r].payload
            /\ cmd'[r].revision = cmd[r].revision
            /\ cmd'[r].human = cmd[r].human
            /\ cmd'[r].speaker = cmd[r].speaker
            /\ cmd'[r].generation = cmd[r].generation
            /\ cmd[r].decision # 0 => cmd'[r].decision = cmd[r].decision
<1>1. ASSUME IInv, [Next]_vars, NEW r \in Requests PROVE Stays(r)
  <2>1. TypeOK
    BY <1>1 DEF IInv
  <2>2. ASSUME Kept PROVE Stays(r)
    BY <2>2 DEF Kept, Keeps
  <2>3. ASSUME NEW s \in Services, Steer(s) PROVE Stays(r)
    BY <2>1, <2>2, <2>3, SteerKept
  <2>4. ASSUME NEW s \in Services, NEW q \in Requests, PrepareNew(s, q)
        PROVE  Stays(r)
    <3>1. q # r => cmd'[r] = cmd[r]
      BY <2>1, <2>4 DEF PrepareNew, TypeOK
    <3>2. cmd[q].state = "none"
      BY <2>4 DEF PrepareNew, IsNew
    <3>3. QED
      BY <3>1, <3>2
  <2>5. ASSUME NEW s \in Services, NEW q \in Requests, CompleteCommit(s, q)
        PROVE  Stays(r)
    <3>1. q # r => cmd'[r] = cmd[r]
      BY <2>1, <2>5 DEF CompleteCommit, TypeOK
    <3>2. cmd[q].state # "complete"
      BY <2>5 DEF CompleteCommit
    <3> DEFINE outcome == OutcomeOf(s, q)
               sequence == IF outcome = "text" THEN Len(events) + 1 ELSE 0
               c == [cmd[q] EXCEPT !.state = "complete", !.outcome = outcome,
                       !.reply = sequence, !.owner = NoOwner, !.ttl = 0]
    <3>3. cmd' = [cmd EXCEPT ![q] = c]
      BY <2>5 DEF CompleteCommit, Completed
    <3> HIDE DEF outcome, sequence
    <3>4. cmd[q] \in Command
      BY <2>1 DEF TypeOK
    <3>5. /\ c.state = "complete" /\ c.payload = cmd[q].payload
          /\ c.revision = cmd[q].revision /\ c.human = cmd[q].human
          /\ c.speaker = cmd[q].speaker /\ c.generation = cmd[q].generation
          /\ c.decision = cmd[q].decision
      BY <3>4 DEF Command
    <3> HIDE DEF c
    <3>6. cmd'[q] = c
      BY <2>1, <3>3 DEF TypeOK
    <3>7. QED
      BY <3>1, <3>2, <3>5, <3>6
  <2>6. QED
    BY <1>1, <2>2, <2>3, <2>4, <2>5, StepKinds
<1>2. IInv /\ [Next]_vars => [\A r \in Requests : Stays(r)]_vars
  BY <1>1
<1>3. QED
  BY <1>2, Consistent, PTL DEF Spec, StoredForever

\* The three promises to a client together: admitted once, answered at most
\* once, never answered from behind a fence.
THEOREM RequestsAreSound == Spec => []RequestsSound
<1>1. AdmittedOnce /\ RepliedOnce /\ FencedNeverSpeaks => RequestsSound
  BY DEF RequestsSound
<1>2. QED
  BY <1>1, RequestsAdmittedOnce, RequestsRepliedOnce, FencesHold, PTL

-----------------------------------------------------------------------------
(***************************************************************************)
(* Claims.  RowsSound and CommitsInForce need to know what a run may rely  *)
(* on while the row still names its owner: it generates for that claim and *)
(* has kept the provider decision the row has pinned.                      *)
(***************************************************************************)

\* A run that has not reached its completion carries no result, and only a
\* run under way has an owner.
RunShape(w) ==
    /\ w.pc = "idle" <=> w.owner = NoOwner
    /\ w.pc # "complete" => ~ w.generated /\ w.result = "none"

\* While the row names the run, no other claim was taken since the run began
\* to generate, and what it was told to use is what the row has pinned.
RunHolds(w, c) ==
    c.owner = w.owner /\ w.pc \in {"pin", "calling", "complete"} =>
        /\ w.fresh
        /\ w.pc = "calling" \/ w.result # "none" => w.decision = c.decision

RowClaim(c) == c.state # "pending" => c.owner = NoOwner

Claims ==
    /\ \A r \in Requests : RowClaim(cmd[r])
    /\ \A s \in Services, r \in Requests :
          RunShape(worker[s][r]) /\ RunHolds(worker[s][r], cmd[r])
    /\ \A s, t \in Services, r \in Requests :
          worker[s][r].owner = worker[t][r].owner
             => s = t \/ worker[s][r].owner = NoOwner

ClaimInv == IInv /\ Claims /\ RowsSound

LEMMA ClaimsInit == Init => Claims /\ RowsSound
<1> SUFFICES ASSUME Init PROVE Claims /\ RowsSound
  OBVIOUS
<1>1. \A r \in Requests : cmd[r] = NoCommand /\ snapshot[r] = 0
  BY DEF Init
<1>2. \A s \in Services, r \in Requests :
         worker[s][r] = IdleWorker /\ closed[s] = FALSE
  BY DEF Init
<1>3. RunShape(IdleWorker) /\ RunHolds(IdleWorker, NoCommand)
      /\ RowClaim(NoCommand)
  BY DEF RunShape, RunHolds, RowClaim, IdleWorker, NoCommand
<1>4. Claims
  BY <1>1, <1>2, <1>3 DEF Claims, IdleWorker
<1>5. RowsSound
  BY <1>1, <1>2
  DEF RowsSound, SnapshotMatchesOutcome, ClosedHoldsNoClaim, NoCommand
<1>6. QED
  BY <1>4, <1>5

\* What one run does to its own state and to the row of its request leaves
\* every other run's view of that row sound: the row keeps its claim, loses
\* it, or names the run itself.
LEMMA ClaimsRunStep ==
    ASSUME TypeOK, Claims, ClosedHoldsNoClaim,
           NEW s \in Services, NEW r \in Requests, NEW w, NEW c,
           worker' = [worker EXCEPT ![s][r] = w],
           cmd' = [cmd EXCEPT ![r] = c],
           closed' = closed,
           RowClaim(c), RunShape(w), RunHolds(w, c),
           closed[s] /\ w.pc # "idle" => c.owner # w.owner,
           \/ w.owner \in {worker[s][r].owner, NoOwner}
           \/ w.owner \notin UsedOwners,
           \/ c.owner = cmd[r].owner /\ c.decision = cmd[r].decision
           \/ c.owner \in {worker[s][r].owner, NoOwner}
    PROVE  Claims' /\ ClosedHoldsNoClaim'
<1>1. /\ worker \in [Services -> [Requests -> Worker]]
      /\ cmd \in [Requests -> Command]
  BY DEF TypeOK
<1>2. /\ cmd'[r] = c /\ worker'[s][r] = w
      /\ \A q \in Requests : q # r => cmd'[q] = cmd[q]
      /\ \A t \in Services, q \in Requests :
            t # s \/ q # r => worker'[t][q] = worker[t][q]
  BY <1>1
<1>3. ASSUME NEW t \in Services, t # s, worker[t][r].pc # "idle"
      PROVE  /\ worker[t][r].owner # NoOwner
             /\ worker[t][r].owner # worker[s][r].owner
             /\ worker[t][r].owner # w.owner
  <2>1. worker[t][r].owner # NoOwner
    BY <1>3 DEF Claims, RunShape
  <2>2. worker[t][r].owner # worker[s][r].owner
    BY <1>3, <2>1 DEF Claims
  <2>3. worker[t][r].owner \in UsedOwners
    BY DEF UsedOwners
  <2>4. QED
    BY <2>1, <2>2, <2>3
<1>4. ASSUME NEW t \in Services, t # s
      PROVE  /\ RunHolds(worker[t][r], c)
             /\ closed[t] /\ worker[t][r].pc # "idle"
                   => c.owner # worker[t][r].owner
  <2>1. CASE worker[t][r].pc = "idle"
    BY <2>1 DEF RunHolds
  <2>2. CASE worker[t][r].pc # "idle"
    BY <1>3, <1>4, <2>2 DEF RunHolds, Claims, ClosedHoldsNoClaim
  <2>3. QED
    BY <2>1, <2>2
<1>5. \A q \in Requests : RowClaim(cmd'[q])
  BY <1>2 DEF Claims
<1>6. ASSUME NEW t \in Services, NEW q \in Requests
      PROVE  /\ RunShape(worker'[t][q])
             /\ RunHolds(worker'[t][q], cmd'[q])
             /\ closed'[t] /\ worker'[t][q].pc # "idle"
                   => cmd'[q].owner # worker'[t][q].owner
  <2>1. CASE q # r
    BY <1>2, <2>1 DEF Claims, ClosedHoldsNoClaim
  <2>2. CASE q = r /\ t # s
    BY <1>2, <1>4, <2>2 DEF Claims
  <2>3. CASE q = r /\ t = s
    BY <1>2, <2>3
  <2>4. QED
    BY <2>1, <2>2, <2>3
<1>7. ASSUME NEW t \in Services, NEW u \in Services, NEW q \in Requests,
             worker'[t][q].owner = worker'[u][q].owner
      PROVE  t = u \/ worker'[t][q].owner = NoOwner
  <2>1. CASE q # r \/ (t # s /\ u # s)
    BY <1>2, <1>7, <2>1 DEF Claims
  <2>2. ASSUME NEW x \in Services, x # s, w.owner = worker[x][r].owner
        PROVE  w.owner = NoOwner
    <3>1. CASE worker[x][r].pc = "idle"
      BY <2>2, <3>1 DEF Claims, RunShape
    <3>2. QED
      BY <1>3, <2>2, <3>1
  <2>3. QED
    BY <1>2, <1>7, <2>1, <2>2
<1>8. QED
  BY <1>5, <1>6, <1>7 DEF Claims, ClosedHoldsNoClaim

\* A run that settles holds nothing any more.
LEMMA IdleRun ==
    ASSUME NEW c
    PROVE  /\ RunShape(IdleWorker) /\ RunHolds(IdleWorker, c)
           /\ IdleWorker.pc = "idle" /\ IdleWorker.owner = NoOwner
  BY DEF RunShape, RunHolds, IdleWorker

LEMMA ReleasedClaim ==
    ASSUME NEW c \in Command, RowClaim(c), NEW owner
    PROVE  /\ RowClaim(ReleasedBy(c, owner)) /\ RowClaim(Released(c))
           /\ ReleasedBy(c, owner).owner \in {c.owner, NoOwner}
           /\ ReleasedBy(c, owner).decision = c.decision
           /\ Released(c).owner = NoOwner
           /\ Released(c).decision = c.decision
           /\ owner # NoOwner => ReleasedBy(c, owner).owner # owner
<1>1. CASE c.state = "pending"
  BY <1>1 DEF RowClaim, Released, ReleasedBy, Command
<1>2. CASE c.state # "pending"
  BY <1>2 DEF RowClaim, Released, ReleasedBy
<1>3. QED
  BY <1>1, <1>2

LEMMA ClaimsSend ==
    ASSUME ClaimInv, NEW s \in Services, NEW r \in Requests,
           NEW payload \in Payloads, NEW revision \in 0 .. selection.revision,
           SendMessage(s, r, payload, revision)
    PROVE  Claims' /\ ClosedHoldsNoClaim'
<1> USE DEF ClaimInv, IInv, RowsSound
<1>1. PICK owner \in Owners \ UsedOwners :
         worker' = [worker EXCEPT ![s][r] =
                      [IdleWorker EXCEPT !.pc = "prepare", !.owner = owner,
                         !.payload = payload, !.revision = revision]]
  BY DEF SendMessage, SetWorker
<1> DEFINE w == [IdleWorker EXCEPT !.pc = "prepare", !.owner = owner,
                   !.payload = payload, !.revision = revision]
<1>2. /\ w.pc = "prepare" /\ w.owner = owner
      /\ w.generated = FALSE /\ w.result = "none"
  BY DEF IdleWorker
<1>3. owner # NoOwner
  BY ConstantsAssumption
<1>4. RunShape(w) /\ RunHolds(w, cmd[r])
  BY <1>2, <1>3 DEF RunShape, RunHolds
<1>5. cmd' = [cmd EXCEPT ![r] = cmd[r]] /\ closed' = closed /\ ~ closed[s]
  BY DEF SendMessage, TypeOK
<1>6. worker' = [worker EXCEPT ![s][r] = w]
  BY <1>1
<1>7. RowClaim(cmd[r])
  BY DEF Claims
<1> HIDE DEF w
<1>8. QED
  BY <1>2, <1>4, <1>5, <1>6, <1>7, ClaimsRunStep

\* The steps of a run that write no row.
LEMMA ClaimsQuiet ==
    ASSUME ClaimInv, NEW s \in Services, NEW r \in Requests,
           \/ PrepareRejected(s, r)
           \/ PrepareReplay(s, r)
           \/ PrepareObserve(s, r)
           \/ PollElapsed(s, r)
           \/ CheckStale(s, r)
           \/ \E result \in {"silence", "text"} : ProviderReturns(s, r, result)
           \/ CompleteSettled(s, r)
           \/ CompleteLost(s, r)
    PROVE  Claims' /\ ClosedHoldsNoClaim'
<1>0. TypeOK /\ Claims /\ ClosedHoldsNoClaim
  BY DEF ClaimInv, IInv, RowsSound
<1>1. /\ worker[s][r] \in Worker
      /\ RunShape(worker[s][r]) /\ RunHolds(worker[s][r], cmd[r])
      /\ RowClaim(cmd[r])
  BY <1>0 DEF TypeOK, Claims
<1>2. cmd' = [cmd EXCEPT ![r] = cmd[r]] /\ closed' = closed
  BY <1>0 DEF PrepareRejected, PrepareReplay, PrepareObserve, PollElapsed,
         CheckStale, ProviderReturns, CompleteSettled, CompleteLost, TypeOK
<1>3. PICK w :
         /\ SetWorker(s, r, w)
         /\ RunShape(w) /\ RunHolds(w, cmd[r])
         /\ w.owner \in {worker[s][r].owner, NoOwner}
         /\ w.pc = "idle" \/ w.owner = worker[s][r].owner
         /\ w.pc # "idle" => worker[s][r].pc # "idle"
  <2>1. CASE PrepareRejected(s, r) \/ PrepareReplay(s, r)
             \/ CompleteSettled(s, r)
    BY <2>1, IdleRun
    DEF PrepareRejected, PrepareReplay, CompleteSettled, Settle
  <2>2. CASE PrepareObserve(s, r)
    BY <2>2, <1>1 DEF PrepareObserve, Worker, RunShape, RunHolds
  <2>3. CASE PollElapsed(s, r)
    BY <2>3, <1>1 DEF PollElapsed, Worker, RunShape, RunHolds
  <2>4. CASE CheckStale(s, r)
    <3> DEFINE stale == Stale(r)
               w == [worker[s][r] EXCEPT
                       !.pc = IF stale THEN "complete" ELSE "pin",
                       !.generated = stale, !.aborted = FALSE, !.lost = FALSE,
                       !.decision = 0, !.fresh = TRUE]
    <3>1. SetWorker(s, r, w) /\ worker[s][r].pc = "stale_check"
      BY <2>4 DEF CheckStale
    <3>2. stale \in BOOLEAN
      BY DEF Stale
    <3> HIDE DEF stale
    <3>3. /\ w.pc = IF stale THEN "complete" ELSE "pin"
          /\ w.owner = worker[s][r].owner /\ w.generated = stale
          /\ w.result = worker[s][r].result /\ w.fresh = TRUE
      BY <1>1 DEF Worker
    <3> HIDE DEF w
    <3>4. RunShape(w) /\ RunHolds(w, cmd[r])
      BY <1>1, <3>1, <3>2, <3>3 DEF RunShape, RunHolds
    <3>5. QED
      BY <3>1, <3>3, <3>4
  <2>5. CASE \E result \in {"silence", "text"} : ProviderReturns(s, r, result)
    <3>1. PICK result \in {"silence", "text"} : ProviderReturns(s, r, result)
      BY <2>5
    <3> DEFINE answer == IF worker[s][r].lost THEN "none" ELSE result
               w == [worker[s][r] EXCEPT !.pc = "complete",
                       !.generated = TRUE, !.result = answer]
    <3>2. SetWorker(s, r, w) /\ worker[s][r].pc = "calling"
      BY <3>1 DEF ProviderReturns
    <3> HIDE DEF answer
    <3>3. QED
      BY <1>1, <3>2 DEF Worker, RunShape, RunHolds
  <2>6. CASE CompleteLost(s, r)
    BY <2>6, <1>1 DEF CompleteLost, Discard, Worker, RunShape, RunHolds
  <2>7. QED
    BY <2>1, <2>2, <2>3, <2>4, <2>5, <2>6
<1>4. closed[s] /\ w.pc # "idle" => cmd[r].owner # w.owner
  BY <1>0, <1>3 DEF ClosedHoldsNoClaim
<1>5. worker' = [worker EXCEPT ![s][r] = w]
  BY <1>3 DEF SetWorker
<1>6. QED
  BY <1>0, <1>1, <1>2, <1>3, <1>4, <1>5, ClaimsRunStep

\* The steps of a run that touch the row of its request without claiming it.
LEMMA ClaimsTouch ==
    ASSUME ClaimInv, NEW s \in Services, NEW r \in Requests,
           Pin(s, r) \/ GenerationFails(s, r) \/ Renew(s, r)
    PROVE  Claims' /\ ClosedHoldsNoClaim'
<1>0. TypeOK /\ Claims /\ ClosedHoldsNoClaim
  BY DEF ClaimInv, IInv, RowsSound
<1>1. /\ worker[s][r] \in Worker /\ cmd[r] \in Command
      /\ RunShape(worker[s][r]) /\ RunHolds(worker[s][r], cmd[r])
      /\ RowClaim(cmd[r])
      /\ worker[s][r].pc # "idle" /\ worker[s][r].owner # NoOwner
      /\ closed[s] => cmd[r].owner # worker[s][r].owner
  BY <1>0 DEF TypeOK, Claims, Pin, GenerationFails, Renew, RunShape,
              ClosedHoldsNoClaim
<1>2. /\ closed' = closed
      /\ worker = [worker EXCEPT ![s][r] = worker[s][r]]
      /\ cmd = [cmd EXCEPT ![r] = cmd[r]]
  BY <1>0 DEF Pin, GenerationFails, Renew, TypeOK
<1>3. CASE Pin(s, r)
  <2> DEFINE pinned == PinnedDecision(cmd[r])
             ok == pinned = 0 \/ pinned = provider
             c == [cmd[r] EXCEPT !.decision = pinned]
             w == [worker[s][r] EXCEPT
                     !.pc = IF ok THEN "calling" ELSE "complete",
                     !.generated = ~ ok, !.decision = pinned]
  <2>1. /\ worker' = [worker EXCEPT ![s][r] = w]
        /\ cmd' = [cmd EXCEPT ![r] = c]
        /\ worker[s][r].pc = "pin" /\ cmd[r].owner = worker[s][r].owner
        /\ cmd[r].state = "pending"
    BY <1>0, <1>3 DEF Pin, SetWorker, TypeOK
  <2> HIDE DEF pinned, ok
  <2>2. /\ c.owner = cmd[r].owner /\ c.state = cmd[r].state
        /\ c.decision = pinned
    BY <1>1 DEF Command
  <2>3. /\ w.pc \in {"calling", "complete"}
        /\ w.pc = "calling" => w.generated = FALSE
        /\ w.owner = worker[s][r].owner /\ w.decision = pinned
        /\ w.result = worker[s][r].result /\ w.fresh = worker[s][r].fresh
    BY <1>1 DEF Worker
  <2> HIDE DEF c, w
  <2>4. /\ RowClaim(c) /\ RunShape(w) /\ RunHolds(w, c)
        /\ closed[s] /\ w.pc # "idle" => c.owner # w.owner
    BY <1>1, <2>1, <2>2, <2>3 DEF RowClaim, RunShape, RunHolds
  <2>5. QED
    BY <1>0, <1>2, <2>1, <2>2, <2>3, <2>4, ClaimsRunStep
<1>4. CASE GenerationFails(s, r)
  <2>1. CASE Stale(r) \/ worker[s][r].lost
    <3> DEFINE w == [worker[s][r] EXCEPT !.pc = "complete",
                       !.generated = TRUE, !.decision = 0]
    <3>1. worker' = [worker EXCEPT ![s][r] = w] /\ cmd' = cmd
      BY <1>4, <2>1 DEF GenerationFails, SetWorker
    <3>2. RunShape(w) /\ RunHolds(w, cmd[r]) /\ w.owner = worker[s][r].owner
      BY <1>1, <1>4 DEF GenerationFails, Worker, RunShape, RunHolds
    <3> HIDE DEF w
    <3>3. QED
      BY <1>0, <1>1, <1>2, <3>1, <3>2, ClaimsRunStep
  <2>2. CASE ~ (Stale(r) \/ worker[s][r].lost)
    <3>1. /\ worker' = [worker EXCEPT ![s][r] = IdleWorker]
          /\ cmd' = [cmd EXCEPT ![r] =
                       ReleasedBy(cmd[r], worker[s][r].owner)]
      BY <1>4, <2>2 DEF GenerationFails, Settle, SetWorker
    <3> DEFINE c == ReleasedBy(cmd[r], worker[s][r].owner)
    <3>2. /\ RowClaim(c) /\ c.owner \in {cmd[r].owner, NoOwner}
          /\ c.decision = cmd[r].decision
      BY <1>1, ReleasedClaim
    <3> HIDE DEF c
    <3>3. cmd' = [cmd EXCEPT ![r] = c]
      BY <3>1 DEF c
    <3>4. QED
      BY <1>0, <1>2, <3>1, <3>2, <3>3, IdleRun, ClaimsRunStep
  <2>3. QED
    BY <2>1, <2>2
<1>5. CASE Renew(s, r)
  <2> DEFINE c == [cmd[r] EXCEPT !.ttl = Lease]
             w == [worker[s][r] EXCEPT !.lost = TRUE, !.aborted = TRUE]
  <2>1. /\ c.owner = cmd[r].owner /\ c.state = cmd[r].state
        /\ c.decision = cmd[r].decision
    BY <1>1 DEF Command
  <2>2. /\ w.owner = worker[s][r].owner /\ w.pc = worker[s][r].pc
        /\ w.generated = worker[s][r].generated
        /\ w.result = worker[s][r].result
        /\ w.decision = worker[s][r].decision
        /\ w.fresh = worker[s][r].fresh
    BY <1>1 DEF Worker
  <2>3. \/ cmd' = [cmd EXCEPT ![r] = c] /\ worker' = worker
        \/ worker' = [worker EXCEPT ![s][r] = w] /\ cmd' = cmd
    BY <1>5 DEF Renew, Renewed, SetWorker, TypeOK
  <2> HIDE DEF c, w
  <2>4. /\ RowClaim(c) /\ RunHolds(worker[s][r], c)
        /\ RunShape(w) /\ RunHolds(w, cmd[r])
    BY <1>1, <2>1, <2>2 DEF RowClaim, RunShape, RunHolds
  <2>5. QED
    BY <1>0, <1>1, <1>2, <2>1, <2>2, <2>3, <2>4, ClaimsRunStep
<1>6. QED
  BY <1>3, <1>4, <1>5

\* A claim names a run of an open service, and every other run of the request
\* learns that its own is no longer the newest.
LEMMA ClaimsClaim ==
    ASSUME ClaimInv, NEW s \in Services, NEW r \in Requests,
           PrepareClaim(s, r)
    PROVE  Claims' /\ ClosedHoldsNoClaim'
<1>0. TypeOK /\ Claims /\ ClosedHoldsNoClaim
  BY DEF ClaimInv, IInv, RowsSound
<1>1. /\ worker[s][r] \in Worker /\ cmd[r] \in Command
      /\ RunShape(worker[s][r])
      /\ worker[s][r].pc = "prepare" /\ worker[s][r].owner # NoOwner
      /\ cmd[r].state = "pending" /\ ~ closed[s] /\ closed' = closed
  BY <1>0 DEF TypeOK, Claims, PrepareClaim, RunShape, Rejected
<1> DEFINE w == [worker[s][r] EXCEPT !.fresh = FALSE,
                   !.pc = IF worker[s][r].generated THEN "complete"
                                                    ELSE "stale_check"]
           c == [cmd[r] EXCEPT !.owner = worker[s][r].owner, !.ttl = Lease]
<1>2. /\ cmd' = [cmd EXCEPT ![r] = c]
      /\ worker' = ClaimTaken(r, s, w)
  BY <1>0 DEF PrepareClaim, TypeOK
<1>3. /\ w.pc = "stale_check" /\ w.owner = worker[s][r].owner
      /\ w.generated = FALSE /\ w.result = "none"
      /\ c.owner = worker[s][r].owner /\ c.state = "pending"
  BY <1>1 DEF Worker, Command, RunShape
<1> HIDE DEF w, c
<1>4. /\ cmd'[r] = c /\ worker'[s][r] = w
      /\ \A q \in Requests : q # r => cmd'[q] = cmd[q]
      /\ \A t \in Services, q \in Requests :
            q # r => worker'[t][q] = worker[t][q]
      /\ \A t \in Services : t # s =>
            worker'[t][r] = [worker[t][r] EXCEPT !.fresh = FALSE]
  BY <1>0, <1>2 DEF TypeOK, ClaimTaken
<1>5. ASSUME NEW t \in Services, t # s
      PROVE  /\ worker'[t][r].owner = worker[t][r].owner
             /\ worker'[t][r].pc = worker[t][r].pc
             /\ worker'[t][r].generated = worker[t][r].generated
             /\ worker'[t][r].result = worker[t][r].result
  <2>1. worker[t][r] \in Worker
    BY <1>0 DEF TypeOK
  <2>2. worker'[t][r] = [worker[t][r] EXCEPT !.fresh = FALSE]
    BY <1>4, <1>5
  <2>3. QED
    BY <2>1, <2>2 DEF Worker
<1>6. ASSUME NEW t \in Services, t # s
      PROVE  worker'[t][r].owner # c.owner
  BY <1>0, <1>1, <1>3, <1>5, <1>6 DEF Claims
<1>7. \A q \in Requests : RowClaim(cmd'[q])
  BY <1>0, <1>3, <1>4 DEF Claims, RowClaim
<1>8. ASSUME NEW t \in Services, NEW q \in Requests
      PROVE  /\ RunShape(worker'[t][q])
             /\ RunHolds(worker'[t][q], cmd'[q])
             /\ closed'[t] /\ worker'[t][q].pc # "idle"
                   => cmd'[q].owner # worker'[t][q].owner
  <2>1. CASE q # r
    BY <1>0, <1>1, <1>4, <2>1 DEF Claims, ClosedHoldsNoClaim
  <2>2. CASE q = r /\ t # s
    BY <1>0, <1>4, <1>5, <1>6, <2>2 DEF Claims, RunShape, RunHolds
  <2>3. CASE q = r /\ t = s
    BY <1>1, <1>3, <1>4, <2>3 DEF RunShape, RunHolds
  <2>4. QED
    BY <2>1, <2>2, <2>3
<1>9. ASSUME NEW t \in Services, NEW q \in Requests
      PROVE  worker'[t][q].owner = worker[t][q].owner
  BY <1>3, <1>4, <1>5
<1>10. QED
  BY <1>0, <1>7, <1>8, <1>9 DEF Claims, ClosedHoldsNoClaim

\* A new row names the run that admitted it, or nobody.
LEMMA ClaimsNew ==
    ASSUME ClaimInv, NEW s \in Services, NEW r \in Requests,
           PrepareNew(s, r)
    PROVE  Claims' /\ ClosedHoldsNoClaim'
<1>0. TypeOK /\ Claims /\ ClosedHoldsNoClaim
  BY DEF ClaimInv, IInv, RowsSound
<1>1. /\ worker[s][r] \in Worker /\ RunShape(worker[s][r])
      /\ worker[s][r].pc = "prepare"
      /\ ~ closed[s] /\ closed' = closed
  BY <1>0 DEF TypeOK, Claims, PrepareNew, Rejected
<1> DEFINE speaker == Speaker(Append(events, [type |-> "human_message",
                                 speaker |-> Nobody, source |-> 0]),
                              worker[s][r].payload)
           state == IF speaker # Nobody THEN "pending" ELSE "complete"
           owner == IF speaker # Nobody THEN worker[s][r].owner ELSE NoOwner
           ttl == IF speaker # Nobody THEN Lease ELSE 0
           outcome == IF speaker # Nobody THEN "none" ELSE "not_scheduled"
           c == [NoCommand EXCEPT !.state = state,
                   !.payload = worker[s][r].payload,
                   !.revision = worker[s][r].revision,
                   !.human = Len(events) + 1, !.speaker = speaker,
                   !.generation = generation,
                   !.owner = owner, !.ttl = ttl, !.outcome = outcome]
           w == [worker[s][r] EXCEPT !.pc = "stale_check"]
<1>2. cmd' = [cmd EXCEPT ![r] = c]
  BY DEF PrepareNew
<1>3. worker' = [worker EXCEPT ![s][r] = IF speaker # Nobody THEN w
                                                           ELSE IdleWorker]
  BY DEF PrepareNew, SetWorker, Settle
<1> HIDE DEF speaker
<1>4. /\ state = "complete" => owner = NoOwner
      /\ state \in {"pending", "complete"}
      /\ owner \in {worker[s][r].owner, NoOwner}
  OBVIOUS
<1> HIDE DEF state, owner, ttl, outcome
<1>5. c.state = state /\ c.owner = owner
  BY DEF NoCommand
<1>6. /\ RunShape(w) /\ RunHolds(w, c) /\ w.owner = worker[s][r].owner
  BY <1>1 DEF Worker, RunShape, RunHolds
<1>7. RowClaim(c)
  BY <1>4, <1>5 DEF RowClaim
<1> HIDE DEF c, w
<1>8. QED
  BY <1>0, <1>1, <1>2, <1>3, <1>4, <1>5, <1>6, <1>7, IdleRun, ClaimsRunStep

\* A commit drops the claim and settles the run.
LEMMA ClaimsCommit ==
    ASSUME ClaimInv, NEW s \in Services, NEW r \in Requests,
           CompleteCommit(s, r)
    PROVE  Claims' /\ ClosedHoldsNoClaim'
<1>0. TypeOK /\ Claims /\ ClosedHoldsNoClaim
  BY DEF ClaimInv, IInv, RowsSound
<1> DEFINE outcome == OutcomeOf(s, r)
           sequence == IF outcome = "text" THEN Len(events) + 1 ELSE 0
           c == [cmd[r] EXCEPT !.state = "complete", !.outcome = outcome,
                   !.reply = sequence, !.owner = NoOwner, !.ttl = 0]
<1>1. /\ cmd' = [cmd EXCEPT ![r] = c] /\ closed' = closed
      /\ worker' = [worker EXCEPT ![s][r] = IdleWorker]
  BY DEF CompleteCommit, Completed, Settle, SetWorker
<1> HIDE DEF outcome, sequence
<1>2. cmd[r] \in Command
  BY <1>0 DEF TypeOK
<1>3. c.owner = NoOwner
  BY <1>2 DEF Command
<1>4. RowClaim(c)
  BY <1>3 DEF RowClaim
<1> HIDE DEF c
<1>5. QED
  BY <1>0, <1>1, <1>3, <1>4, IdleRun, ClaimsRunStep

\* A run as another run, a control or the clock leaves it: over, or as it was
\* but for the signals it was sent.
Untouched(v, w) ==
    \/ w = IdleWorker
    \/ /\ w.pc = v.pc /\ w.owner = v.owner /\ w.generated = v.generated
       /\ w.result = v.result /\ w.decision = v.decision /\ w.fresh = v.fresh

LEMMA AbortedUntouched ==
    ASSUME TypeOK, NEW s \in Services,
           worker' = [worker EXCEPT ![s] =
                        [r \in Requests |->
                            IF worker[s][r].pc = "calling"
                            THEN [worker[s][r] EXCEPT !.aborted = TRUE]
                            ELSE worker[s][r]]],
           NEW t \in Services, NEW r \in Requests
    PROVE  Untouched(worker[t][r], worker'[t][r])
<1>1. worker[t][r] \in Worker
  BY DEF TypeOK
<1>2. worker'[t][r] \in {worker[t][r], [worker[t][r] EXCEPT !.aborted = TRUE]}
  BY DEF TypeOK
<1>3. QED
  BY <1>1, <1>2 DEF Untouched, Worker

LEMMA ClaimsOutsideStep ==
    ASSUME Claims,
           \A s \in Services, r \in Requests :
              Untouched(worker[s][r], worker'[s][r]),
           \A r \in Requests :
              /\ RowClaim(cmd'[r])
              /\ cmd'[r].decision = cmd[r].decision
              /\ cmd'[r].owner \in {cmd[r].owner, NoOwner}
    PROVE  Claims'
<1>1. ASSUME NEW s \in Services, NEW r \in Requests
      PROVE  /\ RunShape(worker'[s][r])
             /\ RunHolds(worker'[s][r], cmd'[r])
             /\ worker'[s][r].owner \in {worker[s][r].owner, NoOwner}
  <2>1. CASE worker'[s][r] = IdleWorker
    BY <2>1, IdleRun
  <2>2. CASE worker'[s][r] # IdleWorker
    <3>1. /\ RunShape(worker[s][r]) /\ RunHolds(worker[s][r], cmd[r])
          /\ worker'[s][r].pc = worker[s][r].pc
          /\ worker'[s][r].owner = worker[s][r].owner
          /\ worker'[s][r].generated = worker[s][r].generated
          /\ worker'[s][r].result = worker[s][r].result
          /\ worker'[s][r].decision = worker[s][r].decision
          /\ worker'[s][r].fresh = worker[s][r].fresh
      BY <2>2 DEF Untouched, Claims
    <3>2. QED
      BY <3>1 DEF RunShape, RunHolds
  <2>3. QED
    BY <2>1, <2>2
<1>2. QED
  BY <1>1 DEF Claims

LEMMA ClaimsOutside ==
    ASSUME ClaimInv,
           \/ \E s \in Services : Steer(s) \/ Close(s) \/ Restart(s) \/ Crash(s)
           \/ \E here \in BOOLEAN : MoveSelection(here)
           \/ Rebind
           \/ Tick
           \/ UNCHANGED vars
    PROVE  Claims' /\ ClosedHoldsNoClaim'
<1>0. TypeOK /\ Claims /\ ClosedHoldsNoClaim
  BY DEF ClaimInv, IInv, RowsSound
<1>1. ASSUME NEW s \in Services, NEW r \in Requests
      PROVE  Untouched(worker[s][r], worker[s][r])
  BY DEF Untouched
<1>2. ASSUME NEW r \in Requests
      PROVE  /\ RowClaim(cmd[r]) /\ cmd[r] \in Command
             /\ cmd[r].owner \in {cmd[r].owner, NoOwner}
  BY <1>0 DEF Claims, TypeOK
<1>3. ASSUME NEW s \in Services, Fence(s), closed' = closed
      PROVE  Claims' /\ ClosedHoldsNoClaim'
  <2>1. \A t \in Services, r \in Requests :
           Untouched(worker[t][r], worker'[t][r])
    BY <1>0, <1>3, AbortedUntouched DEF Fence
  <2>2. \A r \in Requests :
           /\ RowClaim(cmd'[r]) /\ cmd'[r].decision = cmd[r].decision
           /\ cmd'[r].owner = NoOwner
    <3> TAKE r \in Requests
    <3>1. cmd'[r] = Released(cmd[r])
      BY <1>3 DEF Fence
    <3>2. QED
      BY <1>2, <3>1, ReleasedClaim
  <2>3. Claims'
    BY <1>0, <2>1, <2>2, ClaimsOutsideStep
  <2>4. ClosedHoldsNoClaim'
    BY <2>2, <2>3 DEF ClosedHoldsNoClaim, Claims, RunShape
  <2>5. QED
    BY <2>3, <2>4
<1>4. ASSUME NEW s \in Services, Steer(s)
      PROVE  Claims' /\ ClosedHoldsNoClaim'
  <2>1. (Fence(s) \/ NoFence) /\ closed' = closed
    BY <1>4 DEF Steer, RoomControl, PersonaControl
  <2>2. CASE NoFence
    BY <1>0, <2>1, <2>2 DEF NoFence, Claims, ClosedHoldsNoClaim
  <2>3. QED
    BY <1>3, <2>1, <2>2
<1>5. ASSUME NEW s \in Services, Close(s)
      PROVE  Claims' /\ ClosedHoldsNoClaim'
  <2>1. \A t \in Services, r \in Requests :
           Untouched(worker[t][r], worker'[t][r])
    BY <1>0, <1>5, AbortedUntouched DEF Close
  <2>2. ASSUME NEW r \in Requests
        PROVE  /\ RowClaim(cmd'[r]) /\ cmd'[r].decision = cmd[r].decision
               /\ cmd'[r].owner \in {cmd[r].owner, NoOwner}
               /\ worker[s][r].owner # NoOwner
                     => cmd'[r].owner # worker[s][r].owner
    <3>1. cmd'[r] = ReleasedBy(cmd[r], worker[s][r].owner)
      BY <1>5 DEF Close
    <3>2. QED
      BY <1>2, <3>1, ReleasedClaim
  <2>3. Claims'
    BY <1>0, <2>1, <2>2, ClaimsOutsideStep
  <2>4. ASSUME NEW t \in Services, NEW r \in Requests, closed'[t],
               worker'[t][r].pc # "idle"
        PROVE  cmd'[r].owner # worker'[t][r].owner
    <3>1. worker'[t][r].owner # NoOwner
      BY <2>3, <2>4 DEF Claims, RunShape
    <3>2. /\ worker'[t][r].owner = worker[t][r].owner
          /\ worker[t][r].pc # "idle"
      BY <2>1, <2>4, IdleRun DEF Untouched
    <3>3. t = s \/ closed[t]
      BY <1>0, <1>5, <2>4 DEF Close, TypeOK
    <3>4. QED
      BY <1>0, <2>2, <3>1, <3>2, <3>3 DEF ClosedHoldsNoClaim
  <2>5. QED
    BY <2>3, <2>4 DEF ClosedHoldsNoClaim
<1>6. ASSUME NEW s \in Services, Restart(s) \/ Crash(s)
      PROVE  Claims' /\ ClosedHoldsNoClaim'
  <2>1. cmd' = cmd
    BY <1>6 DEF Restart, Crash
  <2>2. \A t \in Services, r \in Requests :
           Untouched(worker[t][r], worker'[t][r])
    BY <1>0, <1>6 DEF Restart, Crash, Untouched, TypeOK
  <2>3. Claims'
    BY <1>0, <1>2, <2>1, <2>2, ClaimsOutsideStep
  <2>4. ASSUME NEW t \in Services, NEW r \in Requests, closed'[t],
               worker'[t][r].pc # "idle"
        PROVE  cmd'[r].owner # worker'[t][r].owner
    <3>1. t # s /\ closed[t]
      BY <1>0, <1>6, <2>4 DEF Restart, Crash, TypeOK
    <3>2. worker'[t][r] = worker[t][r]
      BY <1>0, <1>6, <3>1 DEF Restart, Crash, TypeOK
    <3>3. QED
      BY <1>0, <2>1, <2>4, <3>1, <3>2 DEF ClosedHoldsNoClaim
  <2>5. QED
    BY <2>3, <2>4 DEF ClosedHoldsNoClaim
<1>7. CASE Tick
  <2>1. ASSUME NEW r \in Requests
        PROVE  /\ cmd'[r].owner = cmd[r].owner
               /\ cmd'[r].state = cmd[r].state
               /\ cmd'[r].decision = cmd[r].decision
    <3> DEFINE ttl == IF cmd[r].ttl > 0 THEN cmd[r].ttl - 1 ELSE 0
    <3>1. cmd'[r] = [cmd[r] EXCEPT !.ttl = ttl]
      BY <1>7 DEF Tick, Aged
    <3> HIDE DEF ttl
    <3>2. QED
      BY <1>2, <3>1 DEF Command
  <2>2. worker' = worker /\ closed' = closed
    BY <1>7 DEF Tick
  <2>3. \A r \in Requests : RowClaim(cmd'[r])
    BY <1>2, <2>1 DEF RowClaim
  <2>4. \A s \in Services, r \in Requests :
           Untouched(worker[s][r], worker'[s][r])
    BY <2>2 DEF Untouched
  <2>5. Claims'
    BY <1>0, <2>1, <2>3, <2>4, ClaimsOutsideStep
  <2>6. ClosedHoldsNoClaim'
    BY <1>0, <2>1, <2>2 DEF ClosedHoldsNoClaim
  <2>7. QED
    BY <2>5, <2>6
<1>8. CASE UNCHANGED <<cmd, worker, closed>>
  BY <1>0, <1>8 DEF Claims, ClosedHoldsNoClaim
<1>9. QED
  BY <1>4, <1>5, <1>6, <1>7, <1>8 DEF MoveSelection, Rebind, vars

\* Every step keeps what runs may rely on.
LEMMA ClaimsStep ==
    ASSUME ClaimInv, [Next]_vars PROVE Claims' /\ ClosedHoldsNoClaim'
<1>1. ASSUME NEW s \in Services, NEW r \in Requests, Run(s, r)
      PROVE  Claims' /\ ClosedHoldsNoClaim'
  BY <1>1, ClaimsQuiet, ClaimsTouch, ClaimsClaim, ClaimsNew, ClaimsCommit
  DEF Run
<1>2. QED
  BY <1>1, ClaimsSend, ClaimsOutside DEF Next

\* What a commit writes, seen from the run that commits: it holds the claim
\* in force, and the decision it commits is the one the row has pinned and
\* the room still has.
LEMMA CommitFacts ==
    ASSUME ClaimInv, NEW s \in Services, NEW r \in Requests,
           CompleteCommit(s, r)
    PROVE  /\ cmd[r].state = "pending" /\ cmd[r].outcome = "none"
           /\ snapshot[r] = 0
           /\ worker[s][r].owner = cmd[r].owner /\ worker[s][r].fresh
           /\ worker'[s][r].pc = "idle"
           /\ cmd'[r].outcome \in {"stale", "silence", "text"}
           /\ cmd'[r].decision = cmd[r].decision
           /\ cmd'[r].outcome = "stale" => snapshot' = snapshot
           /\ cmd'[r].outcome # "stale" =>
                 /\ snapshot' = [snapshot EXCEPT ![r] = cmd[r].decision]
                 /\ cmd[r].decision \in {0, provider}
           /\ \A q \in Requests : q # r => cmd'[q] = cmd[q]
<1>0. /\ TypeOK /\ Claims /\ SnapshotMatchesOutcome
      /\ RowShape(r)
  BY DEF ClaimInv, IInv, RowsSound
<1>1. /\ worker[s][r] \in Worker /\ cmd[r] \in Command
      /\ worker[s][r].pc = "complete"
      /\ cmd[r].owner = worker[s][r].owner /\ cmd[r].ttl > 0
      /\ cmd[r].state # "complete"
  BY <1>0 DEF TypeOK, CompleteCommit, HoldsClaim
<1>2. cmd[r].state = "pending" /\ cmd[r].outcome = "none"
  BY <1>0, <1>1 DEF RowShape, Command
<1>3. snapshot[r] = 0
  BY <1>0, <1>2 DEF SnapshotMatchesOutcome
<1>4. /\ worker[s][r].fresh
      /\ worker[s][r].result # "none" =>
            worker[s][r].decision = cmd[r].decision
  BY <1>0, <1>1 DEF Claims, RunHolds
<1> DEFINE outcome == OutcomeOf(s, r)
           sequence == IF outcome = "text" THEN Len(events) + 1 ELSE 0
           c == [cmd[r] EXCEPT !.state = "complete", !.outcome = outcome,
                   !.reply = sequence, !.owner = NoOwner, !.ttl = 0]
<1>5. /\ cmd' = [cmd EXCEPT ![r] = c]
      /\ worker' = [worker EXCEPT ![s][r] = IdleWorker]
      /\ snapshot' = IF outcome = "stale" THEN snapshot
                     ELSE [snapshot EXCEPT ![r] = worker[s][r].decision]
  BY DEF CompleteCommit, Completed, Settle, SetWorker, CommittedSnapshot
<1>6. outcome \in {"stale", "silence", "text"}
  BY <1>0, OutcomeType
<1>7. outcome # "stale" =>
         /\ worker[s][r].result # "none"
         /\ worker[s][r].decision \in {0, provider}
  BY DEF OutcomeOf, StaleAtCommit
<1> HIDE DEF outcome, sequence
<1>8. c.outcome = outcome /\ c.decision = cmd[r].decision
  BY <1>1 DEF Command
<1> HIDE DEF c
<1>9. /\ cmd'[r] = c /\ worker'[s][r] = IdleWorker
      /\ \A q \in Requests : q # r => cmd'[q] = cmd[q]
  BY <1>0, <1>5 DEF TypeOK
<1>10. QED
  BY <1>1, <1>2, <1>3, <1>4, <1>5, <1>6, <1>7, <1>8, <1>9, IdleRun

\* Only a commit writes a snapshot.
LEMMA SnapshotsKept ==
    ASSUME ClaimInv, [Next]_vars,
           ~ \E s \in Services, r \in Requests : CompleteCommit(s, r)
    PROVE  snapshot' = snapshot
<1>1. ASSUME NEW s \in Services, Steer(s) PROVE snapshot' = snapshot
  BY <1>1 DEF Steer, RoomControl, PersonaControl
<1>2. ASSUME NEW s \in Services, NEW r \in Requests, Run(s, r)
      PROVE  snapshot' = snapshot
  BY <1>2
  DEF Run, PrepareRejected, PrepareReplay, PrepareClaim, PrepareObserve,
      PrepareNew, PollElapsed, CheckStale, Pin, ProviderReturns,
      GenerationFails, Renew, CompleteSettled, CompleteLost
<1>3. QED
  BY <1>1, <1>2
  DEF Next, vars, SendMessage, Close, Restart, Crash, MoveSelection, Rebind,
      Tick

LEMMA ClaimInvStep == ClaimInv /\ [Next]_vars => ClaimInv'
<1> SUFFICES ASSUME ClaimInv, [Next]_vars PROVE ClaimInv'
  OBVIOUS
<1>0. IInv /\ TypeOK /\ SnapshotMatchesOutcome
  BY DEF ClaimInv, IInv, RowsSound
<1>1. IInv' /\ Claims' /\ ClosedHoldsNoClaim'
  BY <1>0, IInvStep, ClaimsStep
<1>2. \A r \in Requests :
         /\ cmd[r].state # "complete" => snapshot[r] = 0
         /\ cmd[r].state = "pending" => cmd[r].outcome = "none"
  BY <1>0 DEF IInv, RowShape, SnapshotMatchesOutcome, TypeOK, Command
<1>3. ASSUME Kept, snapshot' = snapshot PROVE SnapshotMatchesOutcome'
  BY <1>0, <1>2, <1>3 DEF Kept, Keeps, SnapshotMatchesOutcome
<1>4. SnapshotMatchesOutcome'
  <2>1. ASSUME NEW s \in Services, NEW r \in Requests, CompleteCommit(s, r)
        PROVE  SnapshotMatchesOutcome'
    <3>1. snapshot \in [Requests -> Nat]
      BY <1>0 DEF TypeOK
    <3>2. QED
      BY <1>0, <2>1, <3>1, CommitFacts DEF SnapshotMatchesOutcome
  <2>2. ASSUME NEW s \in Services, NEW r \in Requests, PrepareNew(s, r)
        PROVE  SnapshotMatchesOutcome'
    <3>1. snapshot' = snapshot /\ cmd[r].state = "none"
      BY <2>2 DEF PrepareNew, IsNew
    <3>2. QED
      BY <1>0, <1>1, <1>2, <2>2, <3>1, NewFacts
      DEF IInv, SnapshotMatchesOutcome
  <2>3. CASE /\ ~ \E s \in Services, r \in Requests : CompleteCommit(s, r)
             /\ ~ \E s \in Services, r \in Requests : PrepareNew(s, r)
    <3>1. snapshot' = snapshot
      BY <2>3, SnapshotsKept
    <3>2. Kept
      BY <1>0, <2>3, StepKinds, SteerKept
    <3>3. QED
      BY <1>3, <3>1, <3>2
  <2>4. QED
    BY <2>1, <2>2, <2>3
<1>5. QED
  BY <1>1, <1>4 DEF ClaimInv, RowsSound

\* A run relies on its claim only while the row still names it.
THEOREM ClaimsKept == Spec => []ClaimInv
<1>1. Init => ClaimInv
  BY IInvInit, ClaimsInit DEF ClaimInv
<1>2. ClaimInv /\ [Next]_vars => ClaimInv'
  BY ClaimInvStep
<1>3. QED
  BY <1>1, <1>2, PTL DEF Spec

\* The snapshot of a completed request fits its outcome, and no claim names a
\* run of a service that has begun to close, whatever crashed, closed or was
\* retried (#completeMessage, #close).
THEOREM RowsAreSound == Spec => []RowsSound
<1>1. ClaimInv => RowsSound
  BY DEF ClaimInv
<1>2. QED
  BY <1>1, ClaimsKept, PTL

\* A reply is committed only by a run that generated it under the claim in
\* force, and a snapshot only for the provider the room has at that moment
\* (#completeMessage).
THEOREM CommitsAreInForce == Spec => CommitsInForce
<1> DEFINE Claimed(r) ==
      cmd[r].outcome # "text" /\ cmd'[r].outcome = "text" =>
         \E s \in Services :
             /\ worker[s][r].owner = cmd[r].owner
             /\ worker[s][r].fresh
             /\ worker'[s][r].pc = "idle"
    Current(r) == snapshot'[r] # snapshot[r] => snapshot'[r] = provider
<1>1. ASSUME ClaimInv, [Next]_vars, NEW r \in Requests
      PROVE  Claimed(r) /\ Current(r)
  <2>0. IInv /\ TypeOK /\ TypeOK'
    BY <1>1, TypeStep DEF ClaimInv, IInv
  <2>1. ASSUME NEW s \in Services, NEW q \in Requests, CompleteCommit(s, q)
        PROVE  Claimed(r) /\ Current(r)
    <3>1. snapshot \in [Requests -> Nat]
      BY <2>0 DEF TypeOK
    <3>2. QED
      BY <1>1, <2>1, <3>1, CommitFacts
  <2>2. ASSUME NEW s \in Services, NEW q \in Requests, PrepareNew(s, q)
        PROVE  Claimed(r) /\ Current(r)
    <3>1. snapshot' = snapshot
      BY <2>2 DEF PrepareNew
    <3>2. QED
      BY <2>0, <2>2, <3>1, NewFacts
  <2>3. CASE /\ ~ \E s \in Services, q \in Requests : CompleteCommit(s, q)
             /\ ~ \E s \in Services, q \in Requests : PrepareNew(s, q)
    <3>1. snapshot' = snapshot
      BY <1>1, <2>3, SnapshotsKept
    <3>2. Kept
      BY <1>1, <2>0, <2>3, StepKinds, SteerKept
    <3>3. QED
      BY <3>1, <3>2 DEF Kept, Keeps
  <2>4. QED
    BY <2>1, <2>2, <2>3
<1>2. ClaimInv /\ [Next]_vars =>
         /\ [\A r \in Requests : Claimed(r)]_vars
         /\ [\A r \in Requests : Current(r)]_vars
  BY <1>1
<1>3. QED
  BY <1>2, ClaimsKept, PTL
  DEF Spec, CommitsInForce, NoResultFromOlderClaim, CommitsUnderCurrentProvider

-----------------------------------------------------------------------------
(***************************************************************************)
(* The contract.  A position of the log belongs to the one admitted        *)
(* request whose human message it is or refers to, so what the contract    *)
(* sees of the log only ever grows at its end.                             *)
(***************************************************************************)

Reference(i) ==
    IF events[i].type = "human_message" THEN i ELSE events[i].source

Transcript ==
    [i \in DOMAIN events |->
        [kind |-> events[i].type, request |-> RequestOf(i)]]

Open == {r \in Requests : cmd[r].state = "pending"}

Ended == {r \in Requests : cmd[r].state = "complete"}

\* Every entry of the log belongs to exactly one request.
Named ==
    \A i \in DOMAIN events :
        /\ RequestOf(i) \in Requests
        /\ Admitted(RequestOf(i))
        /\ cmd[RequestOf(i)].human = Reference(i)
        /\ \A r \in Requests :
              Admitted(r) /\ cmd[r].human = Reference(i) => RequestOf(i) = r

LEMMA RequestNamed == IInv => Named
<1> SUFFICES ASSUME IInv, NEW i \in DOMAIN events
             PROVE  /\ RequestOf(i) \in Requests
                    /\ Admitted(RequestOf(i))
                    /\ cmd[RequestOf(i)].human = Reference(i)
                    /\ \A r \in Requests :
                          Admitted(r) /\ cmd[r].human = Reference(i)
                             => RequestOf(i) = r
  BY DEF Named
<1>1. events[i].type \in EventTypes
  <2>1. events \in Seq(Event)
    BY DEF IInv, TypeOK
  <2>2. events[i] \in Event
    BY <2>1
  <2>3. QED
    BY <2>2 DEF Event
<1>2. \E r \in Requests : Admitted(r) /\ cmd[r].human = Reference(i)
  <2>1. CASE events[i].type = "human_message"
    BY <2>1 DEF IInv, AdmittedOnce, Reference
  <2>2. CASE events[i].type = "director_decision"
    <3>1. PICK r \in Requests : Admitted(r) /\ cmd[r].human + 1 = i
      BY <2>2 DEF IInv, AdmittedOnce
    <3>2. events[cmd[r].human + 1] =
             [type |-> "director_decision", speaker |-> cmd[r].speaker,
              source |-> cmd[r].human]
      BY <3>1 DEF IInv, AdmittedOnce
    <3>3. events[i].source = cmd[r].human
      BY <3>1, <3>2
    <3>4. QED
      BY <2>2, <3>1, <3>3 DEF Reference
  <2>3. CASE events[i].type = "persona_message"
    <3>1. PICK r \in Requests :
             cmd[r].outcome = "text" /\ cmd[r].human = events[i].source
      BY <2>3 DEF IInv, RepliedOnce, IsReply
    <3>2. Admitted(r)
      BY <3>1 DEF IInv, RowShape, Admitted
    <3>3. QED
      BY <2>3, <3>1, <3>2 DEF Reference
  <2>4. QED
    BY <1>1, <2>1, <2>2, <2>3 DEF EventTypes
<1>3. RequestOf(i) = CHOOSE r \in Requests :
                        Admitted(r) /\ cmd[r].human = Reference(i)
  BY DEF RequestOf, Reference
<1>4. /\ RequestOf(i) \in Requests /\ Admitted(RequestOf(i))
      /\ cmd[RequestOf(i)].human = Reference(i)
  BY <1>2, <1>3
<1>5. QED
  BY <1>4 DEF IInv, AdmittedOnce

LEMMA RequestNamedNext == IInv' => Named'
  BY RequestNamed, PTL

\* An entry that stays where it is keeps its request, as long as admitted rows
\* keep their place in the log.
LEMMA EntryKept ==
    ASSUME IInv, IInv', NEW i \in DOMAIN events, i \in DOMAIN events',
           events'[i] = events[i],
           \A q \in Requests :
              Admitted(q) => Admitted(q)' /\ cmd'[q].human = cmd[q].human
    PROVE  RequestOf(i)' = RequestOf(i)
<1>1. PICK r \in Requests :
         r = RequestOf(i) /\ Admitted(r) /\ cmd[r].human = Reference(i)
  BY RequestNamed DEF Named
<1>2. Reference(i)' = Reference(i)
  BY DEF Reference
<1>3. Admitted(r)' /\ cmd'[r].human = Reference(i)'
  BY <1>1, <1>2
<1>4. RequestOf(i)' = r
  BY <1>3, RequestNamedNext DEF Named
<1>5. QED
  BY <1>1, <1>4

LEMMA KeptTranscript ==
    ASSUME IInv, IInv', Kept
    PROVE  Transcript' = Transcript /\ Open' = Open /\ Ended' = Ended
<1>1. events' = events
  BY DEF Kept
<1>2. \A q \in Requests :
         /\ cmd'[q].state = cmd[q].state /\ cmd'[q].human = cmd[q].human
  BY DEF Kept, Keeps
<1>3. \A i \in DOMAIN events : RequestOf(i)' = RequestOf(i)
  BY <1>1, <1>2, EntryKept DEF Admitted
<1>4. QED
  BY <1>1, <1>2, <1>3 DEF Transcript, Open, Ended

\* What the contract sees of the log is a sequence as long as the log.
LEMMA TranscriptType ==
    ASSUME IInv
    PROVE  /\ Transcript \in Seq([kind : EventTypes, request : Requests])
           /\ Len(Transcript) = Len(events) /\ Len(events) \in Nat
           /\ DOMAIN Transcript = 1 .. Len(events)
           /\ DOMAIN events = 1 .. Len(events)
<1> DEFINE E == [kind : EventTypes, request : Requests]
<1>1. events \in Seq(Event)
  BY DEF IInv, TypeOK
<1>2. DOMAIN events = 1 .. Len(events) /\ Len(events) \in Nat
  BY <1>1
<1>3. \A i \in DOMAIN events : [kind |-> events[i].type,
                                request |-> RequestOf(i)] \in E
  <2> TAKE i \in DOMAIN events
  <2>1. events[i] \in Event
    BY <1>1
  <2>2. RequestOf(i) \in Requests
    BY RequestNamed DEF Named
  <2>3. QED
    BY <2>1, <2>2 DEF Event
<1>4. Transcript \in [1 .. Len(events) -> E]
  BY <1>2, <1>3 DEF Transcript
<1> HIDE DEF E
<1>5. Transcript \in Seq(E)
  BY <1>2, <1>4, SeqDef
<1>6. Len(Transcript) = Len(events)
  BY <1>2, <1>4, <1>5, LenProperties
<1>7. QED
  BY <1>2, <1>4, <1>5, <1>6 DEF E

LEMMA TranscriptTypeNext ==
    IInv' => /\ (Transcript \in Seq([kind : EventTypes, request : Requests]))'
             /\ (Len(Transcript) = Len(events))'
<1> DEFINE P == /\ Transcript \in Seq([kind : EventTypes, request : Requests])
                /\ Len(Transcript) = Len(events)
<1>1. IInv => P
  BY TranscriptType
<1> HIDE DEF P
<1>2. IInv' => P'
  BY <1>1, PTL
<1>3. QED
  BY <1>2 DEF P

\* Admitting a request is the contract's Admit.
LEMMA NewAdmits ==
    ASSUME IInv, IInv', NEW s \in Services, NEW r \in Requests,
           PrepareNew(s, r)
    PROVE  /\ r \notin Open \cup Ended
           /\ Transcript' = Transcript \o
                 <<[kind |-> "human_message", request |-> r],
                   [kind |-> "director_decision", request |-> r]>>
           /\ \/ Open' = Open \cup {r} /\ Ended' = Ended
              \/ Ended' = Ended \cup {r} /\ Open' = Open
           /\ fenced' = fenced
<1>0. TypeOK'
  BY DEF IInv
<1>1. /\ fenced' = fenced /\ cmd[r].state = "none"
      /\ \A q \in Requests : q # r => cmd'[q] = cmd[q]
      /\ cmd'[r].human = Len(events) + 1
      /\ cmd'[r].state \in {"pending", "complete"}
      /\ Len(events) \in Nat /\ Len(events') = Len(events) + 2
      /\ \A i \in 1 .. Len(events) : events'[i] = events[i]
      /\ events'[Len(events) + 1].type = "human_message"
      /\ events'[Len(events) + 2] =
            [type |-> "director_decision", speaker |-> cmd'[r].speaker,
             source |-> Len(events) + 1]
      /\ DOMAIN events = 1 .. Len(events)
      /\ DOMAIN events' = 1 .. (Len(events) + 2)
  BY <1>0, NewFacts
<1>2. \A i \in 1 .. Len(events) : RequestOf(i)' = RequestOf(i)
  <2> TAKE i \in 1 .. Len(events)
  <2>1. i \in DOMAIN events /\ i \in DOMAIN events' /\ events'[i] = events[i]
    BY <1>1
  <2>2. \A q \in Requests :
           Admitted(q) => Admitted(q)' /\ cmd'[q].human = cmd[q].human
    BY <1>1 DEF Admitted
  <2>3. QED
    BY <2>1, <2>2, EntryKept
<1>3. Admitted(r)'
  BY <1>1 DEF Admitted
<1>4. ASSUME NEW i, i \in {Len(events) + 1, Len(events) + 2}
      PROVE  RequestOf(i)' = r
  <2>1. Reference(i)' = Len(events) + 1
    BY <1>1, <1>4 DEF Reference
  <2>2. i \in DOMAIN events'
    BY <1>1, <1>4
  <2>3. QED
    BY <1>1, <1>3, <2>1, <2>2, RequestNamedNext DEF Named
<1> DEFINE E == [kind : EventTypes, request : Requests]
           new == <<[kind |-> "human_message", request |-> r],
                    [kind |-> "director_decision", request |-> r]>>
<1>5. /\ Transcript \in Seq(E) /\ Len(Transcript) = Len(events)
      /\ Transcript' \in Seq(E) /\ Len(Transcript') = Len(events) + 2
  BY <1>1, TranscriptType, TranscriptTypeNext
<1>6. /\ new \in Seq(E) /\ Len(new) = 2
      /\ new[1] = [kind |-> "human_message", request |-> r]
      /\ new[2] = [kind |-> "director_decision", request |-> r]
  <2>1. /\ [kind |-> "human_message", request |-> r] \in E
        /\ [kind |-> "director_decision", request |-> r] \in E
    BY DEF EventTypes
  <2> HIDE DEF E
  <2>2. QED
    BY <2>1
<1> HIDE DEF E, new
<1>6a. /\ Transcript \o new \in Seq(E)
       /\ Len(Transcript \o new) = Len(Transcript) + Len(new)
       /\ \A i \in 1 .. Len(Transcript) + Len(new) : (Transcript \o new)[i] =
             IF i <= Len(Transcript) THEN Transcript[i]
                                     ELSE new[i - Len(Transcript)]
  <2>1. Transcript \in Seq(E) /\ new \in Seq(E)
    BY <1>5, <1>6
  <2>2. QED
    BY <2>1, ConcatProperties, Zenon
<1>7. ASSUME NEW i \in 1 .. Len(Transcript')
      PROVE  Transcript'[i] = (Transcript \o new)[i]
  <2>1. Transcript'[i] = [kind |-> events'[i].type, request |-> RequestOf(i)']
    BY <1>1, <1>5 DEF Transcript
  <2>2. CASE i \in 1 .. Len(events)
    <3>1. Transcript[i] = [kind |-> events[i].type, request |-> RequestOf(i)]
      BY <1>1, <2>2 DEF Transcript
    <3>2. Transcript'[i] = Transcript[i]
      BY <1>1, <1>2, <2>1, <2>2, <3>1
    <3>3. (Transcript \o new)[i] = Transcript[i]
      BY <1>1, <1>5, <1>6, <2>2, ConcatProperties
    <3>4. QED
      BY <3>2, <3>3
  <2>3. CASE i = Len(events) + 1
    <3>0. events'[i].type = "human_message" /\ RequestOf(i)' = r
      BY <1>1, <1>4, <2>3
    <3>1. Transcript'[i] = new[1]
      BY <1>6, <2>1, <3>0
    <3>2. (Transcript \o new)[i] = new[1]
      <4>1. /\ i \in 1 .. Len(Transcript) + Len(new)
            /\ ~ i <= Len(Transcript) /\ i - Len(Transcript) = 1
        BY <1>1, <1>5, <1>6, <2>3
      <4>2. QED
        BY <1>6a, <4>1, Zenon
    <3>3. QED
      BY <3>1, <3>2
  <2>4. CASE i = Len(events) + 2
    <3>1. events'[i].type = "director_decision" /\ RequestOf(i)' = r
      BY <1>1, <1>4, <2>4
    <3>2. Transcript'[i] = new[2]
      BY <1>6, <2>1, <3>1
    <3>3. (Transcript \o new)[i] = new[2]
      <4>1. /\ i \in 1 .. Len(Transcript) + Len(new)
            /\ ~ i <= Len(Transcript) /\ i - Len(Transcript) = 2
        BY <1>1, <1>5, <1>6, <2>4
      <4>2. QED
        BY <1>6a, <4>1, Zenon
    <3>4. QED
      BY <3>2, <3>3
  <2>5. i \in 1 .. Len(events) \/ i \in {Len(events) + 1, Len(events) + 2}
    BY <1>1, <1>5
  <2>6. QED
    BY <2>2, <2>3, <2>4, <2>5
<1>8. Transcript' = Transcript \o new
  <2>1. /\ Transcript \o new \in Seq(E)
        /\ Len(Transcript \o new) = Len(events) + 2
    BY <1>5, <1>6, <1>6a
  <2>2. QED
    BY <1>5, <1>7, <2>1, SeqEqual
<1>9. QED
  BY <1>1, <1>8 DEF Open, Ended, new

\* A commit is the contract's Answer, or its Drop when nothing is said.
LEMMA CommitEnds ==
    ASSUME IInv, IInv', NEW s \in Services, NEW r \in Requests,
           CompleteCommit(s, r)
    PROVE  /\ r \in Open /\ Open' = Open \ {r} /\ Ended' = Ended \cup {r}
           /\ fenced' = fenced
           /\ \/ Transcript' = Transcript
              \/ /\ r \notin fenced
                 /\ Transcript' = Append(Transcript,
                       [kind |-> "persona_message", request |-> r])
<1> DEFINE outcome == OutcomeOf(s, r)
           sequence == IF outcome = "text" THEN Len(events) + 1 ELSE 0
           c == [cmd[r] EXCEPT !.state = "complete", !.outcome = outcome,
                   !.reply = sequence, !.owner = NoOwner, !.ttl = 0]
           reply == [type |-> "persona_message", speaker |-> cmd[r].speaker,
                     source |-> cmd[r].human]
<1>0. TypeOK /\ RowShape(r)
  BY DEF IInv
<1>1. /\ cmd \in [Requests -> Command] /\ cmd[r] \in Command
      /\ events \in Seq(Event) /\ events' \in Seq(Event)
      /\ fenced' = fenced /\ generation \in Nat
  BY DEF IInv, TypeOK, CompleteCommit
<1>2. cmd[r].state = "pending"
  <2>1. cmd[r].state # "complete" /\ cmd[r].ttl > 0
    BY DEF CompleteCommit, HoldsClaim
  <2>2. QED
    BY <1>0, <1>1, <2>1 DEF RowShape, Command
<1>3. /\ cmd' = [cmd EXCEPT ![r] = c]
      /\ events' = IF outcome = "text" THEN Append(events, reply) ELSE events
  BY DEF CompleteCommit, Completed
<1>4. r \in fenced => outcome = "stale"
  <2>1. r \in fenced => cmd[r].generation # generation
    <3>1. cmd[r].generation \in Nat
      BY <1>1 DEF Command
    <3>2. QED
      BY <1>1, <3>1 DEF IInv, FencedBehind
  <2>2. QED
    BY <2>1 DEF OutcomeOf, StaleAtCommit, Stale
<1> HIDE DEF outcome, sequence
<1>5. c.state = "complete" /\ c.human = cmd[r].human
  BY <1>1 DEF Command
<1> HIDE DEF c
<1>6. /\ cmd'[r] = c
      /\ \A q \in Requests : q # r => cmd'[q] = cmd[q]
  BY <1>1, <1>3
<1>7. r \in Open /\ Open' = Open \ {r} /\ Ended' = Ended \cup {r}
  BY <1>2, <1>5, <1>6 DEF Open, Ended
<1>8. \A q \in Requests :
         Admitted(q) => Admitted(q)' /\ cmd'[q].human = cmd[q].human
  BY <1>5, <1>6 DEF Admitted
<1>9. CASE outcome # "text"
  <2>1. events' = events
    BY <1>3, <1>9
  <2>2. \A i \in DOMAIN events : RequestOf(i)' = RequestOf(i)
    BY <1>8, <2>1, EntryKept
  <2>3. Transcript' = Transcript
    BY <2>1, <2>2 DEF Transcript
  <2>4. QED
    BY <1>1, <1>7, <2>3
<1>10. CASE outcome = "text"
  <2> DEFINE E == [kind : EventTypes, request : Requests]
             new == [kind |-> "persona_message", request |-> r]
  <2>1. /\ Len(events) \in Nat /\ Len(events') = Len(events) + 1
        /\ DOMAIN events = 1 .. Len(events)
        /\ DOMAIN events' = 1 .. (Len(events) + 1)
        /\ \A i \in 1 .. Len(events) : events'[i] = events[i]
        /\ events'[Len(events) + 1] = reply
    <3>1. reply \in Event
      BY <1>1 DEF Event, EventTypes, Command
    <3> HIDE DEF reply
    <3>2. QED
      BY <1>1, <1>3, <1>10, <3>1
  <2>2. \A i \in 1 .. Len(events) : RequestOf(i)' = RequestOf(i)
    <3> TAKE i \in 1 .. Len(events)
    <3>1. i \in DOMAIN events /\ i \in DOMAIN events'
          /\ events'[i] = events[i]
      BY <2>1
    <3>2. QED
      BY <1>8, <3>1, EntryKept
  <2>3. ASSUME NEW i, i = Len(events) + 1 PROVE RequestOf(i)' = r
    <3>1. i \in DOMAIN events'
      BY <2>1, <2>3
    <3>2. Reference(i)' = cmd[r].human
      BY <2>1, <2>3 DEF Reference
    <3>3. Admitted(r)' /\ cmd'[r].human = cmd[r].human
      BY <1>5, <1>6 DEF Admitted
    <3>4. QED
      BY <3>1, <3>2, <3>3, RequestNamedNext DEF Named
  <2>4. /\ Transcript \in Seq(E) /\ Len(Transcript) = Len(events)
        /\ Transcript' \in Seq(E) /\ Len(Transcript') = Len(events) + 1
    BY <2>1, TranscriptType, TranscriptTypeNext
  <2>5. new \in E
    BY DEF EventTypes
  <2>6. ASSUME NEW i \in 1 .. Len(Transcript')
        PROVE  Transcript'[i] = Append(Transcript, new)[i]
    <3>1. Transcript'[i] = [kind |-> events'[i].type,
                            request |-> RequestOf(i)']
      BY <2>1, <2>4 DEF Transcript
    <3>2. CASE i \in 1 .. Len(events)
      <4>1. Transcript[i] = [kind |-> events[i].type, request |-> RequestOf(i)]
        BY <2>1, <3>2 DEF Transcript
      <4>2. Transcript'[i] = Transcript[i]
        BY <2>1, <2>2, <3>1, <3>2, <4>1
      <4> HIDE DEF E, new
      <4>3. Append(Transcript, new)[i] = Transcript[i]
        BY <2>1, <2>4, <2>5, <3>2
      <4>4. QED
        BY <4>2, <4>3
    <3>3. CASE i = Len(events) + 1
      <4>1. Transcript'[i] = new
        BY <2>1, <2>3, <3>1, <3>3
      <4> HIDE DEF E, new
      <4>2. Append(Transcript, new)[i] = new
        BY <2>1, <2>4, <2>5, <3>3
      <4>3. QED
        BY <4>1, <4>2
    <3>4. QED
      BY <2>1, <2>4, <3>2, <3>3
  <2>7. Transcript' = Append(Transcript, new)
    <3> HIDE DEF E, new
    <3>1. /\ Append(Transcript, new) \in Seq(E)
          /\ Len(Append(Transcript, new)) = Len(events) + 1
      BY <2>4, <2>5
    <3>2. QED
      BY <2>4, <2>6, <3>1, SeqEqual
  <2>8. QED
    BY <1>1, <1>4, <1>7, <1>10, <2>7
<1>11. QED
  BY <1>9, <1>10

LEMMA ContractStep ==
    ASSUME IInv, [Next]_vars
    PROVE  [Contract!ContractNext]_(Contract!contract_vars)
<1>0. IInv' /\ TypeOK
  BY IInvStep DEF IInv
<1> USE DEF Contract!ContractNext, Contract!contract_vars, Contract!Admit,
            Contract!Answer, Contract!Drop, Contract!End, Contract!Fence,
            Contract!Entry
<1>1. CASE Kept /\ UNCHANGED <<generation, fenced>>
  BY <1>0, <1>1, KeptTranscript DEF Transcript, Open, Ended
<1>2. ASSUME NEW s \in Services, Steer(s)
      PROVE  [Contract!ContractNext]_(Contract!contract_vars)
  <2>1. Transcript' = Transcript /\ Open' = Open /\ Ended' = Ended
    BY <1>0, <1>2, SteerKept, KeptTranscript
  <2>2. fenced' = fenced \/ fenced' = fenced \cup Open
    BY <1>0, <1>2, SteerKept DEF Open
  <2>3. CASE fenced' = fenced
    BY <2>1, <2>3 DEF Transcript, Open, Ended
  <2>4. CASE fenced' = fenced \cup Open
    <3>1. Open \in SUBSET Open
      OBVIOUS
    <3>2. QED
      BY <2>1, <2>4, <3>1 DEF Transcript, Open, Ended
  <2>5. QED
    BY <2>2, <2>3, <2>4
<1>3. ASSUME NEW s \in Services, NEW r \in Requests, PrepareNew(s, r)
      PROVE  [Contract!ContractNext]_(Contract!contract_vars)
  BY <1>0, <1>3, NewAdmits DEF Transcript, Open, Ended
<1>4. ASSUME NEW s \in Services, NEW r \in Requests, CompleteCommit(s, r)
      PROVE  [Contract!ContractNext]_(Contract!contract_vars)
  BY <1>0, <1>4, CommitEnds DEF Transcript, Open, Ended
<1>5. QED
  BY <1>1, <1>2, <1>3, <1>4, StepKinds

\* The room service implements the contract of a room: whatever services,
\* claims, providers and clients do, its log only ever grows by an admission,
\* or by the one answer to a request no fence has caught (#prepareMessage,
\* #completeMessage, #roomControl, #personaControl).
THEOREM ContractKept == Spec => KeepsContract
<1>1. Init => Contract!ContractInit
  <2> SUFFICES ASSUME Init PROVE Contract!ContractInit
    OBVIOUS
  <2>1. events = <<>> /\ fenced = {}
    BY DEF Init
  <2>2. \A r \in Requests : cmd[r].state = "none"
    BY DEF Init, NoCommand
  <2>3. Transcript = <<>>
    BY <2>1 DEF Transcript
  <2>4. Open = {} /\ Ended = {}
    BY <2>2 DEF Open, Ended
  <2>5. QED
    BY <2>1, <2>3, <2>4 DEF Contract!ContractInit, Transcript, Open, Ended
<1>2. IInv /\ [Next]_vars => [Contract!ContractNext]_(Contract!contract_vars)
  BY ContractStep
<1>3. QED
  BY <1>1, <1>2, Consistent, PTL
  DEF Spec, KeepsContract, Contract!ContractSpec
=============================================================================
