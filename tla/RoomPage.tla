------------------------------- MODULE RoomPage -------------------------------
(***************************************************************************)
(* The page's part in selecting and starting rooms: the room it renders,   *)
(* the selection revision it sends, the event channel it listens to, and   *)
(* the three operations that wait for the server: choosing a room of the   *)
(* library, a mutation of the room (a message, a control), and starting a  *)
(* room with a new cast.                                                   *)
(*                                                                         *)
(* An operation waits for one answer at a time.  Requests of different     *)
(* operations are served, and their answers arrive, in any order; either   *)
(* may be lost.  Other tabs move the selection too.                        *)
(***************************************************************************)
EXTENDS RoomAuthority, FiniteSets

CONSTANTS
    Ops,            \* the operations this page's user performs
    MaxLosses,      \* bound on lost requests and answers
    MaxStarts,      \* bound on the operations begun
    MaxHides,       \* bound on the times the page is hidden
    None

\* What the constants are; the modules that instantiate this one assume it.
RoomPageConstants ==
    /\ Ops \subseteq {"select", "mutate", "cast"} /\ None \notin Rooms
    /\ MaxLosses \in Nat /\ MaxStarts \in Nat /\ MaxHides \in Nat

VARIABLES
    library,    \* the rooms the server has
    op,         \* per operation: what it waits for, and its answer
    room,       \* the room the page renders
    rev,        \* selectionRevision
    channel,    \* the session of the channel holder's channel
    open,       \* per session: its channels that were started and not stopped
    life,       \* bindRoomChannelLifecycle: ready, visible, disposed, started
    script,     \* rooms whose events stand in the transcript
    unknown,    \* roomStatusUnknown
    left        \* losses, starts and times hidden still to come

vars == <<hist, library, op, room, rev, channel, open, life, script, unknown, left>>
page == <<room, rev, channel, open, life, script, unknown>>

Stages == {"idle", "post", "reread", "read", "catchUp", "refresh", "recover", "list"}
TypeOK ==
    /\ AuthorityTypeOK
    /\ library \subseteq Rooms
    /\ op \in [Ops -> [at : Stages, room : Rooms \cup {None}, rev : Nat,
                       got : {"none", "lost", "conflict", "ok", "room"},
                       state : Rooms \X Nat]]
    /\ room \in library /\ rev \in Nat
    /\ channel \in library /\ open \in [Rooms -> Nat]
    /\ life \in [ready : BOOLEAN, visible : BOOLEAN, disposed : BOOLEAN, started : BOOLEAN]
    /\ script \subseteq Rooms /\ unknown \in BOOLEAN
    /\ left \in [losses : Nat, starts : Nat, hides : Nat]

Idle == [at |-> "idle", room |-> None, rev |-> 0, got |-> "none", state |-> <<First, 0>>]

\* After the bootstrap: the selected room is rendered and its channel started.
Init ==
    /\ AuthorityInit
    /\ library \in {l \in SUBSET Rooms : First \in l /\ l # Rooms}
    /\ op = [o \in Ops |-> Idle]
    /\ room = First /\ rev = 0 /\ channel = First
    /\ open = [r \in Rooms |-> IF r = First THEN 1 ELSE 0]
    /\ life = [ready |-> TRUE, visible |-> TRUE, disposed |-> FALSE, started |-> TRUE]
    /\ script = {} /\ unknown = FALSE
    /\ left = [losses |-> MaxLosses, starts |-> MaxStarts, hides |-> MaxHides]

Waiting(o) == o \in Ops /\ op[o].at # "idle"
pending == {o \in Ops : Waiting(o)}

\* The selections still possible, less those the requests under way may make.
Spare == Revision + Cardinality(pending) < MaxRevision

-----------------------------------------------------------------------------
(* The channel holder and its lifecycle *)

\* stopCurrent
Stopped(n, s, c) == IF s THEN [n EXCEPT ![c] = @ - 1] ELSE n

StopCurrent == open' = Stopped(open, life.started, channel)

\* replace stops the former channel and starts none.
Replace(r) ==
    /\ channel' = r
    /\ StopCurrent
    /\ life' = [life EXCEPT !.started = FALSE]

Startable(l) == l.ready /\ l.visible /\ ~l.disposed /\ ~l.started

\* startIfActive
StartIfActive ==
    IF Startable(life)
    THEN /\ life' = [life EXCEPT !.started = TRUE]
         /\ open' = [open EXCEPT ![channel] = @ + 1]
    ELSE UNCHANGED <<life, open>>

\* transitionRoomSession: replace and start in one step.
ReplaceAndStart(r) ==
    LET startable == Startable([life EXCEPT !.started = FALSE])
        stopped == Stopped(open, life.started, channel)
    IN /\ channel' = r
       /\ life' = [life EXCEPT !.started = startable]
       /\ open' = IF startable THEN [stopped EXCEPT ![r] = @ + 1] ELSE stopped

Suspend ==
    /\ life' = [life EXCEPT !.ready = FALSE, !.started = FALSE]
    /\ StopCurrent

\* The page is hidden, or left for ever; it is shown again.
Hide ==
    /\ left.hides > 0 /\ life.visible
    /\ left' = [left EXCEPT !.hides = @ - 1]
    /\ \E gone \in BOOLEAN :
           life' = [life EXCEPT !.visible = FALSE, !.started = FALSE, !.disposed = gone]
    /\ StopCurrent
    /\ UNCHANGED <<hist, library, op, room, rev, channel, script, unknown>>

Show ==
    /\ ~life.visible /\ ~life.disposed
    /\ LET shown == [life EXCEPT !.visible = TRUE]
       IN /\ life' = [shown EXCEPT !.started = Startable(shown)]
          /\ open' = IF Startable(shown) THEN [open EXCEPT ![channel] = @ + 1] ELSE open
    /\ UNCHANGED <<hist, library, op, room, rev, channel, script, unknown, left>>

\* An event of an open channel; createSessionCommit drops that of another room.
Event(r) ==
    /\ open[r] > 0
    /\ script' = IF room = r THEN script \cup {r} ELSE script
    /\ UNCHANGED <<hist, library, op, room, rev, channel, open, life, unknown, left>>

-----------------------------------------------------------------------------
(* Requests *)

Goto(o, stage) == op' = [op EXCEPT ![o].at = stage, ![o].got = "none"]

Ends(o) == op' = [op EXCEPT ![o] = Idle]

Begin(o, target) ==
    /\ o \in Ops /\ left.starts > 0 /\ Spare /\ ~life.disposed
    /\ left' = [left EXCEPT !.starts = @ - 1]
    /\ op' = [op EXCEPT ![o] = [Idle EXCEPT !.at = "post", !.room = target, !.rev = rev]]
    /\ UNCHANGED <<hist, library>> /\ UNCHANGED page

\* switchRoom: only another selection under way disables the buttons.
BeginSelect(r) ==
    /\ ~Waiting("select") /\ r \in library \ {room}
    /\ Begin("select", r)

\* mutate, startHistoricalRoom: nothing else may be pending.
BeginMutate == pending = {} /\ ~unknown /\ Begin("mutate", room)
BeginCast   == pending = {} /\ ~unknown /\ Begin("cast", room)

Answered(o, got) == op' = [op EXCEPT ![o].got = got]
AnsweredState(o, r, n) == op' = [op EXCEPT ![o].got = "room", ![o].state = <<r, n>>]

ServePost(o) ==
    IF op[o].rev # Revision
    THEN Answered(o, "conflict") /\ UNCHANGED <<hist, library>>
    ELSE CASE o = "select" ->
                /\ Move(op[o].room) /\ UNCHANGED library
                /\ AnsweredState(o, op[o].room, Revision + 1)
           [] o = "mutate" ->
                /\ Answered(o, IF op[o].room = Selected THEN "ok" ELSE "conflict")
                /\ UNCHANGED <<hist, library>>
           [] o = "cast" ->
                IF library = Rooms
                THEN Answered(o, "conflict") /\ UNCHANGED <<hist, library>>
                ELSE \E r \in Rooms \ library :
                       /\ Move(r) /\ library' = library \cup {r}
                       /\ AnsweredState(o, r, Revision + 1)

\* The server works on a request.
Serve(o) ==
    /\ Waiting(o) /\ op[o].got = "none"
    /\ CASE op[o].at = "post" -> ServePost(o)
         [] op[o].at \in {"reread", "read"} ->
                AnsweredState(o, Selected, Revision) /\ UNCHANGED <<hist, library>>
         [] OTHER -> Answered(o, "ok") /\ UNCHANGED <<hist, library>>
    /\ UNCHANGED left /\ UNCHANGED page

\* A request, or the answer to it, does not arrive.
Lose(o) ==
    /\ Waiting(o) /\ op[o].got # "lost" /\ left.losses > 0
    /\ left' = [left EXCEPT !.losses = @ - 1]
    /\ op' = [op EXCEPT ![o].got = "lost"]
    /\ UNCHANGED <<hist, library>> /\ UNCHANGED page

Elsewhere(r) ==
    /\ Spare /\ r \in library /\ Move(r)
    /\ UNCHANGED <<library, op, left>> /\ UNCHANGED page

-----------------------------------------------------------------------------
(* createRoomSelectionFence.select and the callbacks the page gives it *)

StateOf(o) == op[o].state

\* commitRoom, as far as its wait for the library.
CommitRoom ==
    LET r == StateOf("select")[1]
    IN /\ Replace(r)
       /\ script' = {} /\ room' = r
       /\ rev' = StateOf("select")[2]
       /\ Goto("select", "list")

Selects ==
    /\ Waiting("select") /\ op["select"].got # "none"
    /\ LET at == op["select"].at  got == op["select"].got IN
       \/ /\ at = "post" /\ got = "room"
          /\ rev' = StateOf("select")[2]
          /\ Goto("select", "read")
          /\ UNCHANGED <<room, channel, open, life, script, unknown>>
       \/ /\ at = "post" /\ got = "conflict"
          /\ Goto("select", "reread") /\ UNCHANGED page
       \/ /\ at = "reread" /\ got = "room"
          /\ rev' = StateOf("select")[2]
          /\ Goto("select", "read")
          /\ UNCHANGED <<room, channel, open, life, script, unknown>>
       \/ /\ at = "read" /\ got = "room"
          /\ CommitRoom /\ UNCHANGED unknown
       \/ /\ at = "list" /\ got = "ok"
          /\ StartIfActive
          /\ Ends("select")
          /\ UNCHANGED <<room, rev, channel, script, unknown>>
       \/ /\ got = "lost"
          /\ Ends("select") /\ UNCHANGED page
    /\ UNCHANGED <<hist, library, left>>

-----------------------------------------------------------------------------
(* mutate: the target is compared before each sequence of requests, not    *)
(* before each rendering.                                                  *)

OnTarget == room = op["mutate"].room

Mutates ==
    /\ Waiting("mutate") /\ op["mutate"].got # "none"
    /\ LET at == op["mutate"].at  got == op["mutate"].got IN
       \/ /\ at = "post" /\ got = "ok"
          /\ IF OnTarget THEN Goto("mutate", "catchUp") ELSE Ends("mutate")
          /\ UNCHANGED page
       \/ /\ at = "catchUp" /\ got = "ok"
          /\ Goto("mutate", "refresh") /\ UNCHANGED page
       \/ /\ at = "catchUp" /\ channel # op["mutate"].room   \* aborted
          /\ IF OnTarget THEN Goto("mutate", "recover") ELSE Ends("mutate")
          /\ UNCHANGED page
       \/ /\ at = "refresh" /\ got = "ok"
          /\ room' = op["mutate"].room
          /\ Goto("mutate", "list")
          /\ UNCHANGED <<rev, channel, open, life, script, unknown>>
       \/ /\ at = "list" /\ got = "ok"
          /\ Ends("mutate") /\ UNCHANGED page
       \/ /\ at # "recover" /\ got \in {"lost", "conflict"}
          /\ IF OnTarget THEN Goto("mutate", "recover") ELSE Ends("mutate")
          /\ UNCHANGED page
       \/ /\ at = "recover"
          /\ room' = IF got = "ok" THEN op["mutate"].room ELSE room
          /\ Ends("mutate")
          /\ UNCHANGED <<rev, channel, open, life, script, unknown>>
    /\ UNCHANGED <<hist, library, left>>

-----------------------------------------------------------------------------
(* startHistoricalRoom, reconcileHistoricalRoomAttempt and                 *)
(* transitionRoomSession                                                   *)

Transition(r) ==
    /\ ReplaceAndStart(r)
    /\ IF life.disposed THEN UNCHANGED <<room, script>>
                        ELSE room' = r /\ script' = {}

\* Mutant: a room another tab selected is taken for a failure.
ReconcileOwn ==
    LET r == StateOf("cast")[1]
    IN /\ rev' = StateOf("cast")[2]
       /\ UNCHANGED <<room, channel, open, life, script, unknown>>

\* Mutant: a room to go over to is rendered, with the channel of the one before.
ReconcileUnheard ==
    LET r == StateOf("cast")[1]
    IN /\ rev' = StateOf("cast")[2]
       /\ room' = IF life.disposed THEN room ELSE r
       /\ UNCHANGED <<channel, open, life, script, unknown>>

\* The room read after a failure: the former one, the one rendered already,
\* or one to go over to, whoever started or selected it.
Reconcile ==
    LET r == StateOf("cast")[1]
    IN /\ rev' = StateOf("cast")[2]
       /\ CASE r = op["cast"].room ->
                 /\ room' = IF life.disposed THEN room ELSE r
                 /\ UNCHANGED <<channel, open, life, script, unknown>>
            [] r # op["cast"].room /\ r = room ->
                 /\ StartIfActive
                 /\ unknown' = (unknown /\ life.disposed)
                 /\ UNCHANGED <<room, channel, script>>
            [] OTHER ->
                 /\ Transition(r)
                 /\ unknown' = (unknown /\ life.disposed)

Casts ==
    /\ Waiting("cast") /\ op["cast"].got # "none"
    /\ LET at == op["cast"].at  got == op["cast"].got IN
       \/ /\ at = "post" /\ got = "room"
          /\ rev' = StateOf("cast")[2]
          /\ Transition(StateOf("cast")[1])
          /\ unknown' = FALSE
          /\ Goto("cast", "list")
       \/ /\ at = "list" /\ got = "ok"
          /\ Ends("cast") /\ UNCHANGED page
       \/ /\ at # "read" /\ got \in {"lost", "conflict"}
          /\ Goto("cast", "read") /\ UNCHANGED page
       \/ /\ at = "read" /\ got = "room"
          /\ Reconcile
          /\ Ends("cast")
       \/ /\ at = "read" /\ got = "lost"
          /\ IF life.disposed
             THEN UNCHANGED page
             ELSE /\ unknown' = TRUE /\ Suspend
                  /\ UNCHANGED <<room, rev, channel, script>>
          /\ Ends("cast")
    /\ UNCHANGED <<hist, library, left>>

Next ==
    \/ \E r \in Rooms : BeginSelect(r) \/ Elsewhere(r) \/ Event(r)
    \/ BeginMutate \/ BeginCast
    \/ \E o \in Ops : Serve(o) \/ Lose(o)
    \/ Selects \/ Mutates \/ Casts
    \/ Hide \/ Show

Spec == Init /\ [][Next]_vars

\* The server answers what reaches it, and what was answered is acted upon.
Fairness ==
    /\ \A o \in Ops : WF_vars(Serve(o))
    /\ WF_vars(Selects) /\ WF_vars(Mutates) /\ WF_vars(Casts)

FairSpec == Spec /\ Fairness

-----------------------------------------------------------------------------
(***************************************************************************)
(* The transcript never mixes rooms: what stands in it is of the room      *)
(* whose channel the page holds, though answers of the former room's       *)
(* requests are rendered after the switch (clearSession, the stopped       *)
(* channel and createSessionCommit together).                              *)
(***************************************************************************)
TranscriptOfOneRoom == script \subseteq {channel}

OneStream ==
    \A r \in Rooms :
        open[r] = IF life.started /\ r = channel THEN 1 ELSE 0
OnlyWhenShown == life.started => life.ready /\ life.visible /\ ~life.disposed
(***************************************************************************)
(* The page holds at most one stream open, that of its current channel,    *)
(* and none while it is hidden, left, or unsure of the room's status: a    *)
(* switch, a new cast, a hidden tab and a failure in any order             *)
(* (bindRoomChannelLifecycle).                                             *)
(***************************************************************************)
StreamsHeld == OneStream /\ OnlyWhenShown

AtRest == pending = {} /\ ~unknown /\ ~life.disposed

(***************************************************************************)
(* When starting a room is over, however its requests fared and whatever   *)
(* other tabs did meanwhile, the page renders the room that was selected   *)
(* at the revision it now sends, or says that it does not know             *)
(* (startHistoricalRoom).                                                  *)
(***************************************************************************)
RestsOnAuthority == AtRest => room = hist[rev + 1]

(***************************************************************************)
(* Starting rooms leaves a page that is shown with a channel started, be   *)
(* it of the room rendered or not.                                         *)
(***************************************************************************)
RestsStarted == AtRest /\ life.visible => life.started

(***************************************************************************)
(* docs/ROOM-LIBRARY.md: the page closes the previous room's channel and   *)
(* opens that of the new one.  When the requests are over, a page that is  *)
(* shown listens to the room it renders.                                   *)
(***************************************************************************)
RestsListening == RestsStarted /\ (AtRest => channel = room)

(***************************************************************************)
(* A page that starts rooms ceases to listen to the room it renders by one *)
(* step only: the room of the attempt was started and its channel opened,  *)
(* listing the rooms failed, and the former room, which was selected       *)
(* elsewhere, is taken for a sign that nothing was started.                *)
(***************************************************************************)
TakenForUnchanged ==
    /\ Waiting("cast") /\ op["cast"].at = "read" /\ op["cast"].got = "room"
    /\ StateOf("cast")[1] = op["cast"].room /\ channel # op["cast"].room
StaysListening == channel = room /\ channel' # room' => life.disposed \/ TakenForUnchanged

(***************************************************************************)
(* A page whose user starts rooms, and chooses none meanwhile, never sends *)
(* an earlier revision than one it has learned of.                         *)
(***************************************************************************)
NeverBack == rev' >= rev

(***************************************************************************)
(* docs/ROOM-LIBRARY.md: a late stale request does not overwrite newer     *)
(* authority, and what the page sends carries the selected room's exact    *)
(* revision.  With no choice under way that would still correct it, the    *)
(* page does not go over to a room of an earlier selection than that it    *)
(* renders.  (The room list stays enabled while a cast is under way, and   *)
(* the answer to the cast is taken whenever it arrives.)                   *)
(***************************************************************************)
NeverGoesBack == [][room' # room /\ ~Waiting("select") => rev' >= rev]_vars

(***************************************************************************)
(* The composer does not stay locked: every operation ends, with requests  *)
(* lost, answered late, or refused.                                        *)
(***************************************************************************)
Unlocks == pending # {} ~> pending = {}
=============================================================================
