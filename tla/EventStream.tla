---------------------------- MODULE EventStream ----------------------------
(***************************************************************************)
(* How the events of a room reach its page.  The browser's event channel   *)
(* (createRoomEventChannel in public/app.js) first replays pages of the    *)
(* log until one comes back empty, then attaches to the server's event     *)
(* stream (SseClients in src/api/routes.ts), which polls the log into a    *)
(* bounded queue and writes the queue to the socket under back-pressure.   *)
(* The page may be hidden and shown again, every request and every         *)
(* connection may fail, and the page asks for a replay of its own after    *)
(* each command it sends.                                                  *)
(*                                                                         *)
(* An event is its sequence number.  A generation begins at each start and *)
(* at each stop of the channel, and has at most one replay under way.      *)
(***************************************************************************)
EXTENDS Integers, Sequences

CONSTANTS
    PageLimit,    \* EVENT_REPLAY_LIMIT: events in one replay answer
    QueueLimit,   \* queueLimit: frames that wait for the socket
    MaxLog,       \* bound on the events of the room
    MaxGen        \* bound on generations of the channel

ASSUME StreamAssumption ==
    /\ PageLimit \in Nat \ {0}
    /\ QueueLimit \in Nat \ {0}
    /\ MaxLog \in Nat
    /\ MaxGen \in Nat \ {0}

VARIABLES
    log,         \* the room's events are 1 .. log
    cursor,      \* last event the page has shown
    stopped,     \* the channel is stopped
    generation,  \* its generation
    timer,       \* a reconnection is scheduled
    replay,      \* the replay of each generation
    phase,       \* the connection of the channel, if it has one
    lastQueued,  \* what the server keeps for that connection: last event queued,
    queue,       \*   frames not yet written,
    waiting,     \*   and whether the socket is full
    wire         \* frames written and not yet received

channel == <<cursor, stopped, generation, timer>>
server == <<lastQueued, queue, waiting>>
connection == <<phase, server, wire>>
vars == <<log, channel, replay, connection>>

Generations == 0 .. MaxGen
Phases == {"none", "connecting", "open", "broken"}

\* waits: a reconnection waits for the replay and attaches when it is done.
Idle == [at |-> "none", from |-> 0, upto |-> 0, waits |-> FALSE]
Replays == [at : {"none", "asked", "answered"}, from : 0 .. MaxLog,
            upto : 0 .. MaxLog, waits : BOOLEAN]

\* Cursors, frames and replays name events of the room, and the state of the
\* channel and of its connection has the shapes above.
TypeOK ==
    /\ log \in 0 .. MaxLog
    /\ cursor \in 0 .. MaxLog
    /\ stopped \in BOOLEAN
    /\ generation \in 0 .. MaxGen
    /\ timer \in BOOLEAN
    /\ replay \in [Generations -> Replays]
    /\ phase \in Phases
    /\ lastQueued \in 0 .. MaxLog
    /\ queue \in Seq(1 .. MaxLog)
    /\ waiting \in BOOLEAN
    /\ wire \in Seq(1 .. MaxLog)

Init ==
    /\ log = 0
    /\ cursor = 0
    /\ stopped = TRUE
    /\ generation = 0
    /\ timer = FALSE
    /\ replay = [g \in Generations |-> Idle]
    /\ phase = "none"
    /\ lastQueued = 0
    /\ queue = <<>>
    /\ waiting = FALSE
    /\ wire = <<>>

Smaller(a, b) == IF a < b THEN a ELSE b

-----------------------------------------------------------------------------
(* The room *)

\* appendEventInTransaction: sequence numbers have no holes.
AppendEvent ==
    /\ log < MaxLog
    /\ log' = log + 1
    /\ UNCHANGED <<channel, replay, connection>>

-----------------------------------------------------------------------------
(* The channel: start, stop, replay *)

\* Plausible bug: only stop() is noticed, not the start() after it.
IsCurrentUnlessStopped(g) == ~stopped

IsCurrent(g) == ~stopped /\ generation = g

\* The connection is gone, on both sides.
NoConnection ==
    /\ phase' = "none"
    /\ lastQueued' = 0
    /\ queue' = <<>>
    /\ waiting' = FALSE
    /\ wire' = <<>>

Asked(from, waits) == [at |-> "asked", from |-> from, upto |-> from, waits |-> waits]

\* start: a replay from the cursor, then attach.
Start ==
    /\ stopped
    /\ generation < MaxGen
    /\ stopped' = FALSE
    /\ generation' = generation + 1
    /\ replay' = [replay EXCEPT ![generation + 1] = Asked(cursor, TRUE)]
    /\ UNCHANGED <<log, cursor, timer, connection>>

\* stop: the replay under way is aborted, but its answer may be there already.
Stop ==
    /\ ~stopped
    /\ generation < MaxGen
    /\ stopped' = TRUE
    /\ generation' = generation + 1
    /\ timer' = FALSE
    /\ NoConnection
    /\ UNCHANGED <<log, cursor, replay>>

\* catchUp of the page after a command.  A replay under way is shared.
CatchUp ==
    /\ ~stopped
    /\ replay[generation].at = "none"
    /\ replay' = [replay EXCEPT ![generation] = Asked(cursor, FALSE)]
    /\ UNCHANGED <<log, channel, connection>>

\* GET /api/rooms/:roomId/events: readEvents with the replay limit.
ServerReplays(g) ==
    /\ replay[g].at = "asked"
    /\ replay' = [replay EXCEPT ![g].at = "answered",
                     ![g].upto = Smaller(log, replay[g].from + PageLimit)]
    /\ UNCHANGED <<log, channel, connection>>

\* Plausible bug: a failed replay schedules nothing.
ReconnectsNever(g) == FALSE

\* reconnect's catch: scheduleReconnect, for the current generation.
Reconnects(g) == IsCurrent(g) /\ replay[g].waits

\* The request failed or was aborted, or its answer is invalid.
ReplayFails(g) ==
    /\ replay[g].at # "none"
    /\ replay' = [replay EXCEPT ![g] = Idle]
    /\ timer' = (timer \/ Reconnects(g))
    /\ UNCHANGED <<log, cursor, stopped, generation, connection>>

\* A page with events, committed in one go: those at or before the cursor are
\* duplicates.  The next page is asked for.
CommitPage(g) ==
    /\ replay[g].at = "answered"
    /\ IsCurrent(g)
    /\ replay[g].upto > replay[g].from
    /\ IF replay[g].from > cursor
       THEN /\ replay' = [replay EXCEPT ![g] = Idle]
            /\ timer' = (timer \/ Reconnects(g))
            /\ UNCHANGED cursor
       ELSE /\ cursor' = IF replay[g].upto > cursor THEN replay[g].upto ELSE cursor
            /\ replay' = [replay EXCEPT ![g] = Asked(cursor', replay[g].waits)]
            /\ UNCHANGED timer
    /\ UNCHANGED <<log, stopped, generation, connection>>

\* attach: the cursor the stream is asked to continue from.
After == cursor

\* An empty page ends the replay; a waiting reconnection attaches.
FinishReplay(g) ==
    /\ replay[g].at = "answered"
    /\ IsCurrent(g)
    /\ replay[g].upto <= replay[g].from
    /\ replay' = [replay EXCEPT ![g] = Idle]
    /\ IF replay[g].waits /\ phase = "none"
       THEN phase' = "connecting" /\ lastQueued' = After
       ELSE UNCHANGED <<phase, lastQueued>>
    /\ UNCHANGED <<log, channel, queue, waiting, wire>>

\* The answer to a replay of an earlier generation is dropped.
DropReplay(g) ==
    /\ replay[g].at = "answered"
    /\ ~IsCurrent(g)
    /\ replay' = [replay EXCEPT ![g] = Idle]
    /\ UNCHANGED <<log, channel, connection>>

\* The scheduled reconnection: it joins the replay under way or asks for one.
TimerFires ==
    /\ timer
    /\ timer' = FALSE
    /\ replay' = IF replay[generation].at # "none"
                 THEN [replay EXCEPT ![generation].waits = TRUE]
                 ELSE [replay EXCEPT ![generation] = Asked(cursor, TRUE)]
    /\ UNCHANGED <<log, cursor, stopped, generation, connection>>

-----------------------------------------------------------------------------
(* The server's side of the connection *)

\* flush: frames are written until the socket is full.  The write that fills
\* it is taken as well.
Flush(frames, k) ==
    /\ k \in 0 .. Len(frames)
    /\ frames # <<>> => k > 0
    /\ wire' = wire \o SubSeq(frames, 1, k)
    /\ queue' = SubSeq(frames, k + 1, Len(frames))
    /\ waiting' \in {b \in BOOLEAN : (k < Len(frames) => b) /\ (frames = <<>> => ~b)}

Capacity == QueueLimit - Len(queue)

\* Plausible bug: an event is passed over.
FoundAfterNext ==
    [i \in 1 .. Smaller(log - lastQueued, IF waiting THEN Capacity + 1 ELSE Capacity)
        |-> lastQueued + i + 1]

\* readEvents: the events after the last one queued, as many as fit, and one
\* more while the socket is full.
Found ==
    [i \in 1 .. Smaller(log - lastQueued, IF waiting THEN Capacity + 1 ELSE Capacity)
        |-> lastQueued + i]

Overflows == Len(Found) > Capacity

\* What is lost when a connection breaks is a tail of what is on the wire.
Broken ==
    /\ phase' = "broken"
    /\ queue' = <<>>
    /\ waiting' = FALSE
    /\ \E k \in 0 .. Len(wire) : wire' = SubSeq(wire, 1, k)

\* poll, of a connection that was just accepted too.
Enqueue ==
    /\ ~Overflows
    /\ phase' = "open"
    /\ lastQueued' = lastQueued + Len(Found)
    /\ IF waiting
       THEN queue' = queue \o Found /\ UNCHANGED <<waiting, wire>>
       ELSE \E k \in 0 .. QueueLimit : Flush(queue \o Found, k)
    /\ UNCHANGED <<log, channel, replay>>

Connect == phase = "connecting" /\ Enqueue

Poll == phase = "open" /\ Enqueue

\* poll finds that the queue would pass its limit: cleanup.
PollOverflows ==
    /\ phase = "open"
    /\ Overflows
    /\ Broken
    /\ UNCHANGED <<log, channel, replay, lastQueued>>

\* Plausible bug: waitingForDrain is not reset, so that flush returns at once.
DrainIgnored == UNCHANGED <<queue, waiting, wire>>

\* drain: waitingForDrain is reset, then flush.
Drained == \E k \in 0 .. QueueLimit : Flush(queue, k)

\* The socket has room again.
Drain ==
    /\ phase = "open"
    /\ waiting
    /\ Drained
    /\ UNCHANGED <<log, channel, replay, phase, lastQueued>>

\* A heartbeat that fills the socket.
Heartbeat ==
    /\ phase = "open"
    /\ ~waiting
    /\ queue = <<>>
    /\ waiting' = TRUE
    /\ UNCHANGED <<log, channel, replay, phase, lastQueued, queue, wire>>

\* External: the network, the server or its socket fails, or the stream is
\* refused.
Break ==
    /\ phase \in {"connecting", "open"}
    /\ Broken
    /\ UNCHANGED <<log, channel, replay, lastQueued>>

-----------------------------------------------------------------------------
(* The channel's side of the connection *)

\* onEvent: a duplicate is dropped, the next event shown, a gap disconnects.
Receive ==
    /\ wire # <<>>
    /\ IF Head(wire) > cursor + 1
       THEN NoConnection /\ timer' = TRUE /\ UNCHANGED cursor
       ELSE /\ cursor' = IF Head(wire) > cursor THEN Head(wire) ELSE cursor
            /\ wire' = Tail(wire)
            /\ UNCHANGED <<timer, phase, server>>
    /\ UNCHANGED <<log, stopped, generation, replay>>

\* onError, after everything that arrived: disconnect.
NoticeBreak ==
    /\ phase = "broken"
    /\ wire = <<>>
    /\ NoConnection
    /\ timer' = TRUE
    /\ UNCHANGED <<log, cursor, stopped, generation, replay>>

Next ==
    \/ AppendEvent
    \/ Start \/ Stop \/ CatchUp \/ TimerFires
    \/ \E g \in Generations :
          \/ ServerReplays(g) \/ ReplayFails(g)
          \/ CommitPage(g) \/ FinishReplay(g) \/ DropReplay(g)
    \/ Connect \/ Poll \/ PollOverflows \/ Drain \/ Heartbeat \/ Break
    \/ Receive \/ NoticeBreak

Spec == Init /\ [][Next]_vars

\* Timers, the server's interval and callbacks run; a replay asked for again
\* and again is answered and its answer arrives.
Fairness ==
    /\ WF_vars(TimerFires) /\ WF_vars(NoticeBreak) /\ WF_vars(Receive)
    /\ WF_vars(Connect) /\ WF_vars(Poll \/ PollOverflows) /\ WF_vars(Drain)
    /\ SF_vars(ServerReplays(generation))
    /\ SF_vars(CommitPage(generation)) /\ SF_vars(FinishReplay(generation))

FairSpec == Spec /\ Fairness

-----------------------------------------------------------------------------
(* What the page relies on *)

\* The stream and the replay hand over without a hole, whatever broke in
\* between: the next frame and the next page never start beyond the event
\* after the cursor, so the defensive gap branches of commit are never taken.
NeverGap ==
    /\ wire # <<>> => Head(wire) <= cursor + 1
    /\ \A g \in Generations : replay[g].at # "none" => replay[g].from <= cursor

\* A slow reader never makes the server hold more than queueLimit frames.
QueueBounded == Len(queue) <= QueueLimit

Connected == phase # "none"
Attaching == ~stopped /\ replay[generation].waits

\* A running channel always has exactly one way on: a connection, a scheduled
\* reconnection or a replay that will attach.  It is never left with none, and
\* never with two, which would make two streams.
OneWayOn ==
    /\ stopped => ~Connected /\ ~timer
    /\ ~stopped => Connected \/ timer \/ Attaching
    /\ ~(Connected /\ timer) /\ ~(Connected /\ Attaching) /\ ~(timer /\ Attaching)

\* Replay and stream together: no event is skipped, the server holds a bounded
\* queue for a slow reader, and a running channel has one way on (commit and
\* reconnect of createRoomEventChannel, SseClients).
HandoverSound == NeverGap /\ QueueBounded /\ OneWayOn

\* The answer to a replay asked for before a stop changes nothing a restarted
\* channel shows or is connected to.
OldReplayIgnored ==
    [][\A g \in Generations :
          g # generation /\ replay'[g] # replay[g] /\ generation' = generation
             => UNCHANGED <<channel, connection>>]_vars

\* Every event reaches the page, unless the page stops listening, through
\* failures, overflows and back-pressure.
Delivered ==
    \A n \in 1 .. MaxLog : log >= n ~> cursor >= n \/ stopped

-----------------------------------------------------------------------------
(* The invariant the proofs rest on *)

\* The frames of s are the events up to last, without a hole.
EndsWith(s, last) == \A i \in 1 .. Len(s) : s[i] = last - Len(s) + i

\* Frames wait only behind a full socket of an open connection.
ServerShape ==
    /\ phase \in {"none", "connecting"} => wire = <<>>
    /\ phase # "open" => queue = <<>> /\ ~waiting
    /\ ~waiting => queue = <<>>

\* What was written and what is queued continue the cursor.
Continues ==
    /\ phase = "connecting" => lastQueued <= cursor
    /\ phase = "open" => /\ EndsWith(queue, lastQueued)
                         /\ EndsWith(wire, lastQueued - Len(queue))
                         /\ lastQueued - Len(queue) - Len(wire) <= cursor
    /\ wire # <<>> => EndsWith(wire, wire[1] + Len(wire) - 1)

\* Nothing runs ahead of the log.
WithinLog ==
    /\ cursor <= log
    /\ lastQueued <= log
    /\ \A i \in 1 .. Len(wire) : wire[i] <= log
    /\ \A g \in Generations :
          replay[g].upto <= log /\ replay[g].from <= replay[g].upto

\* A generation that has not begun, or that begins with a stop, asks nothing.
ReplayShape ==
    /\ \A g \in Generations : replay[g].at = "none" => ~replay[g].waits
    /\ \A g \in Generations : g > generation => replay[g].at = "none"
    /\ stopped => replay[generation].at = "none"

StreamInv ==
    /\ TypeOK
    /\ ServerShape
    /\ Continues
    /\ WithinLog
    /\ ReplayShape
    /\ NeverGap
    /\ QueueBounded
    /\ OneWayOn
=============================================================================
