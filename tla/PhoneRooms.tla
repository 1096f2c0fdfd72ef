----------------------------- MODULE PhoneRooms -----------------------------
(***************************************************************************)
(* The page of the iPhone application around the turns: which room is      *)
(* open, which view is shown, what stands in the message field and what of *)
(* it is kept as the room's draft, while the user types, changes rooms,    *)
(* sends lines in demonstration rooms, and the phone takes the database    *)
(* away and gives it back.                                                 *)
(*                                                                         *)
(* Every handler of the page awaits calls of the native bridge, which      *)
(* serves them one after the other in the order they were made.  A step of *)
(* a handler is: its call is served, and it runs to its next await.  The   *)
(* token of a view is only compared with the one a handler has noted:      *)
(* a handler's record tells whether they are still equal.                  *)
(***************************************************************************)
EXTENDS Naturals, Sequences, FiniteSets, SequencesExt

CONSTANTS Rooms,      \* the rooms there can be
          Saved,      \* the rooms that were made before
          First,      \* the one of them that was current
          Flows,      \* page handlers that can run at the same time
          Kinds,      \* the kinds of handlers that are started
          MaxTexts,   \* bound on the texts that are typed
          MaxLines,   \* bound on the lines posted in a room
          MaxDowns,   \* bound on the losses of the database and the kills
          None

\* What the constants are; the module that instantiates this one assumes it.
RoomsAssumption ==
    /\ Saved \subseteq Rooms /\ First \in Saved /\ None \notin Rooms /\ "writer" \notin Flows
    /\ Kinds \subseteq {"blur", "open", "cancel", "reproject", "create", "submit"}
    /\ MaxTexts \in Nat /\ MaxLines \in Nat /\ MaxDowns \in Nat

VARIABLES
    made,     \* rooms: the rooms in the database
    current,  \* current_room
    stored,   \* local_drafts: the draft of each room, 0 if there is none
    lines,    \* events: the texts posted in each room, a turn each
    up,       \* whether the native side has its database, and the downs so far
    page,     \* activeRoom, activeEvents, the view, the message field, and whether
              \* the last rendering disabled the field and enabled sending
    gate,     \* mutationGate allows local writes
    writer,   \* the draft being written and the one that waits (pendingDraft)
    flow,     \* the page's handlers
    queue,    \* whose bridge calls wait, in order
    typedIn   \* history: the room each text was typed in

database == <<made, current, stored, lines>>
vars == <<made, current, stored, lines, up, page, gate, writer, flow, queue, typedIn>>

-----------------------------------------------------------------------------
Texts == 1..MaxTexts

Typed == {t \in Texts : typedIn[t] # None}

NoDraft == [room |-> None, text |-> 0]

\* What a handler is, where it is, the room it is about, the room whose draft
\* it saves, what it has read, and whether the view is the one it began in.
Idle == [kind |-> "idle", pc |-> "none", room |-> None, at |-> None, text |-> 0,
         events |-> <<>>, same |-> FALSE]

Opened(r) == [room |-> r, view |-> "room", events |-> lines[r], input |-> stored[r],
              locked |-> FALSE, sends |-> TRUE]

Init ==
    /\ made = Saved
    /\ current = First
    /\ stored = [r \in Rooms |-> 0]
    /\ lines = [r \in Rooms |-> <<>>]
    /\ up = [ready |-> TRUE, downs |-> 0]
    /\ page = Opened(First)
    /\ gate = TRUE
    /\ writer = [busy |-> FALSE, now |-> NoDraft, next |-> NoDraft, failed |-> FALSE, newest |-> FALSE]
    /\ flow = [f \in Flows |-> Idle]
    /\ queue = <<>>
    /\ typedIn = [t \in Texts |-> None]

-----------------------------------------------------------------------------
(* The parts of a handler's step.                                          *)

\* f goes on with record h, awaiting the call h.pc names; or it is done.
Awaits(f, h, flows) == /\ flow' = [flows EXCEPT ![f] = h]
                       /\ queue' = Append(queue, f)
Continues(f, h, flows) == /\ flow' = [flows EXCEPT ![f] = h]
                          /\ queue' = Append(Tail(queue), f)
Done(f, flows) == /\ flow' = [flows EXCEPT ![f] = Idle]
                  /\ queue' = Tail(queue)

\* activeViewToken += 1: what the running handlers have noted is over.
NewView == [g \in Flows |-> [flow[g] EXCEPT !.same = FALSE]]

\* renderRoom
RenderRoom(r, events, draft) ==
    page' = [room |-> r, view |-> "room", events |-> events, input |-> draft,
             locked |-> ~gate, sends |-> gate]

\* renderCommandAndMutationState, with the gate as given.
Rendered(open) == [page EXCEPT !.locked = ~open, !.sends = open]

\* What refreshMutationGate does when the lifecycle has answered.
Refreshed == gate' = up.ready /\ page' = Rendered(up.ready)

\* saveLocalDraft: an empty text deletes the draft.
SaveDraft(r, text) == stored' = [stored EXCEPT ![r] = text]

Served(f) == queue # <<>> /\ Head(queue) = f

\* The call f awaits is about to be served.
At(f, kinds, pc) == f \in Flows /\ Served(f) /\ flow[f].kind \in kinds /\ flow[f].pc = pc

-----------------------------------------------------------------------------
(* Drafts.                                                                 *)

\* One turn of drainVisibleDrafts: a draft is written, or dropped while local
\* writes are not allowed.
Drained(draft, failed, calls) ==
    IF draft # NoDraft /\ gate
    THEN /\ writer' = [busy |-> TRUE, now |-> draft, next |-> NoDraft, failed |-> failed, newest |-> TRUE]
         /\ queue' = Append(calls, "writer")
    ELSE /\ writer' = [busy |-> FALSE, now |-> NoDraft, next |-> NoDraft, failed |-> failed, newest |-> FALSE]
         /\ queue' = calls

\* queueVisibleDraft: it replaces the draft that waits, of whatever room.
QueueDraft(text) ==
    LET draft == [room |-> page.room, text |-> text] IN
    IF writer.busy
    THEN writer' = [writer EXCEPT !.next = draft, !.newest = FALSE] /\ UNCHANGED queue
    ELSE Drained(draft, writer.failed, queue)

\* The field is changed: to a new text, or to nothing.
Type(text) ==
    /\ page.view = "room" /\ ~page.locked
    /\ \/ text = 0 /\ page.input # 0 /\ UNCHANGED typedIn
       \/ text \in Texts /\ text = Cardinality(Typed) + 1
          /\ typedIn' = [typedIn EXCEPT ![text] = page.room]
    /\ page' = [page EXCEPT !.input = text]
    /\ QueueDraft(text)
    /\ UNCHANGED <<database, up, gate, flow>>

\* "Draft not saved yet": the button that queues it again.
RetryDraft ==
    /\ page.view = "room" /\ writer.failed
    /\ QueueDraft(page.input)
    /\ UNCHANGED <<database, up, page, gate, flow, typedIn>>

\* The writer's call is served.
WriteDraft ==
    /\ Served("writer")
    /\ IF up.ready THEN SaveDraft(writer.now.room, writer.now.text) ELSE UNCHANGED stored
    /\ Drained(writer.next, IF writer.newest THEN ~up.ready ELSE writer.failed, Tail(queue))
    /\ UNCHANGED <<made, current, lines, up, page, gate, flow, typedIn>>

\* The field loses the focus: persistVisibleDraft.
Blur(f) ==
    /\ flow[f] = Idle /\ page.view = "room" /\ gate
    /\ Awaits(f, [Idle EXCEPT !.kind = "blur", !.pc = "save", !.at = page.room, !.text = page.input], flow)
    /\ UNCHANGED <<database, up, page, gate, writer, typedIn>>

Blurred(f) ==
    /\ At(f, {"blur"}, "save")
    /\ IF up.ready THEN SaveDraft(flow[f].at, flow[f].text) ELSE UNCHANGED stored
    /\ writer' = [writer EXCEPT !.failed = ~up.ready]
    /\ Done(f, flow)
    /\ UNCHANGED <<made, current, lines, up, page, gate, typedIn>>

-----------------------------------------------------------------------------
(* Views and rooms.                                                        *)

\* showPicker for a demonstration, and showRoomList.
Show(view) ==
    /\ view = "picker" => gate
    /\ page' = [page EXCEPT !.view = view]
    /\ flow' = NewView
    /\ UNCHANGED <<database, up, gate, writer, queue, typedIn>>

\* A room of the list is tapped: reopenLocalRoom.
OpenRoom(f, r) ==
    /\ flow[f] = Idle /\ page.view = "rooms" /\ r \in made
    /\ Awaits(f, [Idle EXCEPT !.kind = "open", !.pc = "select", !.room = r], flow)
    /\ UNCHANGED <<database, up, page, gate, writer, typedIn>>

\* The cancel buttons of the list and of the picker: reopenAuthoritativeRoom.
Cancel(f) ==
    /\ flow[f] = Idle /\ page.view # "room"
    /\ Awaits(f, [Idle EXCEPT !.kind = "cancel", !.pc = "room", !.room = page.room, !.same = TRUE], flow)
    /\ UNCHANGED <<database, up, page, gate, writer, typedIn>>

\* The page becomes visible, the path changes, or the timer sees a change.
Reconcile(f) ==
    /\ flow[f] = Idle
    /\ Awaits(f, [Idle EXCEPT !.kind = "reproject", !.pc = "status"], flow)
    /\ UNCHANGED <<database, up, page, gate, writer, typedIn>>

\* A room that cannot be read: the handler reports it; a reprojection also
\* closes the gate.
Unreadable(f) ==
    /\ f \in Flows /\ Served(f) /\ ~up.ready
    /\ flow[f].kind \in {"open", "cancel", "create", "reproject"} /\ flow[f].pc # "status"
    /\ IF flow[f].kind = "reproject"
       THEN gate' = FALSE /\ page' = Rendered(FALSE)
       ELSE UNCHANGED <<gate, page>>
    /\ Done(f, flow)
    /\ UNCHANGED <<database, up, writer, typedIn>>

\* reconcileAndReproject has the status: it reopens the visible room, and
\* renders nothing until it has.
StatusForRoom(f) ==
    /\ At(f, {"reproject"}, "status")
    /\ gate' = up.ready
    /\ IF up.ready /\ page.view = "room"
       THEN /\ Continues(f, [flow[f] EXCEPT !.pc = "select", !.room = page.room, !.same = TRUE], flow)
            /\ UNCHANGED page
       ELSE Done(f, flow) /\ page' = Rendered(up.ready)
    /\ UNCHANGED <<database, up, writer, typedIn>>

SelectRoom(f) ==
    /\ At(f, {"open", "reproject"}, "select") /\ up.ready
    /\ current' = flow[f].room
    /\ Continues(f, [flow[f] EXCEPT !.pc = "room"], flow)
    /\ UNCHANGED <<made, stored, lines, up, page, gate, writer, typedIn>>

\* readRoomById; a cancel that finds another view gives up at once.
FindRoom(f) ==
    /\ At(f, {"open", "cancel", "reproject"}, "room") /\ up.ready
    /\ IF flow[f].kind = "cancel" => flow[f].same
       THEN Continues(f, [flow[f] EXCEPT !.pc = "events"], flow)
       ELSE Done(f, flow)
    /\ UNCHANGED <<database, up, page, gate, writer, typedIn>>

ReadEvents(f) ==
    /\ At(f, {"open", "cancel", "reproject"}, "events") /\ up.ready
    /\ Continues(f, [flow[f] EXCEPT !.pc = "draft", !.events = lines[flow[f].room]], flow)
    /\ UNCHANGED <<database, up, page, gate, writer, typedIn>>

ReadDraft(f) ==
    /\ At(f, {"open", "cancel", "reproject"}, "draft") /\ up.ready
    /\ Continues(f, [flow[f] EXCEPT !.pc = "confirm", !.text = stored[flow[f].room]], flow)
    /\ UNCHANGED <<database, up, page, gate, writer, typedIn>>

\* Whether a reopened room may be shown: one the user has tapped always, the
\* others in the view they began in.
MayRender(f) ==
    CASE flow[f].kind = "open" -> TRUE
      [] flow[f].kind = "cancel" -> flow[f].same
      [] flow[f].kind = "reproject" -> flow[f].same /\ gate /\ page.view = "room"

\* The room is confirmed and shown; after a tap the gate is refreshed.
Reopen(f) ==
    /\ At(f, {"open", "cancel", "reproject"}, "confirm") /\ up.ready
    /\ IF ~MayRender(f)
       THEN /\ page' = IF flow[f].kind = "reproject" THEN Rendered(gate) ELSE page
            /\ Done(f, flow)
       ELSE /\ RenderRoom(flow[f].room, flow[f].events, flow[f].text)
            /\ IF flow[f].kind = "open"
               THEN Continues(f, [Idle EXCEPT !.kind = "open", !.pc = "status"], NewView)
               ELSE Done(f, NewView)
    /\ UNCHANGED <<database, up, gate, writer, typedIn>>

RefreshGate(f) ==
    /\ At(f, {"open", "submit"}, "status")
    /\ flow[f].kind = "submit" => flow[f].room = None
    /\ Refreshed
    /\ Done(f, flow)
    /\ UNCHANGED <<database, up, writer, typedIn>>

\* The picker's button: createLocalRoom, with an id of its own each time.  A
\* rendering for another reason enables the button again.
Create(f, r) ==
    /\ flow[f] = Idle /\ page.view = "picker" /\ gate
    /\ r \in Rooms \ made
    /\ \A g \in Flows : flow[g].kind = "create" => flow[g].room # r
    /\ Awaits(f, [Idle EXCEPT !.kind = "create", !.pc = "create", !.room = r], flow)
    /\ UNCHANGED <<database, up, page, gate, writer, typedIn>>

CommitRoom(f) ==
    /\ At(f, {"create"}, "create") /\ up.ready
    /\ made' = made \cup {flow[f].room}
    /\ current' = flow[f].room
    /\ Continues(f, [flow[f] EXCEPT !.pc = "current"], flow)
    /\ UNCHANGED <<stored, lines, up, page, gate, writer, typedIn>>

\* The new room is shown if it is still the current one.
ShowCreated(f) ==
    /\ At(f, {"create"}, "current") /\ up.ready
    /\ IF current = flow[f].room
       THEN RenderRoom(flow[f].room, <<>>, 0) /\ Done(f, NewView)
       ELSE UNCHANGED page /\ Done(f, flow)
    /\ UNCHANGED <<database, up, gate, writer, typedIn>>

-----------------------------------------------------------------------------
(* A line is sent in a demonstration room: the submit handler.             *)

\* Send stays enabled while a line is on its way; the field is disabled until
\* the next rendering.
Submit(f) ==
    /\ flow[f] = Idle /\ page.view = "room" /\ page.sends
    /\ Len(lines[page.room]) < MaxLines
    /\ page' = [page EXCEPT !.locked = TRUE]
    /\ Awaits(f, [Idle EXCEPT !.kind = "submit", !.pc = "status", !.room = page.room, !.same = TRUE], flow)
    /\ UNCHANGED <<database, up, gate, writer, typedIn>>

\* finally: the gate is refreshed once more if the view is still the same.
Ends(f) ==
    IF flow[f].same
    THEN Continues(f, [Idle EXCEPT !.kind = "submit", !.pc = "status", !.same = TRUE], flow)
    ELSE Done(f, flow)

\* The gate is refreshed, and the field of the active room is persisted.
StatusForLine(f) ==
    /\ At(f, {"submit"}, "status") /\ flow[f].room # None
    /\ Refreshed
    /\ IF up.ready
       THEN Continues(f, [flow[f] EXCEPT !.pc = "save", !.at = page.room, !.text = page.input], flow)
       ELSE Ends(f)
    /\ UNCHANGED <<database, up, writer, typedIn>>

\* The line is what the field holds once the draft is persisted.
PersistLine(f) ==
    /\ At(f, {"submit"}, "save")
    /\ IF up.ready THEN SaveDraft(flow[f].at, flow[f].text) ELSE UNCHANGED stored
    /\ writer' = [writer EXCEPT !.failed = ~up.ready]
    /\ IF up.ready /\ page.input # 0
       THEN Continues(f, [flow[f] EXCEPT !.pc = "events", !.at = None, !.text = page.input], flow)
       ELSE Ends(f)
    /\ UNCHANGED <<made, current, lines, up, page, gate, typedIn>>

\* completeReviewDemoTurn: the room is read, then the director's context.
ReadTurns(f) ==
    /\ At(f, {"submit"}, "events") /\ up.ready
    /\ Continues(f, [flow[f] EXCEPT !.pc = "context"], flow)
    /\ UNCHANGED <<database, up, page, gate, writer, typedIn>>

ReadContext(f) ==
    /\ At(f, {"submit"}, "context") /\ up.ready
    /\ Continues(f, [flow[f] EXCEPT !.pc = "commit", !.events = lines[flow[f].room]], flow)
    /\ UNCHANGED <<database, up, page, gate, writer, typedIn>>

\* The whole turn in one batch, in the current room only and behind the turns
\* that were read; the draft goes with it.
Authority(r, events) == up.ready /\ current = r /\ lines[r] = events

CommitTurn(f) ==
    LET r == flow[f].room IN
    /\ At(f, {"submit"}, "commit") /\ Authority(r, flow[f].events)
    /\ lines' = [lines EXCEPT ![r] = Append(@, flow[f].text)]
    /\ SaveDraft(r, 0)
    /\ Continues(f, [flow[f] EXCEPT !.pc = "committed"], flow)
    /\ UNCHANGED <<made, current, up, page, gate, writer, typedIn>>

\* The turn is shown, and the field emptied, if the view is still the same.
ShowTurn(f) ==
    /\ At(f, {"submit"}, "committed") /\ up.ready
    /\ page' = IF flow[f].same THEN [page EXCEPT !.events = lines[flow[f].room], !.input = 0] ELSE page
    /\ Ends(f)
    /\ UNCHANGED <<database, up, gate, writer, typedIn>>

\* "Not sent."
FailLine(f) ==
    /\ f \in Flows /\ Served(f) /\ flow[f].kind = "submit"
    /\ \/ flow[f].pc \in {"events", "context", "committed"} /\ ~up.ready
       \/ flow[f].pc = "commit" /\ ~Authority(flow[f].room, flow[f].events)
    /\ Ends(f)
    /\ UNCHANGED <<database, up, page, gate, writer, typedIn>>

-----------------------------------------------------------------------------
(* The phone.                                                              *)

\* The application is resigned or the phone locked: the database is closed.
Lose ==
    /\ up.ready /\ up.downs < MaxDowns
    /\ up' = [ready |-> FALSE, downs |-> up.downs + 1]
    /\ UNCHANGED <<database, page, gate, writer, flow, queue, typedIn>>

Return ==
    /\ ~up.ready
    /\ up' = [up EXCEPT !.ready = TRUE]
    /\ UNCHANGED <<database, page, gate, writer, flow, queue, typedIn>>

\* The process is killed and started again: openLocalRoom and boot.
Relaunch ==
    /\ up.downs < MaxDowns
    /\ up' = [ready |-> TRUE, downs |-> up.downs + 1]
    /\ page' = Opened(current)
    /\ gate' = TRUE
    /\ writer' = [busy |-> FALSE, now |-> NoDraft, next |-> NoDraft, failed |-> FALSE, newest |-> FALSE]
    /\ flow' = [f \in Flows |-> Idle]
    /\ queue' = <<>>
    /\ UNCHANGED <<database, typedIn>>

Next ==
    \/ \E text \in Texts \cup {0} : Type(text)
    \/ RetryDraft \/ WriteDraft
    \/ "create" \in Kinds /\ Show("picker")
    \/ "open" \in Kinds /\ Show("rooms")
    \/ \E f \in Flows :
          \/ "blur" \in Kinds /\ Blur(f)
          \/ "cancel" \in Kinds /\ Cancel(f)
          \/ "reproject" \in Kinds /\ Reconcile(f)
          \/ "submit" \in Kinds /\ Submit(f)
          \/ \E r \in Rooms : "open" \in Kinds /\ OpenRoom(f, r)
          \/ \E r \in Rooms : "create" \in Kinds /\ Create(f, r)
          \/ Blurred(f) \/ Unreadable(f) \/ StatusForRoom(f)
          \/ SelectRoom(f) \/ FindRoom(f) \/ ReadEvents(f) \/ ReadDraft(f) \/ Reopen(f) \/ RefreshGate(f)
          \/ CommitRoom(f) \/ ShowCreated(f)
          \/ StatusForLine(f) \/ PersistLine(f) \/ ReadTurns(f) \/ ReadContext(f)
          \/ CommitTurn(f) \/ ShowTurn(f) \/ FailLine(f)
    \/ Lose \/ Return \/ Relaunch

Spec == Init /\ [][Next]_vars

-----------------------------------------------------------------------------
(* Properties.                                                             *)

TypeOK ==
    /\ made \subseteq Rooms /\ current \in made /\ page.room \in made
    /\ stored \in [Rooms -> Texts \cup {0}] /\ page.input \in Texts \cup {0}
    /\ \A r \in Rooms : lines[r] \in Seq(Texts)
    /\ \A f \in Flows : flow[f].kind = "idle" <=> f \notin Range(queue)
    /\ writer.busy <=> "writer" \in Range(queue)
    /\ Len(queue) = Cardinality(Range(queue))

(***************************************************************************)
(* A draft is kept and shown only in the room it was typed in, whatever    *)
(* room is opened while it is on its way: saveLocalDraft names the room    *)
(* noted with the text, and renderRoom replaces the field together with    *)
(* the room.                                                               *)
(***************************************************************************)
DraftsStayInTheirRoom ==
    /\ \A r \in Rooms : stored[r] # 0 => typedIn[stored[r]] = r
    /\ page.input # 0 => typedIn[page.input] = page.room

(***************************************************************************)
(* The transcript shown is one of the room that is shown: the handlers     *)
(* that return to a room the user has left show nothing (currentView).     *)
(***************************************************************************)
TranscriptIsOfTheRoom == IsPrefix(page.events, lines[page.room])

(***************************************************************************)
(* What the user has chosen is not undone by a handler that was already    *)
(* running: a reprojection shows neither another room nor another view,    *)
(* and a cancel that is overtaken shows nothing (reprojectVisibleRoom,     *)
(* reopenAuthoritativeRoom).                                               *)
(***************************************************************************)
NavigationHolds ==
    up' = up =>
        /\ page'.room # page.room =>
              \E f \in Flows : Served(f) /\ flow[f].kind \in {"open", "create"}
        /\ page'.view = "room" /\ page.view # "room" =>
              \E f \in Flows :
                  Served(f) /\ flow[f].kind # "reproject" /\ (flow[f].kind = "cancel" => flow[f].same)

(***************************************************************************)
(* A line is posted in the room it was typed in, unless its sender lost    *)
(* the view it was sent from: the line is what the field holds when the    *)
(* draft has been persisted, and nothing changes the room of that field    *)
(* without taking the view (the submit handler, renderRoom).               *)
(***************************************************************************)
LinesStayInTheirRoom ==
    \A r \in Rooms :
        lines'[r] # lines[r] => typedIn[Last(lines'[r])] = r \/ ~flow[Head(queue)].same
=============================================================================
