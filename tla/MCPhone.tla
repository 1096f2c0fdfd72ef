------------------------------ MODULE MCPhone ------------------------------
(***************************************************************************)
(* Small instances of the iPhone's turns and rooms.  A behaviour is one of *)
(* a single instance, the one focus names.  Since no two of them ever run  *)
(* together they share one pool of variables, which each takes in the      *)
(* order in which its module declares them.                                *)
(***************************************************************************)
EXTENDS Naturals, Sequences, TLC

CONSTANTS x1, x2,   \* page handlers
          None

VARIABLES focus, v1, v2, v3, v4, v5, v6, v7, v8, v9, v10, v11

vars == <<focus, v1, v2, v3, v4, v5, v6, v7, v8, v9, v10, v11>>

-----------------------------------------------------------------------------
(* The instances.  The sets they share have names, so that TLC has each of *)
(* them once and not anew in every state.                                  *)
One      == {x1}
Two      == {x1, x2}
Alone    == {1}
Pair     == {1, 2}
OneRoom  == {"first"}
TwoRooms == {"first", "other"}
Moving   == {"open", "cancel", "reproject", "submit"}
Creating == {"open", "create", "submit"}
Drafting == {"blur", "open"}
Losing   == {"reproject", "submit"}

\* One command, and two page handlers that work on it at the same time.
Taps == INSTANCE PhoneTurns WITH
    Commands <- Alone, Calls <- Pair, Flows <- Two, MaxDowns <- 1, MaxRev <- 1,
    Busy <- FALSE, Demo <- FALSE,
    row <- v1, log <- v2, rev <- v3, db <- v4, mode <- v5, life <- v6, call <- v7, entry <- v8,
    cancels <- v9, flow <- v10, page <- v11

\* Two commands, one handler, a full registry, a new key, the demonstration.
Turns == INSTANCE PhoneTurns WITH
    Commands <- Pair, Calls <- Pair, Flows <- One, MaxDowns <- 1, MaxRev <- 2,
    Busy <- TRUE, Demo <- TRUE,
    row <- v1, log <- v2, rev <- v3, db <- v4, mode <- v5, life <- v6, call <- v7, entry <- v8,
    cancels <- v9, flow <- v10, page <- v11

\* Two handlers that show a room, or one and a line that is sent.
Moves == INSTANCE PhoneRooms WITH
    Rooms <- TwoRooms, Saved <- TwoRooms, First <- "first", Flows <- Two, Kinds <- Moving,
    MaxTexts <- 1, MaxLines <- 1, MaxDowns <- 0,
    made <- v1, current <- v2, stored <- v3, lines <- v4, up <- v5, page <- v6, gate <- v7,
    writer <- v8, flow <- v9, queue <- v10, typedIn <- v11

\* The same while a room is created.
Creates == INSTANCE PhoneRooms WITH
    Rooms <- TwoRooms, Saved <- OneRoom, First <- "first", Flows <- Two, Kinds <- Creating,
    MaxTexts <- 1, MaxLines <- 1, MaxDowns <- 0,
    made <- v1, current <- v2, stored <- v3, lines <- v4, up <- v5, page <- v6, gate <- v7,
    writer <- v8, flow <- v9, queue <- v10, typedIn <- v11

\* Drafts of two rooms while the database is lost or the process killed.
Drafts == INSTANCE PhoneRooms WITH
    Rooms <- TwoRooms, Saved <- TwoRooms, First <- "first", Flows <- Two, Kinds <- Drafting,
    MaxTexts <- 1, MaxLines <- 1, MaxDowns <- 1,
    made <- v1, current <- v2, stored <- v3, lines <- v4, up <- v5, page <- v6, gate <- v7,
    writer <- v8, flow <- v9, queue <- v10, typedIn <- v11

\* Lines that are sent meanwhile.
Losses == INSTANCE PhoneRooms WITH
    Rooms <- OneRoom, Saved <- OneRoom, First <- "first", Flows <- Two, Kinds <- Losing,
    MaxTexts <- 1, MaxLines <- 1, MaxDowns <- 1,
    made <- v1, current <- v2, stored <- v3, lines <- v4, up <- v5, page <- v6, gate <- v7,
    writer <- v8, flow <- v9, queue <- v10, typedIn <- v11

ASSUME Assumptions ==
    /\ Taps!PhoneAssumption /\ Turns!PhoneAssumption
    /\ Moves!RoomsAssumption /\ Creates!RoomsAssumption /\ Drafts!RoomsAssumption /\ Losses!RoomsAssumption

-----------------------------------------------------------------------------
Init ==
    \/ focus = "taps" /\ Taps!Init
    \/ focus = "turns" /\ Turns!Init
    \/ focus = "moves" /\ Moves!Init
    \/ focus = "creates" /\ Creates!Init
    \/ focus = "drafts" /\ Drafts!Init
    \/ focus = "losses" /\ Losses!Init

TurnSteps ==
    /\ \/ focus = "taps" /\ Taps!Next
       \/ focus = "turns" /\ Turns!Next
    /\ UNCHANGED focus
RoomSteps ==
    /\ \/ focus = "moves" /\ Moves!Next
       \/ focus = "creates" /\ Creates!Next
       \/ focus = "drafts" /\ Drafts!Next
       \/ focus = "losses" /\ Losses!Next
    /\ UNCHANGED focus
\* A room whose commands are ended may stop.
Rests == UNCHANGED vars

Next == TurnSteps \/ RoomSteps \/ Rests

Spec == Init /\ [][Next]_vars

\* Which of these two it is makes no difference.
Interchangeable == Permutations({x1, x2})

-----------------------------------------------------------------------------
(* The properties: the promises of each component together.  The modules   *)
(* state and explain every conjunct on its own.                            *)

\* The turns of a room.  What was written answers the last attempt that was
\* sent, never one interrupted in the meantime; no attempt number is sent twice;
\* with a free slot a command is failed only if its last attempt was not sent;
\* and a command in flight has someone who will settle it.  The page around
\* them: what is typed stays in its room, as a draft and on the screen, and the
\* transcript shown is that of the room shown.
TurnsSound ==
    /\ focus = "taps" =>
          /\ Taps!AnswersLastAttempt /\ Taps!EpochSentOnce
          /\ Taps!FailedNeverLeft /\ Taps!InFlightOwned
    /\ focus = "turns" => Turns!TypeOK /\ Turns!AnswersLastAttempt /\ Turns!EpochSentOnce
    /\ focus = "moves" =>
          Moves!TypeOK /\ Moves!DraftsStayInTheirRoom /\ Moves!TranscriptIsOfTheRoom
    /\ focus = "creates" =>
          Creates!TypeOK /\ Creates!DraftsStayInTheirRoom /\ Creates!TranscriptIsOfTheRoom
    /\ focus = "drafts" =>
          Drafts!TypeOK /\ Drafts!DraftsStayInTheirRoom /\ Drafts!TranscriptIsOfTheRoom
    /\ focus = "losses" => Losses!TypeOK /\ Losses!TranscriptIsOfTheRoom

Contract == INSTANCE TurnContract WITH
    Commands <- Pair, transcript <- Turns!Transcript, open <- Turns!OpenCommand,
    asked <- Turns!Asked, ended <- Turns!Ended

\* A room of the iPhone implements TurnContract: one turn at a time, ended in
\* one whole turn that answers the last question asked, or in nothing.  This is
\* Contract!ContractSpec, asked of the behaviours of Turns; a step that changes
\* none of the contract's variables, as most do, is not compared with its actions.
KeepsContract ==
    /\ focus = "turns" => Contract!ContractInit
    /\ [][focus = "turns" /\ Contract!contract_vars' # Contract!contract_vars
             => Contract!ContractNext]_vars

\* What no step of the application does: send or change a command that has
\* ended, even by a call admitted before (generate); show a room or a view the
\* user has left (reprojectVisibleRoom); post a line, sent from the view shown,
\* in another room than it was typed in (completeReviewDemoTurn).
StepsSound ==
    [][/\ focus = "taps" => Taps!KeepsEnded
       /\ focus = "turns" => Turns!KeepsEnded
       /\ focus = "moves" => Moves!NavigationHolds /\ Moves!LinesStayInTheirRoom
       /\ focus = "creates" => Creates!NavigationHolds /\ Creates!LinesStayInTheirRoom]_vars
=============================================================================
