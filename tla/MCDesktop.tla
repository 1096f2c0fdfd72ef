----------------------------- MODULE MCDesktop -----------------------------
(***************************************************************************)
(* Small instances of the room library, of the page's operations on rooms  *)
(* and its model setup, and of the core director, whose choice is compared *)
(* with the desktop's.  A behaviour is one of a single instance, the one   *)
(* focus names.  Since no two of them ever run together they share one     *)
(* pool of variables: each takes as many as it has, in the order in which  *)
(* its module declares them, and the rest of the pool is None throughout.  *)
(***************************************************************************)
EXTENDS Naturals, Sequences, TLC

CONSTANTS x1, x2, x3,  \* rooms, models, identities
          first,       \* the room a library begins with
          cloud, profile, None

VARIABLES focus, v1, v2, v3, v4, v5, v6, v7, v8, v9, v10, v11, v12

\* What an instance with that many variables leaves of the pool.
After6  == <<v7, v8, v9, v10, v11, v12>>
After11 == <<v12>>
vars    == <<focus, v1, v2, v3, v4, v5, v6, After6>>

-----------------------------------------------------------------------------
(* The instances.  The sets they share have names, so that TLC has each of *)
(* them once and not anew in every state.                                  *)
Nobody       == {}
OneRoom      == {first}
ThreeRooms   == {first, x1, x2}
FourRooms    == {first, x1, x2, x3}
RoomAndOther == {first, profile}
One          == {x1}
Two          == {x1, x2}
Three        == {x1, x2, x3}
Cloud        == {cloud}
TwoClouds    == {cloud, profile}
Pair         == {1, 2}
Starts       == {"mutate", "cast"}
Moves        == {"select", "mutate"}
Binding      == {"models", "test", "bind"}
Storing      == {"save", "replace", "disable", "delete"}
SettingUp    == Storing \cup {"models", "local"}

\* A library that becomes full, and commands that are repeated and reuse ids.
Ledger == INSTANCE RoomLibrary WITH
    Rooms <- FourRooms, First <- first, Ids <- Pair, Limit <- 3, MaxRevision <- 3,
    library <- v1, selected <- v2, revision <- v3, ledger <- v4, watched <- v5, told <- v6

\* Starting rooms, and mutating them.
Casts == INSTANCE RoomPage WITH
    Rooms <- ThreeRooms, First <- first, Ops <- Starts, MaxRevision <- 3,
    MaxLosses <- 2, MaxStarts <- 2, MaxHides <- 1,
    hist <- v1, library <- v2, op <- v3, room <- v4, rev <- v5, channel <- v6, open <- v7,
    life <- v8, script <- v9, unknown <- v10, left <- v11

\* Switching rooms, and mutating them.
Switches == INSTANCE RoomPage WITH
    Rooms <- ThreeRooms, First <- first, Ops <- Moves, MaxRevision <- 3,
    MaxLosses <- 1, MaxStarts <- 3, MaxHides <- 1,
    hist <- v1, library <- v2, op <- v3, room <- v4, rev <- v5, channel <- v6, open <- v7,
    life <- v8, script <- v9, unknown <- v10, left <- v11

\* A model is tested and bound, while the dialog is opened again.
Tests == INSTANCE ProviderPanel WITH
    Rooms <- OneRoom, Ids <- Cloud, Models <- One, Connected <- Cloud, Bound <- Nobody,
    Actions <- Binding, MaxRevision <- 2, MaxActions <- 4, Loads <- 1,
    MaxOpens <- 2, MaxOthers <- 1, MaxLosses <- 0,
    conn <- v1, key <- v2, mutation <- v3, profile <- v4, bound <- v5, ui <- v6, mine <- v7,
    known <- v8, act <- v9, load <- v10, history <- v11, left <- v12

\* A model is bound while the room is switched.
Binds == INSTANCE ProviderPanel WITH
    Rooms <- RoomAndOther, Ids <- Cloud, Models <- One, Connected <- Cloud, Bound <- Nobody,
    Actions <- Binding, MaxRevision <- 2, MaxActions <- 3, Loads <- 1,
    MaxOpens <- 1, MaxOthers <- 1, MaxLosses <- 0,
    conn <- v1, key <- v2, mutation <- v3, profile <- v4, bound <- v5, ui <- v6, mine <- v7,
    known <- v8, act <- v9, load <- v10, history <- v11, left <- v12

\* A key is replaced, its answer lost, and the dialog opened again.
Secrets == INSTANCE ProviderPanel WITH
    Rooms <- OneRoom, Ids <- Cloud, Models <- One, Connected <- Cloud, Bound <- OneRoom,
    Actions <- Storing, MaxRevision <- 2, MaxActions <- 2,
    Loads <- 1, MaxOpens <- 2, MaxOthers <- 0, MaxLosses <- 1,
    conn <- v1, key <- v2, mutation <- v3, profile <- v4, bound <- v5, ui <- v6, mine <- v7,
    known <- v8, act <- v9, load <- v10, history <- v11, left <- v12

\* Two connections that are not yet set up, and LM Studio.
Setup == INSTANCE ProviderPanel WITH
    Rooms <- OneRoom, Ids <- TwoClouds, Models <- One, Connected <- Nobody, Bound <- Nobody,
    Actions <- SettingUp, MaxRevision <- 2,
    MaxActions <- 2, Loads <- 1, MaxOpens <- 1, MaxOthers <- 0, MaxLosses <- 1,
    conn <- v1, key <- v2, mutation <- v3, profile <- v4, bound <- v5, ui <- v6, mine <- v7,
    known <- v8, act <- v9, load <- v10, history <- v11, left <- v12

\* Three personas, and a window of two of three identities.
Core == INSTANCE Director WITH
    N <- 3, Identities <- Three, MaxTracked <- 2, MaxAccepted <- 4,
    muted <- v1, lastSelectedAt <- v2, seenOrder <- v3, seen <- v4, autonomousTurns <- v5,
    accepted <- v6, fallbackIndex <- v7, cancelled <- v8, decision <- v9, age <- v10,
    recent <- v11

ASSUME Assumptions ==
    /\ Ledger!RoomLibraryConstants
    /\ Casts!RoomPageConstants /\ Switches!RoomPageConstants /\ Casts!RoomAuthorityConstants
    /\ Tests!ProviderPanelConstants /\ Binds!ProviderPanelConstants
    /\ Secrets!ProviderPanelConstants /\ Setup!ProviderPanelConstants
    /\ Core!DirectorConstants

-----------------------------------------------------------------------------
Off11 == v12 = None
Off6  == v7 = None /\ v8 = None /\ v9 = None /\ v10 = None /\ v11 = None /\ Off11

Init ==
    \/ focus = "ledger" /\ Ledger!Init /\ Off6
    \/ focus = "casts" /\ Casts!Init /\ Off11
    \/ focus = "switches" /\ Switches!Init /\ Off11
    \/ focus = "tests" /\ Tests!Init
    \/ focus = "binds" /\ Binds!Init
    \/ focus = "secrets" /\ Secrets!Init
    \/ focus = "setup" /\ Setup!Init
    \/ focus = "core" /\ Core!Init /\ Off11

Library == focus = "ledger" /\ Ledger!Next /\ UNCHANGED <<focus, After6>>
Page ==
    /\ \/ focus = "casts" /\ Casts!Next
       \/ focus = "switches" /\ Switches!Next
    /\ UNCHANGED <<focus, After11>>
Panel ==
    /\ \/ focus = "tests" /\ Tests!Next
       \/ focus = "binds" /\ Binds!Next
       \/ focus = "secrets" /\ Secrets!Next
       \/ focus = "setup" /\ Setup!Next
    /\ UNCHANGED focus
Directing == focus = "core" /\ Core!Next /\ UNCHANGED <<focus, After11>>

\* These may stop; the library and the director never have to.
Rests == focus \notin {"ledger", "core"} /\ UNCHANGED vars

Next == Library \/ Page \/ Panel \/ Directing \/ Rests

Spec == Init /\ [][Next]_vars

\* Which of these it is makes no difference.  An instance with two of them is
\* indifferent to their exchange, and no two of its states differ otherwise
\* by a permutation of the three.
Interchangeable == Permutations({x1, x2, x3})

-----------------------------------------------------------------------------
(* The properties: the promises of each component together.  The modules   *)
(* state and explain every conjunct on its own.                            *)

\* cast.ts: a command sent again under its id never gets a second outcome, the
\* ledgers name one selection per revision, and the list of rooms is whole.
\* app.js: the page has at most one stream, that of its channel; the transcript
\* is of that channel's room; and when the requests of a start are over the page
\* renders the room selected at the revision it sends, with a channel started,
\* or says that it does not know.  In its model setup (providerAction), what it
\* binds was tested at the very connection revision, and a key it reported as
\* stored is the one stored at its revision.
PageSound ==
    /\ focus = "ledger" =>
          Ledger!TypeOK /\ Ledger!AnswersAreFinal /\ Ledger!LedgerTellsSelection /\ Ledger!ListIsWhole
    /\ focus = "casts" =>
          Casts!TypeOK /\ Casts!StreamsHeld /\ Casts!RestsOnAuthority /\ Casts!RestsStarted
    /\ focus = "switches" =>
          Switches!TypeOK /\ Switches!StreamsHeld /\ Switches!TranscriptOfOneRoom
    /\ focus = "tests" => Tests!TypeOK /\ Tests!BindsWhatWasTested
    /\ focus = "binds" => Binds!TypeOK /\ Binds!BindsWhatWasTested
    /\ focus = "secrets" => Secrets!TypeOK /\ Secrets!AcceptedKeyIsStored
    /\ focus = "setup" => Setup!TypeOK /\ Setup!AcceptedKeyIsStored

\* Every state of the director is one it can be restored from, in which its two
\* records of seen events agree and its cooldown silences nobody (#restore,
\* #recordSeen, #deterministicEligibleSpeaker).
DirectorSound == focus = "core" => Core!TypeOK /\ Core!DirectorSound

\* As long as nobody is muted, unmuted or addressed by name, no persona speaks
\* again before every unmuted persona has spoken (#fallbackIndex).
RoundRobin == focus = "core" => Core!RoundRobin

\* An identity is taken for a new one a second time only when MaxTracked others
\* were recorded since (the eviction of #recordSeen).
DuplicatesOnlyBeyondWindow ==
    [][focus = "core" => Core!NewBeyondWindow]_vars

\* The director and the desktop room service (RoomService.#decide) choose the
\* same speaker from the same history.
AgreesWithRoomService ==
    [][focus = "core" => Core!SameSpeaker]_vars

Promise == INSTANCE RoomAuthority WITH
    Rooms <- {first, x1, x2, x3}, First <- first, MaxRevision <- 3,
    hist <- IF focus = "ledger" THEN Ledger!Selections ELSE <<first>>

\* The room library implements RoomAuthority: one sequence of selections.
KeepsAuthority == Promise!Authority

\* What no step of the page does: take a page whose user starts rooms, but chooses
\* none from the list meanwhile, back to an earlier selection, or from listening to
\* the room it renders but where it takes a room it has started for one that was
\* not (startHistoricalRoom); send a key, or name a connection revision to be
\* bound, without the disclosure the user was shown for it
\* (hasCurrentProviderAcknowledgement).
StepsSound ==
    [][/\ focus = "casts" => Casts!NeverBack /\ Casts!StaysListening
       /\ focus = "tests" => Tests!BoundUnderDisclosure
       /\ focus = "binds" => Binds!BoundUnderDisclosure
       /\ focus = "secrets" => Secrets!StoredUnderDisclosure
       /\ focus = "setup" => Setup!StoredUnderDisclosure]_vars
=============================================================================
