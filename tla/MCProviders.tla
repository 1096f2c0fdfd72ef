----------------------------- MODULE MCProviders ----------------------------
(***************************************************************************)
(* Small instances of what stands between a room and its provider: on the  *)
(* desktop the bindings and the transport to a cloud provider, on the      *)
(* iPhone the key and the lists of models.  A behaviour is one of a single *)
(* instance, the one focus names.  Since no two of them ever run together  *)
(* they share one pool of variables: each takes as many as it has, in the  *)
(* order in which its module declares them, and the rest of the pool is    *)
(* None throughout.                                                        *)
(***************************************************************************)
EXTENDS Naturals, Sequences, TLC

CONSTANTS x1, x2, x3,    \* calls of the transport, lists, names of models
          room, cloud, profile, None

VARIABLES focus, v1, v2, v3, v4, v5, v6, v7, v8, v9, v10, v11, v12, v13, v14, v15, v16, v17

\* What an instance with that many variables leaves of the pool.
After10 == <<v11, v12, v13, v14, v15, v16, v17>>
After8  == <<v9, v10, After10>>
After3  == <<v4, v5, v6, v7, v8, After8>>
vars    == <<focus, v1, v2, v3, After3>>

-----------------------------------------------------------------------------
(* The instances.  The sets they share have names, so that TLC has each of *)
(* them once and not anew in every state.                                  *)
Nobody  == {}
OneRoom == {room}
One     == {x1}
Two     == {x1, x2}
Three   == {x1, x2, x3}
Cloud   == {cloud}
Profile == {profile}
Alone   == {1}
Pair    == {1, 2}
NoError == {"none"}
Models  == {"models"}
Whole   == {"http"}

\* One request at a time on one cloud connection and LM Studio.
Chain == INSTANCE ProviderBindings WITH
    Rooms <- OneRoom, Clouds <- Cloud, Profiles <- Profile, Names <- Two,
    Clients <- Alone, OwnIds <- TRUE, MaxRevision <- 2,
    conn <- v1, model <- v2, seen <- v3, binding <- v4, pinned <- v5, asked <- v6,
    snapshot <- v7, told <- v8, request <- v9, lmStudio <- v10

\* Two clients that bind one room to LM Studio.
Races == INSTANCE ProviderBindings WITH
    Rooms <- OneRoom, Clouds <- Nobody, Profiles <- Nobody, Names <- Two,
    Clients <- Pair, OwnIds <- TRUE, MaxRevision <- 3,
    conn <- v1, model <- v2, seen <- v3, binding <- v4, pinned <- v5, asked <- v6,
    snapshot <- v7, told <- v8, request <- v9, lmStudio <- v10

Address(family, number, declared, global) ==
    [family |-> family, number |-> number, declared |-> declared, global |-> global]

Plain == Address(4, 1, 4, TRUE)

\* One public answer, two in either order, a private one among public ones
\* and one listed under the wrong family.
SomeAnswers ==
    {<<Plain>>,
     <<Address(6, 1, 6, TRUE), Plain>>,
     <<Plain, Address(6, 1, 6, TRUE)>>,
     <<Plain, Address(4, 2, 4, FALSE)>>,
     <<Address(6, 1, 4, TRUE)>>}

PlainOnly == {<<Plain>>}
Good      == {"good"}
AllKinds  == {"redirect", "encoded", "oversized", "headers", "status", "media_type", "json",
              "other_model", "no_text", "good"}

\* Three callers for one slot and one place in the queue.
Sockets == INSTANCE SecureTransport WITH
    Calls <- Three, Limit <- 1, MaxQueued <- 1, MaxChunks <- 0,
    Answers <- PlainOnly, Kinds <- Good,
    active <- v1, queue <- v2, call <- v3

\* One caller and everything it can be answered.
Replies == INSTANCE SecureTransport WITH
    Calls <- One, Limit <- 1, MaxQueued <- 0, MaxChunks <- 1, Answers <- SomeAnswers,
    Kinds <- AllKinds,
    active <- v1, queue <- v2, call <- v3

\* The iPhone's key: two failing effects and two stops among up to three saves.
Keys == INSTANCE PhoneCredentials WITH
    MaxRevision <- 2, MaxMutations <- 3, MaxFaults <- 2, MaxStops <- 2,
    rows <- v1, item <- v2, selected <- v3, room <- v4, process <- v5, booted <- v6,
    reconciled <- v7, holder <- v8, work <- v9, sheet <- v10, save <- v11, removal <- v12,
    target <- v13, said <- v14, minted <- v15, faults <- v16, stops <- v17

\* The iPhone's lists of models: three for one slot and one place in the queue.
ListSlots == INSTANCE ProviderTasks WITH
    Ops <- Three, MaxActive <- 1, MaxQueued <- 1, MaxBody <- 0, Errors <- NoError,
    Kinds <- Nobody, Results <- Models, MaxKeys <- 1, MaxDowns <- 0,
    entry <- v1, queue <- v2, up <- v3, downs <- v4, key <- v5, op <- v6, net <- v7, cancels <- v8

\* One that waits while the key is replaced and removed.
ListWaits == INSTANCE ProviderTasks WITH
    Ops <- Two, MaxActive <- 1, MaxQueued <- 1, MaxBody <- 0, Errors <- NoError,
    Kinds <- Whole, Results <- Models, MaxKeys <- 2, MaxDowns <- 1,
    entry <- v1, queue <- v2, up <- v3, downs <- v4, key <- v5, op <- v6, net <- v7, cancels <- v8

AllErrors  == {"none", "offline", "timeout", "provider_unreachable"}
AllReplies == {"http", "big", "other", "redirect"}
AllResults == {"models", "provider_rejected", "invalid_response", "response_too_large"}

\* One and everything it can be answered.
ListAnswers == INSTANCE ProviderTasks WITH
    Ops <- One, MaxActive <- 1, MaxQueued <- 0, MaxBody <- 1, Errors <- AllErrors,
    Kinds <- AllReplies, Results <- AllResults, MaxKeys <- 2, MaxDowns <- 2,
    entry <- v1, queue <- v2, up <- v3, downs <- v4, key <- v5, op <- v6, net <- v7, cancels <- v8

ASSUME Assumptions ==
    /\ Chain!ProviderBindingsConstants /\ Races!ProviderBindingsConstants
    /\ Sockets!SlotsAssumption /\ Replies!SlotsAssumption
    /\ Sockets!KindsAssumption /\ Replies!KindsAssumption
    /\ Keys!BoundsAssumption
    /\ ListSlots!TasksAssumption /\ ListWaits!TasksAssumption /\ ListAnswers!TasksAssumption

-----------------------------------------------------------------------------
Off10 ==
    /\ v11 = None /\ v12 = None /\ v13 = None
    /\ v14 = None /\ v15 = None /\ v16 = None /\ v17 = None
Off8  == v9 = None /\ v10 = None /\ Off10
Off3  == v4 = None /\ v5 = None /\ v6 = None /\ v7 = None /\ v8 = None /\ Off8

Init ==
    \/ focus = "chain" /\ Chain!Init /\ Off10
    \/ focus = "races" /\ Races!Init /\ Off10
    \/ focus = "sockets" /\ Sockets!Init /\ Off3
    \/ focus = "replies" /\ Replies!Init /\ Off3
    \/ focus = "keys" /\ Keys!Init
    \/ focus = "list slots" /\ ListSlots!Init /\ Off8
    \/ focus = "list waits" /\ ListWaits!Init /\ Off8
    \/ focus = "list answers" /\ ListAnswers!Init /\ Off8

Bindings ==
    /\ \/ focus = "chain" /\ Chain!Next
       \/ focus = "races" /\ Races!Next
    /\ UNCHANGED <<focus, After10>>
Transport ==
    /\ \/ focus = "sockets" /\ Sockets!Next
       \/ focus = "replies" /\ Replies!Next
    /\ UNCHANGED <<focus, After3>>
Credentials == focus = "keys" /\ Keys!Next /\ UNCHANGED focus
Lists ==
    /\ \/ focus = "list slots" /\ ListSlots!Next
       \/ focus = "list waits" /\ ListWaits!Next
       \/ focus = "list answers" /\ ListAnswers!Next
    /\ UNCHANGED <<focus, After8>>

\* All but the key may stop: every revision used up, every call answered.
Rests == focus # "keys" /\ UNCHANGED vars

Next == Bindings \/ Transport \/ Credentials \/ Lists \/ Rests

Spec == Init /\ [][Next]_vars

\* Which of these it is makes no difference: one of two that an instance has, or
\* of three.
Interchangeable == Permutations({x1, x2, x3})

-----------------------------------------------------------------------------
(* The properties: the promises of each component together.  The modules   *)
(* state and explain every conjunct on its own.                            *)

\* Provider bindings: a reply is attributed to the provider in force when it is
\* committed and to the model that was called, whatever was replaced, tested or
\* bound and whether the server was restarted since the decision was pinned; a
\* room bound to LM Studio resolves through restarts, changed names and lost
\* races, and is answered exactly while the model it is bound with is the one
\* configured; and of two clients that bind while LM Studio is probed each has
\* the revision it was told, and no two the same.
BindingsSound ==
    /\ focus = "chain" => Chain!TypeOK /\ Chain!CommitsInForce /\ Chain!LocalRoomSpeaks
    /\ focus = "races" => Races!TypeOK /\ Races!AnswersHold /\ Races!LocalRoomSpeaks

\* secure-http-transport.ts: sockets that are not yet closed never exceed the
\* limit, those of callers long gone included; the count is that of the holders
\* and nobody waits beside a free slot; and the key goes to one address, the
\* same for every order of the DNS answers, only if every answer is public.
TransportSound ==
    /\ focus = "sockets" => Sockets!TransportSound
    /\ focus = "replies" => Replies!TransportSound

\* SQLite and Keychain: a reconciled "ready" revision has its key, wherever the
\* last save or removal was cut off; of a removal recorded as finished no item
\* is left; and there is at most one key of the profile.
KeysSound ==
    focus = "keys" =>
        Keys!TypeOK /\ Keys!ReadyHasKey /\ Keys!RemovedIsGone /\ Keys!OneKeyOnly

\* ProviderTaskRegistry and its session delegate: no slot is free while a list
\* waits for one, a request on the network belongs to someone, and models come
\* from a whole body of the address asked.
ListsSound ==
    /\ focus = "list slots" => ListSlots!NoIdleSlot /\ ListSlots!NoOrphan
    /\ focus = "list waits" =>
          /\ ListWaits!TypeOK /\ ListWaits!ModelsAreWhole
          /\ ListWaits!NoIdleSlot /\ ListWaits!NoOrphan
    /\ focus = "list answers" => ListAnswers!TypeOK /\ ListAnswers!ModelsAreWhole

\* What no step does.  On the desktop: use a connection that was replaced, disabled
\* or deleted before somebody has tested or bound it again
\* (resolveRoomProviderDecision); select LM Studio for a room that is then refused
\* an answer (the local route and the resolver of routes.ts); answer a caller that
\* gave up or whose deadline has passed with a result, not even a complete one
\* (withTotalDeadline).  On the iPhone: bring a removed key back into use
\* (completeSave); send a list with another credential than it was made for
\* (beginNetwork); show models after the deadline, or to an application that was
\* unavailable since the call (claimCompletion).
StepsSound ==
    [][/\ focus = "chain" => Chain!Renewal /\ Chain!Selecting
       /\ focus = "races" => Races!Selecting
       /\ focus = "sockets" => Sockets!ResultInTime
       /\ focus = "replies" => Replies!ResultInTime
       /\ focus = "keys" => Keys!KeepsTombstones
       /\ focus = "list waits" => ListWaits!SendsItsKey /\ ListWaits!ShowsInTime
       /\ focus = "list answers" => ListAnswers!SendsItsKey /\ ListAnswers!ShowsInTime]_vars
=============================================================================
