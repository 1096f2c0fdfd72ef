----------------------------- MODULE MCLiveness -----------------------------
(***************************************************************************)
(* Small instances of the components that promise to come to an end.  A    *)
(* behaviour is one of a single instance, the one focus names, and only    *)
(* that one is fair; the others stay as they begin.                        *)
(***************************************************************************)
EXTENDS Naturals, Sequences

CONSTANTS a, b,        \* calls, rooms, requests, a launch, a page handler, list operations
          first,       \* the room a library begins with
          None

VARIABLES
    focus,
    active, queue, call,
    hist, library, op, room, rev, channel, open, life, script, unknown, left,
    pc, slots, waiting, tracked, aborted, disc, resp, dir, stuck, child, failed, killing, server,
    outer, sup, main, closer, held, opened, owner, proved, kid, helper, opener, browser,
    row, log, revision, db, mode, phone, calls, entry, cancels, flow, page,
    rows, item, selected, inference, process, booted, reconciled, holder, work, sheet, save, removal,
    target, said, minted, faults, stops,
    tasks, lists, up, downs, key, ops, net, callbacks

transport   == <<active, queue, call>>
desk        == <<hist, library, op, room, rev, channel, open, life, script, unknown, left>>
inspection  == <<pc, slots, waiting, tracked, aborted, disc, resp, dir, stuck, child, failed, killing, server>>
launcher    == <<outer, sup, main, closer, held, opened, owner, proved, kid, helper, opener, browser>>
turns       == <<row, log, revision, db, mode, phone, calls, entry, cancels, flow, page>>
credentials == <<rows, item, selected, inference, process, booted, reconciled, holder, work, sheet, save,
                 removal, target, said, minted, faults, stops>>
requests    == <<tasks, lists, up, downs, key, ops, net, callbacks>>
vars == <<focus, transport, desk, inspection, launcher, turns, credentials, requests>>

-----------------------------------------------------------------------------
(* The instances.                                                          *)

\* Two calls for one slot, and a silent network.
Transport == INSTANCE SecureTransport WITH
    Calls <- {a, b}, Limit <- 1, MaxQueued <- 1, MaxChunks <- 0,
    Answers <- {<<[family |-> 4, number |-> 1, declared |-> 4, global |-> TRUE]>>}, Kinds <- {"good"}

\* Selecting, starting and mutating rooms together, with a lost request.
Page == INSTANCE RoomPage WITH
    Rooms <- {first, a, b}, First <- first, Ops <- {"select", "mutate", "cast"}, MaxRevision <- 2,
    MaxLosses <- 1, MaxStarts <- 3, MaxHides <- 0

\* Two requests for one place.
Inspection == INSTANCE PackInspection WITH
    Requests <- {a, b}, ActiveLimit <- 1, QueueLimit <- 1, Concurrency <- 1, Children <- 1,
    Descendants <- FALSE, active <- slots, queue <- waiting

\* A launch whose processes may die, and one whose server never closes.
Stops == INSTANCE Launcher WITH
    Launches <- {a}, NoOne <- None, Faults <- {"outer", "server", "signal"},
    Detached <- FALSE, Stuck <- {}, open <- opened
Hangs == INSTANCE Launcher WITH
    Launches <- {a}, NoOne <- None, Faults <- {"outer", "server"},
    Detached <- TRUE, Stuck <- {a}, open <- opened

\* One command and two attempts at it.
Turns == INSTANCE PhoneTurns WITH
    Commands <- {1}, Calls <- {1, 2}, Flows <- {a}, MaxDowns <- 1, MaxRev <- 1, Busy <- FALSE,
    Demo <- FALSE, rev <- revision, life <- phone, call <- calls

\* One save and its removal, with one failing effect and two stops.
Keys == INSTANCE PhoneCredentials WITH
    MaxRevision <- 1, MaxMutations <- 1, MaxFaults <- 1, MaxStops <- 2, room <- inference

\* Two lists for one slot, offline or silent.
Lists == INSTANCE ProviderTasks WITH
    Ops <- {a, b}, MaxActive <- 1, MaxQueued <- 1, MaxBody <- 0, Errors <- {"offline"},
    Kinds <- {}, Results <- {"models"}, MaxKeys <- 1, MaxDowns <- 1,
    entry <- tasks, queue <- lists, op <- ops, cancels <- callbacks

ASSUME Assumptions ==
    /\ Transport!SlotsAssumption /\ Transport!KindsAssumption
    /\ Page!RoomPageConstants /\ Page!RoomAuthorityConstants
    /\ Inspection!PackInspectionConstants
    /\ Stops!LauncherConstants /\ Hangs!LauncherConstants
    /\ Turns!PhoneAssumption /\ Keys!BoundsAssumption /\ Lists!TasksAssumption

-----------------------------------------------------------------------------
Init ==
    /\ focus \in {"transport", "page", "inspection", "stops", "hangs", "turns", "keys", "lists"}
    /\ Transport!Init
    /\ Page!Init /\ (focus = "page" \/ library = {first})
    /\ Inspection!Init /\ Stops!Init /\ Turns!Init /\ Keys!Init /\ Lists!Init

TransportSteps ==
    /\ focus = "transport" /\ Transport!Next
    /\ UNCHANGED <<focus, desk, inspection, launcher, turns, credentials, requests>>
PageSteps ==
    /\ focus = "page" /\ Page!Next
    /\ UNCHANGED <<focus, transport, inspection, launcher, turns, credentials, requests>>
InspectionSteps ==
    /\ focus = "inspection" /\ Inspection!Next
    /\ UNCHANGED <<focus, transport, desk, launcher, turns, credentials, requests>>
LauncherSteps ==
    /\ \/ focus = "stops" /\ Stops!Next
       \/ focus = "hangs" /\ Hangs!Next
    /\ UNCHANGED <<focus, transport, desk, inspection, turns, credentials, requests>>
TurnSteps ==
    /\ focus = "turns" /\ Turns!Next
    /\ UNCHANGED <<focus, transport, desk, inspection, launcher, credentials, requests>>
KeySteps ==
    /\ focus = "keys" /\ Keys!Next
    /\ UNCHANGED <<focus, transport, desk, inspection, launcher, turns, requests>>
ListSteps ==
    /\ focus = "lists" /\ Lists!Next
    /\ UNCHANGED <<focus, transport, desk, inspection, launcher, turns, credentials>>
\* All but the inspection and the credentials may stop.
Rests == focus \notin {"inspection", "keys"} /\ UNCHANGED vars

Next ==
    \/ TransportSteps \/ PageSteps \/ InspectionSteps \/ LauncherSteps
    \/ TurnSteps \/ KeySteps \/ ListSteps \/ Rests

\* The fairness of each module, for the instance in focus.
TransportFair ==
    \A k \in {a, b} :
        /\ WF_transport(focus = "transport" /\ Transport!Enter(k))
        /\ WF_transport(focus = "transport" /\ Transport!Pass(k))
        /\ WF_transport(focus = "transport" /\ Transport!Deadline(k))
        /\ WF_transport(focus = "transport" /\ Transport!Tell(k))
        /\ WF_transport(focus = "transport" /\ call[k].socket = "closing" /\ Transport!SocketClose(k))
PageFair ==
    /\ \A o \in {"select", "mutate", "cast"} : WF_desk(focus = "page" /\ Page!Serve(o))
    /\ WF_desk(focus = "page" /\ Page!Selects)
    /\ WF_desk(focus = "page" /\ Page!Mutates)
    /\ WF_desk(focus = "page" /\ Page!Casts)
InspectionFair ==
    /\ \A r \in {a, b} :
         /\ WF_inspection(focus = "inspection" /\ Inspection!Step(r))
         /\ WF_inspection(focus = "inspection" /\ Inspection!Deadline(r))
    /\ WF_inspection(focus = "inspection" /\ Inspection!Closed)
LauncherFair ==
    /\ WF_launcher(/\ focus \in {"stops", "hangs"}
                   /\ \/ Stops!ReadArmed(a) \/ Stops!ReadReady(a) \/ Stops!Opened(a)
                      \/ Stops!LaunchFails(a) \/ Stops!Reap(a))
    /\ WF_launcher(focus = "stops" /\ Stops!SupervisorStep(a)) /\ WF_launcher(focus = "hangs" /\ Hangs!SupervisorStep(a))
    /\ WF_launcher(focus = "stops" /\ Stops!ServerStep(a)) /\ WF_launcher(focus = "hangs" /\ Hangs!ServerStep(a))
    /\ \A f \in Stops!Fibers : WF_launcher(focus = "stops" /\ Stops!CloseStep(a, f))
TurnsFair ==
    /\ WF_turns(/\ focus = "turns"
                /\ \/ Turns!Reread(a) \/ Turns!Generate(a) \/ Turns!Answered(a)
                   \/ Turns!Complete(a) \/ Turns!CompleteSilence(a) \/ Turns!ReadFailure(a)
                   \/ Turns!FixFailure(a) \/ Turns!ShowFailure(a) \/ Turns!WriteAbandon(a))
    /\ \A k \in {1, 2} :
         /\ WF_turns(/\ focus = "turns"
                     /\ \/ Turns!Install(k) \/ Turns!Begin(k) \/ Turns!BeginFails(k)
                        \/ Turns!BeginCanceled(k) \/ Turns!Claimed(k))
         /\ WF_turns(focus = "turns" /\ Turns!Expire(k))
    /\ WF_turns(focus = "turns" /\ \E e \in cancels : Turns!Cancellation(e))
    /\ WF_turns(focus = "turns" /\ Turns!Fence)
    /\ WF_turns(focus = "turns" /\ Turns!OpenDatabase)
    /\ WF_turns(focus = "turns" /\ Turns!Reproject)
KeysFair ==
    /\ WF_credentials(focus = "keys" /\ Keys!Launch)
    /\ WF_credentials(focus = "keys" /\ Keys!OpenDatabase)
    /\ WF_credentials(focus = "keys" /\ Keys!Reconciles("boot"))
    /\ WF_credentials(focus = "keys" /\ Keys!Effect)
    /\ WF_credentials(focus = "keys" /\ Keys!Finish)
ListsFair ==
    \A o \in {a, b} :
        /\ WF_requests(focus = "lists" /\ Lists!Install(o))
        /\ WF_requests(/\ focus = "lists"
                       /\ \/ Lists!Begin(o) \/ Lists!BeginFails(o)
                          \/ Lists!BeginExpires(o) \/ Lists!BeginRefused(o))
        /\ WF_requests(focus = "lists" /\ Lists!Deadline(o))
        /\ WF_requests(focus = "lists" /\ Lists!Expire(o))
        /\ WF_requests(focus = "lists" /\ (Lists!Claim(o) \/ Lists!ClaimLost(o)))
        /\ WF_requests(focus = "lists" /\ Lists!Called(o))

Spec ==
    /\ Init /\ [][Next]_vars
    /\ TransportFair /\ PageFair /\ InspectionFair /\ LauncherFair /\ TurnsFair /\ KeysFair /\ ListsFair

-----------------------------------------------------------------------------
(* The properties: the promises of each component together.  The modules   *)
(* state and explain every conjunct on its own.                            *)

\* The server of the desktop.  Every caller of the transport is answered, in the
\* queue, before a silent server or waiting for a socket that does not close, and
\* every slot comes back (withTotalDeadline, FairSemaphore); no operation leaves
\* the page's composer locked (the pending set of app.js); every inspection is
\* answered and gives back its slots, and a server that begins to close is closed.
DesktopSettles ==
    /\ Transport!EveryCallIsAnswered /\ Transport!SlotsReturn
    /\ Page!Unlocks
    /\ Inspection!RequestSettles /\ Inspection!CloseResolves

\* The macOS launcher: every launch opens the page or comes to its end; a
\* launcher reaps its supervisor before it exits, so that no server runs without
\* it; and once it is gone, in whichever way, a server that can close stops, and
\* one that never finishes closing is killed as long as its supervisor lives.  (A
\* supervisor spawned by a launcher that is killed at once dies of SIGPIPE where it
\* would name the server's process to it, and leaves the server to itself.)
LaunchesSettle ==
    /\ Stops!LaunchSettles /\ []Stops!RunsWithLauncher
    /\ focus = "stops" => Stops!QuitStopsServer
    /\ Hangs!QuitStopsServer

\* The iPhone: a command does not stay in flight while the application is active
\* and its room the current one; a removal cut off after its tombstone is
\* completed; every list call is answered, also one whose completion lost its
\* entry, and no request stays on the network (ProviderTaskRegistry).
PhoneSettles ==
    /\ Turns!Settles
    /\ Keys!RemovalCompletes
    /\ Lists!EveryCallIsAnswered /\ Lists!EveryRequestEnds
=============================================================================
