---------------------------- MODULE MCPackaging ----------------------------
(***************************************************************************)
(* Small instances of the persona pack inspection, the macOS launcher, the *)
(* data directory in backup, restore and purge, and the release steps.  A  *)
(* behaviour is one of a single instance, the one focus names.  Since no   *)
(* two of them ever run together they share one pool of variables: each    *)
(* takes as many as it has, in the order in which its module declares      *)
(* them, and the rest of the pool is None throughout.                      *)
(***************************************************************************)
EXTENDS Naturals, Sequences, TLC

CONSTANTS a, b, c,     \* requests, uploads, launches, others' inodes
          p1, p2, p3,  \* release steps that publish
          None

VARIABLES focus, v1, v2, v3, v4, v5, v6, v7, v8, v9, v10, v11, v12, v13, v14, v15, v16, v17

\* What an instance with that many variables leaves of the pool.
After5  == <<v6, v7, v8, v9, v10, v11, v12, v13, v14, v15, v16, v17>>
After6  == <<v7, v8, v9, v10, v11, v12, v13, v14, v15, v16, v17>>
After8  == <<v9, v10, v11, v12, v13, v14, v15, v16, v17>>
After9  == <<v10, v11, v12, v13, v14, v15, v16, v17>>
After10 == <<v11, v12, v13, v14, v15, v16, v17>>
After11 == <<v12, v13, v14, v15, v16, v17>>
After12 == <<v13, v14, v15, v16, v17>>
After13 == <<v14, v15, v16, v17>>
vars    == <<focus, v1, v2, v3, v4, v5, After5>>

-----------------------------------------------------------------------------
(* The instances.  The sets they share have names, so that TLC has each of *)
(* them once and not anew in every state.                                  *)
Nothing  == {}
Two      == {a, b}
Three    == {a, b, c}
Steps    == {p1, p2, p3}
Firsts   == {p1, p2}
First    == {p1}
Top      == {<<"top">>}
TwoPaths == {<<"top">>, <<"assets", "x">>}
AllPaths == {<<"top">>, <<"other">>, <<"assets">>, <<"assets", "x">>, <<"assets", "X">>,
             <<"Assets", "x">>, <<"assets", "x", "y">>, <<"assets", "X", "y">>}
Sizes    == {1, 3}
Kills    == {"outer", "supervisor", "server", "signal"}
Places   == {"home", "tmp"}
Stray    == {"stray"}
Key      == {"key"}
Janitor  == {"sweep", "removing"}
Making   == {"marker", "written", "unmarked"}
Others   == {"cwd", "parent", "sweep", "removing", "ready", "giving_up"}
Agent    == {"agent"}

Lower == [s \in {"top", "other", "assets", "Assets", "x", "X", "y"} |->
            CASE s = "X" -> "x" [] s = "Assets" -> "assets" [] OTHER -> s]

\* Three requests, two places in the service and one validator.
Slots == INSTANCE PackInspection WITH
    Requests <- Three, ActiveLimit <- 3, QueueLimit <- 1, Concurrency <- 2, Children <- 1,
    Descendants <- FALSE,
    pc <- v1, active <- v2, queue <- v3, tracked <- v4, aborted <- v5, disc <- v6, resp <- v7,
    dir <- v8, stuck <- v9, child <- v10, failed <- v11, killing <- v12, server <- v13

\* Two requests whose validators may leave processes behind.
Orphans == INSTANCE PackInspection WITH
    Requests <- Two, ActiveLimit <- 1, QueueLimit <- 1, Concurrency <- 1, Children <- 1,
    Descendants <- TRUE,
    pc <- v1, active <- v2, queue <- v3, tracked <- v4, aborted <- v5, disc <- v6, resp <- v7,
    dir <- v8, stuck <- v9, child <- v10, failed <- v11, killing <- v12, server <- v13

\* Starts and stops: with a failing janitor; with any step dying or failing but
\* those that make and remove the marker; and with these.
Closes == INSTANCE PackRuntime WITH
    Uploads <- Three, MaxEntries <- 2, MaxDeletions <- 2, DiesAt <- Nothing, FailsAt <- Janitor,
    pc <- v1, cwd <- v2, temp <- v3, made <- v4, young <- v5, old <- v6, junk <- v7,
    swept <- v8, refused <- v9
Crashes == INSTANCE PackRuntime WITH
    Uploads <- Three, MaxEntries <- 2, MaxDeletions <- 1, DiesAt <- Others, FailsAt <- Others,
    pc <- v1, cwd <- v2, temp <- v3, made <- v4, young <- v5, old <- v6, junk <- v7,
    swept <- v8, refused <- v9
Halves == INSTANCE PackRuntime WITH
    Uploads <- Three, MaxEntries <- 2, MaxDeletions <- 2, DiesAt <- Making, FailsAt <- Making,
    pc <- v1, cwd <- v2, temp <- v3, made <- v4, young <- v5, old <- v6, junk <- v7,
    swept <- v8, refused <- v9

\* Every layout of up to three members, and every pair of paths.
Layout == INSTANCE PackArchive WITH
    Paths <- TwoPaths, Fold <- Lower, TopLevel <- Top, Required <- Top, MaxMembers <- 3,
    MaxOffset <- 3,
    sound <- v1, members <- v2, central <- v3, assets <- v4, verdict <- v5
Names == INSTANCE PackArchive WITH
    Paths <- AllPaths, Fold <- Lower, TopLevel <- Top, Required <- Nothing, MaxMembers <- 2,
    MaxOffset <- 2,
    sound <- v1, members <- v2, central <- v3, assets <- v4, verdict <- v5

\* Reports cut by their number and by their size.
Counts == INSTANCE PackReport WITH
    Collected <- 3, MaxBytes <- 7, Sizes <- Sizes, MaxFound <- 4, MaxWarnings <- 1,
    stage <- v1, found <- v2, stopped <- v3, errors <- v4, warnings <- v5, omitted <- v6,
    truncated <- v7, valid <- v8, exit <- v9, honest <- v10, answer <- v11

\* Two launches on one data directory, any process of which may be killed.
Locks == INSTANCE Launcher WITH
    Launches <- Two, NoOne <- None, Faults <- Kills, Detached <- FALSE,
    Stuck <- Nothing,
    outer <- v1, sup <- v2, main <- v3, closer <- v4, held <- v5, open <- v6, owner <- v7,
    proved <- v8, kid <- v9, helper <- v10, opener <- v11, browser <- v12

\* One credential, one committed row, two versions of the application.
Roots == INSTANCE Lifecycle WITH Keys <- Key, MaxRows <- 1, MaxVer <- 2,
    tree <- v1, bin <- v2, sel <- v3, running <- v4, bk <- v5, backup <- v6, rs <- v7, pg <- v8,
    pgRefs <- v9, store <- v10

\* Three steps with an empty directory to themselves; two with meddlers.
Winner == INSTANCE Publication WITH
    Publishers <- Steps, Assemblers <- Firsts, Strays <- Nothing, MaxMeddles <- 0, MaxFaults <- 2,
    dir <- v1, shelf <- v2, made <- v3, removed <- v4, moved <- v5, pub <- v6, meddles <- v7,
    faults <- v8
Meddled == INSTANCE Publication WITH
    Publishers <- Firsts, Assemblers <- First, Strays <- Two, MaxMeddles <- 4, MaxFaults <- 1,
    dir <- v1, shelf <- v2, made <- v3, removed <- v4, moved <- v5, pub <- v6, meddles <- v7,
    faults <- v8

\* A release that is changed up to three times at rest.
Release == INSTANCE Bundle WITH
    MaxDisturbs <- 3,
    app <- v1, place <- v2, run <- v3, refused <- v4, disturbs <- v5, released <- v6

\* A clean build of the source beside an agent of the account's.
Clean == INSTANCE SourceEvidence WITH
    Paths <- Places, Home <- "home", Strays <- Stray, Agents <- Agent, First <- Nothing,
    Commands <- 1, MaxSnapshots <- 2, MaxWrites <- 1,
    at <- v1, snapshots <- v2, before <- v3, base <- v4, again <- v5, todo <- v6, child <- v7,
    srv <- v8, signalled <- v9, exit <- v10, evidence <- v11, live <- v12, born <- v13,
    disk <- v14, writes <- v15, data <- v16, port <- v17

ASSUME Assumptions ==
    /\ Slots!PackInspectionConstants /\ Orphans!PackInspectionConstants
    /\ Closes!PackRuntimeConstants /\ Crashes!PackRuntimeConstants
    /\ Halves!PackRuntimeConstants
    /\ Layout!PackArchiveConstants /\ Names!PackArchiveConstants
    /\ Counts!PackReportConstants /\ Locks!LauncherConstants
    /\ Roots!LifecycleConstants
    /\ Winner!PublicationAssumption /\ Meddled!PublicationAssumption
    /\ Release!BundleAssumption /\ Clean!SourceEvidenceConstants

-----------------------------------------------------------------------------
Off13 == v14 = None /\ v15 = None /\ v16 = None /\ v17 = None
Off12 == v13 = None /\ Off13
Off11 == v12 = None /\ Off12
Off10 == v11 = None /\ Off11
Off9  == v10 = None /\ Off10
Off8  == v9 = None /\ Off9
Off6  == v7 = None /\ v8 = None /\ Off8
Off5  == v6 = None /\ Off6

Init ==
    \/ focus = "slots" /\ Slots!Init /\ Off13
    \/ focus = "orphans" /\ Orphans!Init /\ Off13
    \/ focus = "closes" /\ Closes!Init /\ Off9
    \/ focus = "crashes" /\ Crashes!Init /\ Off9
    \/ focus = "halves" /\ Halves!Init /\ Off9
    \/ focus = "layout" /\ Layout!Init /\ Off5
    \/ focus = "names" /\ Names!Init /\ Off5
    \/ focus = "counts" /\ Counts!Init /\ Off11
    \/ focus = "locks" /\ Locks!Init /\ Off12
    \/ focus = "roots" /\ Roots!Init /\ Off10
    \/ focus = "winner" /\ Winner!Init /\ Off8
    \/ focus = "meddled" /\ Meddled!Init /\ Off8
    \/ focus = "release" /\ Release!Init /\ Off6
    \/ focus = "clean" /\ Clean!Init

Inspection ==
    /\ \/ focus = "slots" /\ Slots!Next
       \/ focus = "orphans" /\ Orphans!Next
    /\ UNCHANGED <<focus, After13>>
Runtime ==
    /\ \/ focus = "closes" /\ Closes!Next
       \/ focus = "crashes" /\ Crashes!Next
       \/ focus = "halves" /\ Halves!Next
    /\ UNCHANGED <<focus, After9>>
Archive ==
    /\ \/ focus = "layout" /\ Layout!Next
       \/ focus = "names" /\ Names!Next
    /\ UNCHANGED <<focus, After5>>
Report ==
    /\ focus = "counts" /\ Counts!Next
    /\ UNCHANGED <<focus, After11>>
Launching ==
    /\ focus = "locks" /\ Locks!Next
    /\ UNCHANGED <<focus, After12>>
Storing ==
    /\ focus = "roots" /\ Roots!Next
    /\ UNCHANGED <<focus, After10>>
Publishing ==
    /\ \/ focus = "winner" /\ Winner!Next
       \/ focus = "meddled" /\ Meddled!Next
    /\ UNCHANGED <<focus, After8>>
Releasing ==
    /\ focus = "release" /\ Release!Next
    /\ UNCHANGED <<focus, After6>>
Proving ==
    /\ focus = "clean" /\ Clean!Next
    /\ UNCHANGED focus
\* A launcher that was left, a bundle nobody touches and a run that was judged
\* may stop, and so may a server whose validator left a process behind that
\* holds its output open.
Rests == focus \in {"locks", "release", "orphans", "clean"} /\ UNCHANGED vars

Next ==
    Inspection \/ Runtime \/ Archive \/ Report \/ Launching \/ Storing \/ Publishing \/ Releasing
    \/ Proving \/ Rests

Spec == Init /\ [][Next]_vars

\* Which of these it is makes no difference.  An instance with two of them is
\* indifferent to their exchange, and no two of its states differ otherwise
\* by a permutation of the three.
Interchangeable == Permutations({a, b, c})

-----------------------------------------------------------------------------
(* The properties: the promises of each component together.  The modules   *)
(* state and explain every conjunct on its own.                            *)

\* The inspection of packs.  In the semaphores of route, service and sidecar the
\* slots counted are those held and nobody waits beside a free one; a directory
\* or a validator exists only while its request holds a slot; a closed server
\* has none of either.  The janitor leaves an upload aside only if it dies or
\* fails between moving and removing it, and otherwise a start comes to the
\* validator with every old upload removed or as many as it may.  A stopped
\* server leaves no directory but uploads, and these under a whole marker; a
\* start is refused for its marker only if one died or failed while it made or
\* removed it.
InspectionSound ==
    /\ focus = "slots" =>
          /\ Slots!TypeOK
          /\ Slots!SlotsMatchHolders /\ Slots!DiskBounded /\ Slots!CloseAfterRequests
    /\ focus = "orphans" =>
          /\ Orphans!TypeOK
          /\ Orphans!SlotsMatchHolders /\ Orphans!DiskBounded /\ Orphans!CloseAfterRequests
    /\ focus = "closes" =>
          /\ Closes!TypeOK
          /\ Closes!RootsGone /\ Closes!UploadsOwned /\ Closes!OldOnesSwept
          /\ Closes!MarkerSurvives /\ Closes!RefusedOnlyIfBarred
    /\ focus = "crashes" =>
          /\ Crashes!TypeOK
          /\ Crashes!UploadsOwned /\ Crashes!OldOnesSwept
          /\ Crashes!MarkerSurvives /\ Crashes!RefusedOnlyIfBarred
    /\ focus = "halves" =>
          /\ Halves!TypeOK
          /\ Halves!UploadsOwned /\ Halves!OldOnesSwept /\ Halves!AsideOnlyBetween
          /\ Halves!RefusedOnlyIfBarred

\* The validator's verdict.  In a valid pack every byte before the central
\* directory belongs to one member, the members unpack where case makes no
\* difference, and they are exactly those declared.  What a report leaves out is
\* counted exactly through both limits, a pack is shown as valid only if no
\* error was found, and a validator that did its work is believed.
PacksSound ==
    /\ focus = "layout" =>
          Layout!TypeOK /\ Layout!NoHiddenBytes /\ Layout!Unpacks /\ Layout!ExactlyDeclared
    /\ focus = "names" =>
          Names!TypeOK /\ Names!NoHiddenBytes /\ Names!Unpacks /\ Names!ExactlyDeclared
    /\ focus = "counts" =>
          Counts!TypeOK /\ Counts!CountsExact /\ Counts!VerdictTold /\ Counts!WorkIsAnswered

\* The macOS launcher and server.ts: two servers never have the database open
\* at once, whichever process is killed and whichever closing overtakes the
\* other; the page is opened only if the launch's own server proved itself; a
\* supervisor that ended by itself left nothing of its group.
LauncherSound ==
    focus = "locks" =>
        Locks!TypeOK /\ Locks!OneWriter /\ Locks!OpensProvenServer /\ Locks!NoOrphan

\* lifecycle.ts: while the server runs, the tree it opened is under its name,
\* whole and at its own schema; a purge will delete exactly the keys its tree
\* names; and a tree that is or may come back as the data directory has its
\* keys, whichever of server, backup, restore and purge died between two steps.
RootsSound ==
    focus = "roots" =>
        Roots!TypeOK /\ Roots!ServedTreeIntact /\ Roots!PurgeNamesAll /\ Roots!RefsHaveKeys

\* The release steps.  At most one step reports success and no loser's cleanup
\* takes its result away; what was created is still bound, was moved out by
\* others or deleted by the step that recorded it as its own; success publishes
\* what the step filled and failure withdraws it.  An app that nobody touched
\* passes every verifier; a changed one never runs as released; the launcher's
\* signature decides the schema; no verifier is laxer than the one before.
\* A clean build that was accepted has left nothing running or written outside
\* its directories, and its server closed by itself.
ReleaseSound ==
    /\ focus = "winner" => Winner!TypeOK /\ Winner!WinnerStays /\ Winner!NothingIsLost
    /\ focus = "meddled" =>
          /\ Meddled!TypeOK
          /\ Meddled!NothingIsLost /\ Meddled!PublishesItsOwn /\ Meddled!FailedIsWithdrawn
    /\ focus = "release" =>
          /\ Release!TypeOK
          /\ Release!UntouchedIsAccepted /\ Release!RunsWhatWasReleased
          /\ Release!SchemaFollowsSignature /\ Release!LauncherIsAsStrict
    /\ focus = "clean" => Clean!TypeOK /\ Clean!AcceptedIsClean /\ Clean!AcceptedServerClosed

\* What no step does: answer an inspection twice, or with a report once it was
\* aborted (the race in the route's parser); let a start of the inspection
\* through that an earlier one has barred by what it left, or remove an upload
\* that an earlier start moved aside (ensureOwnershipMarker, runJanitor); send
\* the ready frame from a server that does not listen or has begun to close
\* (proveReady in server.ts); restore another database than the manifest records
\* (restoreBackup).
StepsSound ==
    [][/\ focus = "slots" => Slots!AnswersOnce
       /\ focus = "orphans" => Orphans!AnswersOnce
       /\ focus = "closes" => Closes!BarredForGood /\ Closes!AsideStays
       /\ focus = "crashes" => Crashes!BarredForGood /\ Crashes!AsideStays
       /\ focus = "halves" => Halves!BarredForGood /\ Halves!AsideStays
       /\ focus = "locks" => Locks!ProvesServing
       /\ focus = "roots" => Roots!RestoresRecord]_vars
=============================================================================
