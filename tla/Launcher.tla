------------------------------ MODULE Launcher ------------------------------
(***************************************************************************)
(* The processes of the packaged macOS application.  Each launch starts    *)
(* three of them: the launcher the user started (the outer one), the       *)
(* supervisor it spawns from the same executable, and the server the       *)
(* supervisor spawns in a process group of its own.  They are tied by      *)
(*                                                                         *)
(*   - the lifetime pipe, whose only writer is the outer launcher: end of  *)
(*     file tells the supervisor that the launcher is gone;                *)
(*   - the armed pipe, on which the supervisor names the server's process; *)
(*   - the readiness socket, on which the server proves that it listens.   *)
(*                                                                         *)
(* All launches of one user share the data directory, whose writer lock    *)
(* only one server holds at a time.                                        *)
(***************************************************************************)
EXTENDS Naturals, FiniteSets

CONSTANTS
    Launches,        \* the launches of the application
    NoOne,           \* the writer lock is free
    Faults,          \* which of "outer", "supervisor", "server" may be killed, and "signal"
    Detached,        \* the server starts its credential helper, a session leader
    Stuck            \* the launches whose server never finishes closing

\* What the constants are; the modules that instantiate this one assume it.
LauncherConstants ==
    /\ NoOne \notin Launches
    /\ Faults \subseteq {"outer", "supervisor", "server", "signal"}
    /\ Detached \in BOOLEAN
    /\ Stuck \subseteq Launches

Resources == {"readiness", "app", "runtime", "store", "lock"}
Fibers == {"main", "signal"}

VARIABLES
    outer,     \* the outer launcher of each launch
    sup,       \* its supervisor
    main,      \* what its server's top-level code is about to do
    closer,    \* how far each run of closeResources in the server has come
    held,      \* the resources the server's module variables still name
    open,      \* the resources that are open
    owner,     \* the launch whose server holds the writer lock
    proved,    \* the ready frame is on the readiness socket
    kid,       \* a validator runs in the server's process group
    helper,    \* a credential helper runs in a session of its own
    opener,    \* the process that opens the browser
    browser    \* the browser was opened for this launch

server == <<main, closer, held, open, owner>>
rest   == <<proved, kid, helper, opener, browser>>
vars   == <<outer, sup, server, rest>>

OuterStates == {"idle", "arming", "waiting", "opening", "reaping", "failing", "exited", "dead"}
SupStates   == {"none", "preflight", "loop", "term", "kill", "done", "dead"}
MainStates  == {"none", "channel", "assets", "lock", "inspection", "store", "app", "listen",
                "prove", "serving", "failed", "caught", "exited"}

TypeOK ==
    /\ outer \in [Launches -> OuterStates]
    /\ sup \in [Launches -> SupStates]
    /\ main \in [Launches -> MainStates]
    /\ closer \in [Launches -> [Fibers -> {"idle", "app", "runtime", "done"}]]
    /\ held \in [Launches -> SUBSET Resources]
    /\ open \in [Launches -> SUBSET Resources]
    /\ owner \in Launches \cup {NoOne}
    /\ proved \in [Launches -> BOOLEAN]
    /\ kid \in [Launches -> BOOLEAN]
    /\ helper \in [Launches -> BOOLEAN]
    /\ opener \in [Launches -> {"none", "running", "ok", "failed"}]
    /\ browser \in [Launches -> BOOLEAN]

Init ==
    /\ outer = [l \in Launches |-> "idle"]
    /\ sup = [l \in Launches |-> "none"]
    /\ main = [l \in Launches |-> "none"]
    /\ closer = [l \in Launches |-> [f \in Fibers |-> "idle"]]
    /\ held = [l \in Launches |-> {}]
    /\ open = [l \in Launches |-> {}]
    /\ owner = NoOne
    /\ proved = [l \in Launches |-> FALSE]
    /\ kid = [l \in Launches |-> FALSE]
    /\ helper = [l \in Launches |-> FALSE]
    /\ opener = [l \in Launches |-> "none"]
    /\ browser = [l \in Launches |-> FALSE]

ServerRuns(l) == main[l] \notin {"none", "exited"}
OuterGone(l)  == outer[l] \in {"exited", "dead"}
SupGone(l)    == sup[l] \in {"done", "dead"}
LifetimeOpen(l) == outer[l] \in {"arming", "waiting", "opening", "reaping"}

-----------------------------------------------------------------------------
(* The outer launcher.                                                     *)

(* Preflight passed: the control pipes are made, the supervisor is spawned *)
(* and the challenge is written.                                           *)
Launch(l) ==
    /\ outer[l] = "idle"
    /\ outer' = [outer EXCEPT ![l] = "arming"]
    /\ sup' = [sup EXCEPT ![l] = "preflight"]
    /\ UNCHANGED <<server, rest>>

(* The supervisor's four bytes name the server's process.                  *)
ReadArmed(l) ==
    /\ outer[l] = "arming"
    /\ sup[l] \notin {"none", "preflight"} /\ main[l] # "none"
    /\ outer' = [outer EXCEPT ![l] = "waiting"]
    /\ UNCHANGED <<sup, server, rest>>

(* The response ended: it is the ready frame of the process named before,  *)
(* and that process still exists (an unreaped one does).                   *)
ReadReady(l) ==
    /\ outer[l] = "waiting"
    /\ proved[l]
    /\ ServerRuns(l) \/ ~SupGone(l)
    /\ outer' = [outer EXCEPT ![l] = "opening"]
    /\ opener' = [opener EXCEPT ![l] = "running"]
    /\ UNCHANGED <<sup, server, proved, kid, helper, browser>>

(* The opener ended well and the server's process still exists.            *)
Opened(l) ==
    /\ outer[l] = "opening"
    /\ opener[l] = "ok"
    /\ ServerRuns(l) \/ ~SupGone(l)
    /\ outer' = [outer EXCEPT ![l] = "reaping"]
    /\ UNCHANGED <<sup, server, rest>>

(* Anything else closes the lifetime pipe: end of file on the armed pipe   *)
(* or the readiness socket, a server that is gone, an opener that failed,  *)
(* or one of the two deadlines, at which a running opener is killed.       *)
LaunchFails(l) ==
    /\ outer[l] \in {"arming", "waiting", "opening"}
    /\ outer' = [outer EXCEPT ![l] = "failing"]
    /\ opener' = [opener EXCEPT ![l] = IF @ = "running" THEN "failed" ELSE @]
    /\ UNCHANGED <<sup, server, proved, kid, helper, browser>>

(* The launcher waits for its supervisor and exits.                        *)
Reap(l) ==
    /\ outer[l] \in {"reaping", "failing"}
    /\ SupGone(l)
    /\ outer' = [outer EXCEPT ![l] = "exited"]
    /\ UNCHANGED <<sup, server, rest>>

(* The opener's process, authorized by the launcher, asks for the page.    *)
OpenBrowser(l) ==
    /\ opener[l] = "running"
    /\ \E ok \in BOOLEAN :
        /\ opener' = [opener EXCEPT ![l] = IF ok THEN "ok" ELSE "failed"]
        /\ browser' = [browser EXCEPT ![l] = @ \/ ok]
    /\ UNCHANGED <<outer, sup, server, proved, kid, helper>>

-----------------------------------------------------------------------------
(* The server's process.                                                   *)

(* The process is gone: everything it had open is closed by the system,    *)
(* the writer lock with it.                                                *)
Gone(l) ==
    /\ main' = [main EXCEPT ![l] = "exited"]
    /\ closer' = [closer EXCEPT ![l] = [f \in Fibers |-> "idle"]]
    /\ held' = [held EXCEPT ![l] = {}]
    /\ open' = [open EXCEPT ![l] = {}]
    /\ owner' = IF owner = l THEN NoOne ELSE owner

(* closeResources takes the resources one after the other out of the       *)
(* module's variables.  It waits for the application and for the           *)
(* inspection runtime; the store and the lock close at once.               *)
Awaited(h) == IF "app" \in h THEN "app" ELSE IF "runtime" \in h THEN "runtime" ELSE "done"

\* Mutant: the lock is released before the close waits for anything.
CloseUnlocksFirst(l, f, h, o) ==
    LET next == Awaited(h) IN
    /\ closer' = [closer EXCEPT ![l][f] = next]
    /\ held' = [held EXCEPT ![l] = IF next = "done" THEN {} ELSE h \ {next, "lock"}]
    /\ open' = [open EXCEPT ![l] = IF next = "done" THEN o \ {"store", "lock"} ELSE o \ {"lock"}]
    /\ owner' = IF "lock" \in h THEN NoOne ELSE owner

CloseFrom(l, f, h, o) ==
    LET next == Awaited(h) IN
    /\ closer' = [closer EXCEPT ![l][f] = next]
    /\ held' = [held EXCEPT ![l] = IF next = "done" THEN {} ELSE h \ {next}]
    /\ open' = [open EXCEPT ![l] = IF next = "done" THEN o \ (h \cap {"store", "lock"}) ELSE o]
    /\ owner' = IF next = "done" /\ "lock" \in h THEN NoOne ELSE owner

StartClose(l, f) ==
    CloseFrom(l, f, held[l] \ {"readiness"}, open[l] \ {"readiness"})

(* What the running close waits for has closed.                            *)
CloseStep(l, f) ==
    /\ ServerRuns(l)
    /\ closer[l][f] \in {"app", "runtime"}
    /\ CloseFrom(l, f, held[l], open[l] \ {closer[l][f]})
    /\ UNCHANGED <<main, outer, sup, rest>>

(* One step of the startup code succeeds; the signal handlers are set      *)
(* between the application and the listener ...                            *)
BeforeHandlers == {"channel", "assets", "lock", "inspection", "store", "app"}

Follows(s) == CASE s = "channel" -> "assets" [] s = "assets" -> "lock"
                [] s = "lock" -> "inspection" [] s = "inspection" -> "store"
                [] s = "store" -> "app" [] s = "app" -> "listen" [] s = "listen" -> "prove"

Acquired(s) == CASE s = "channel" -> {"readiness"} [] s = "lock" -> {"lock"}
                 [] s = "inspection" -> {"runtime"} [] s = "store" -> {"store"}
                 [] s = "app" -> {"app"} [] OTHER -> {}

StartStep(l) ==
    LET s == main[l] IN
    /\ s \in BeforeHandlers \cup {"listen"}
    /\ s = "lock" => owner = NoOne
    /\ main' = [main EXCEPT ![l] = Follows(s)]
    /\ held' = [held EXCEPT ![l] = @ \cup Acquired(s)]
    /\ open' = [open EXCEPT ![l] = @ \cup Acquired(s)]
    /\ owner' = IF s = "lock" THEN l ELSE owner
    /\ UNCHANGED <<closer, outer, sup, rest>>

(* ... or throws, which closes what there is.                              *)
StartFails(l) ==
    /\ main[l] \in BeforeHandlers \cup {"listen"}
    /\ main' = [main EXCEPT ![l] = IF @ = "listen" THEN "caught" ELSE "failed"]
    /\ StartClose(l, "main")
    /\ UNCHANGED <<outer, sup, rest>>

\* Mutant: a frame that cannot be written is not an error.
ProvesToNobody(l) ==
    /\ main[l] = "prove"
    /\ main' = [main EXCEPT ![l] = "serving"]
    /\ proved' = [proved EXCEPT ![l] = @ \/ "readiness" \in held[l]]
    /\ held' = [held EXCEPT ![l] = @ \ {"readiness"}]
    /\ open' = [open EXCEPT ![l] = @ \ {"readiness"}]
    /\ UNCHANGED <<closer, owner, outer, sup, kid, helper, opener, browser>>

(* The ready frame goes out on the socket, unless a shutdown closed the    *)
(* channel; it cannot be written once the launcher's end is closed.        *)
ProveReady(l) ==
    /\ main[l] = "prove"
    /\ IF "readiness" \in held[l] /\ OuterGone(l)
       THEN /\ main' = [main EXCEPT ![l] = "caught"]
            /\ StartClose(l, "main")
            /\ UNCHANGED proved
       ELSE /\ main' = [main EXCEPT ![l] = "serving"]
            /\ proved' = [proved EXCEPT ![l] = @ \/ "readiness" \in held[l]]
            /\ held' = [held EXCEPT ![l] = @ \ {"readiness"}]
            /\ open' = [open EXCEPT ![l] = @ \ {"readiness"}]
            /\ UNCHANGED <<closer, owner>>
    /\ UNCHANGED <<outer, sup, kid, helper, opener, browser>>

(* Nothing keeps the event loop alive any more.                            *)
Exit(l) ==
    /\ main[l] \in {"failed", "caught", "serving"}
    /\ \E f \in Fibers : closer[l][f] = "done"
    /\ \A f \in Fibers : closer[l][f] \in {"idle", "done"}
    /\ Gone(l)
    /\ UNCHANGED <<outer, sup, rest>>

(* A serving process runs the validator in its own group, and the          *)
(* credential helper as the leader of a new session.                       *)
RunChild(l) ==
    /\ main[l] = "serving" /\ "app" \in held[l]
    /\ \/ /\ kid' = [kid EXCEPT ![l] = TRUE]
          /\ UNCHANGED helper
       \/ /\ Detached
          /\ helper' = [helper EXCEPT ![l] = TRUE]
          /\ UNCHANGED kid
    /\ UNCHANGED <<outer, sup, server, proved, opener, browser>>

ChildEnds(l) ==
    /\ kid[l] \/ helper[l]
    /\ \/ kid' = [kid EXCEPT ![l] = FALSE] /\ UNCHANGED helper
       \/ helper' = [helper EXCEPT ![l] = FALSE] /\ UNCHANGED kid
    /\ UNCHANGED <<outer, sup, server, proved, opener, browser>>

-----------------------------------------------------------------------------
(* The supervisor.                                                         *)

(* The supervisor repeats the preflight and spawns the server; the write   *)
(* to the armed pipe raises SIGPIPE once the launcher is gone, which the   *)
(* supervisor leaves at its default: it dies of it.                        *)
Spawn(l) ==
    /\ sup[l] = "preflight"
    /\ IF ~OuterGone(l)
       THEN sup' = [sup EXCEPT ![l] = "loop"] /\ main' = [main EXCEPT ![l] = "channel"]
       ELSE sup' = [sup EXCEPT ![l] = "dead"] /\ main' = [main EXCEPT ![l] = "channel"]
    /\ UNCHANGED <<closer, held, open, owner, outer, rest>>

SpawnFails(l) ==
    /\ sup[l] = "preflight"
    /\ sup' = [sup EXCEPT ![l] = "done"]
    /\ UNCHANGED <<outer, server, rest>>

(* SIGTERM to the group.  Before its handlers are set the server dies of   *)
(* it; after, it closes its resources, again if its startup code is        *)
(* already closing them.  The validator may outlive the signal.            *)
Signalled(l) ==
    CASE main[l] \in BeforeHandlers \cup {"failed"} -> Gone(l)
      [] main[l] \in {"listen", "prove", "serving", "caught"} ->
            StartClose(l, "signal") /\ UNCHANGED main
      [] OTHER -> UNCHANGED server

(* The launcher is gone, the supervisor was signalled, or the server's     *)
(* process was reaped: the group is asked to end, once.                    *)
RequestShutdown(l) ==
    /\ sup[l] = "loop"
    /\ ~LifetimeOpen(l) \/ ~ServerRuns(l) \/ "signal" \in Faults
    /\ sup' = [sup EXCEPT ![l] = "term"]
    /\ Signalled(l)
    /\ \E survives \in BOOLEAN : kid' = [kid EXCEPT ![l] = @ /\ survives]
    /\ UNCHANGED <<outer, proved, helper, opener, browser>>

(* The grace is over and the group still exists.                           *)
KillGroup(l) ==
    /\ sup[l] = "term"
    /\ ServerRuns(l) \/ kid[l]
    /\ sup' = [sup EXCEPT ![l] = "kill"]
    /\ Gone(l)
    /\ kid' = [kid EXCEPT ![l] = FALSE]
    /\ UNCHANGED <<outer, proved, helper, opener, browser>>

(* The group is gone, its leader reaped and its output read to the end.    *)
SupervisorEnds(l) ==
    /\ sup[l] \in {"term", "kill"}
    /\ ~ServerRuns(l) /\ ~kid[l]
    /\ sup' = [sup EXCEPT ![l] = "done"]
    /\ UNCHANGED <<outer, server, rest>>

-----------------------------------------------------------------------------
(* Faults: a process is killed from outside, or the server crashes.        *)

KillOuter(l) ==
    /\ "outer" \in Faults
    /\ outer[l] \notin {"idle", "exited", "dead"}
    /\ outer' = [outer EXCEPT ![l] = "dead"]
    /\ UNCHANGED <<sup, server, rest>>

KillSupervisor(l) ==
    /\ "supervisor" \in Faults
    /\ sup[l] \in {"preflight", "loop", "term", "kill"}
    /\ sup' = [sup EXCEPT ![l] = "dead"]
    /\ UNCHANGED <<outer, server, rest>>

KillServer(l) ==
    /\ "server" \in Faults
    /\ ServerRuns(l)
    /\ Gone(l)
    /\ UNCHANGED <<outer, sup, rest>>

OuterStep(l) == Launch(l) \/ ReadArmed(l) \/ ReadReady(l) \/ Opened(l) \/ LaunchFails(l) \/ Reap(l)
ServerStep(l) == StartStep(l) \/ StartFails(l) \/ ProveReady(l) \/ Exit(l)
SupervisorStep(l) == Spawn(l) \/ SpawnFails(l) \/ RequestShutdown(l) \/ KillGroup(l) \/ SupervisorEnds(l)

Next ==
    \E l \in Launches :
        \/ OuterStep(l) \/ OpenBrowser(l)
        \/ ServerStep(l) \/ RunChild(l) \/ ChildEnds(l)
        \/ \E f \in Fibers : CloseStep(l, f)
        \/ SupervisorStep(l)
        \/ KillOuter(l) \/ KillSupervisor(l) \/ KillServer(l)

Spec == Init /\ [][Next]_vars

(***************************************************************************)
(* The launcher's deadlines end every wait of the outer process; the       *)
(* supervisor polls in a loop and its grace runs out; the startup code of  *)
(* the server goes on or throws.  Closing is fair only where nothing keeps *)
(* a connection open.                                                      *)
(***************************************************************************)
Fairness ==
    \A l \in Launches :
        /\ WF_vars(ReadArmed(l) \/ ReadReady(l) \/ Opened(l) \/ LaunchFails(l) \/ Reap(l))
        /\ WF_vars(SupervisorStep(l))
        /\ WF_vars(ServerStep(l))
        /\ l \notin Stuck => \A f \in Fibers : WF_vars(CloseStep(l, f))

FairSpec == Spec /\ Fairness

-----------------------------------------------------------------------------
(* Properties.                                                             *)

(* A server has the database open only while it holds the writer lock of   *)
(* the data directory, whichever process is killed and whichever closing   *)
(* overtakes the other: two servers never have it open at once.            *)
OneWriter == \A l \in Launches : "store" \in open[l] => owner = l

ProvesServing ==
    \A l \in Launches :
        proved'[l] /\ ~proved[l] =>
            /\ {"app", "store", "lock"} \subseteq open'[l]
            /\ \A f \in Fibers : closer[l][f] = "idle"

(* The ready frame is sent by a server that listens, with its database     *)
(* open, and never by one that has begun to close.                         *)
ProofMeansServing == [][ProvesServing]_vars

(* The page is opened for a launch only if its own server proved itself.   *)
OpensProvenServer == \A l \in Launches : browser[l] => proved[l]

(* A supervisor that ended by itself left nothing of its group behind.     *)
NoOrphan == \A l \in Launches : sup[l] = "done" => ~ServerRuns(l) /\ ~kid[l]

(* A launcher that has exited has no server running.                       *)
RunsWithLauncher == \A l \in Launches : outer[l] = "exited" => ~ServerRuns(l)

(* Every launch opens the page or comes to its end.                        *)
LaunchSettles ==
    \A l \in Launches : outer[l] = "arming" ~> outer[l] \in {"reaping", "exited", "dead"}

(* A server that never finishes closing is without a supervisor that could *)
(* kill it: that one died, also of the write to the armed pipe after the   *)
(* launcher.                                                               *)
LeftHanging(l) == l \in Stuck /\ sup[l] = "dead"

(* Once the launcher is gone, by itself or killed, its server stops, be it *)
(* that the supervisor kills it or that it finds nobody to prove itself to *)
(* and closes; but one left hanging does not.                              *)
QuitStopsServer ==
    \A l \in Launches : OuterGone(l) ~> (~ServerRuns(l) /\ ~kid[l]) \/ LeftHanging(l)

(* The lock is released after every other resource has closed.             *)
ReleasedLast ==
    \A l \in Launches : open[l] \cap {"app", "runtime", "store"} # {} => "lock" \in open[l]

(* Nothing the server started outlives its supervisor.                     *)
NothingSurvives == \A l \in Launches : sup[l] = "done" => ~helper[l]

=============================================================================
