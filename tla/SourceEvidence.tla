--------------------------- MODULE SourceEvidence ---------------------------
(***************************************************************************)
(* The evidence that the source can be built and run from clean            *)
(* (scripts/clean-source-evidence.mjs and the workflow of its name).  A    *)
(* control plane records what the files of a fresh account are, runs the   *)
(* harness as that account, counts processes and files again and accepts   *)
(* or refuses.  The harness runs commands, starts the server by its        *)
(* launcher, stops it and removes its data directory.                      *)
(*                                                                         *)
(* Every process of the account may start others, outlive the one that     *)
(* started it and write outside the declared root at any time, between two *)
(* readings of a snapshot too.  So may the account's own agents, which are *)
(* there before and may come and go.                                       *)
(***************************************************************************)
EXTENDS Naturals, Sequences

CONSTANTS
    Paths,          \* outside the declared root
    Home,           \* the one that is the account's former home
    Strays,         \* processes started by those the harness starts
    Agents,         \* processes of the account that no source starts
    First,          \* the agents there before
    Commands,       \* commands run before the launch
    MaxSnapshots,   \* attempts at a stable snapshot
    MaxWrites,      \* bound on the writes
    None

\* The processes the harness and its commands start by name.
Named == {"harness", "command", "launcher", "server", "validator"}

\* What the constants are; the modules that instantiate this one assume it.
SourceEvidenceConstants ==
    /\ Home \in Paths /\ First \subseteq Agents
    /\ {Commands, MaxSnapshots, MaxWrites} \subseteq Nat
    /\ Strays \cap (Agents \cup Named) = {} /\ Agents \cap Named = {}

VARIABLES
    at,         \* what the control plane does next
    snapshots,  \* attempts so far, the last one and the one being made
    before,     \* the accepted snapshot
    base, again,    \* processes counted before, and before and after the last snapshot
    todo,       \* the harness's step, 0 in its finally
    child,      \* the command under way
    srv,        \* the server's state
    signalled,  \* whether the launcher was sent SIGTERM
    exit,       \* how the launcher ended
    evidence,   \* what the harness wrote
    live, born, \* processes that run, that ever ran
    disk,       \* per path: what it holds and who wrote that
    writes,     \* writes so far
    data,       \* whether the disposable data directory exists
    port        \* who listens on the port the harness chose

control == <<at, snapshots, before, base, again>>
harness == <<todo, child, evidence>>
launch  == <<srv, signalled, exit, port, data>>
procs   == <<live, born>>
vars    == <<control, harness, launch, procs, disk, writes>>

Source == Named \cup Strays
Contents == {0, 1}
Steps == [n \in 1..Commands |-> "command"] \o
         <<"launch", "ready", "inspect", "stop", "exited", "rest", "command", "remove">>

Unread == [p \in Paths |-> None]
Written == [p \in Paths |-> disk[p].is]

TypeOK ==
    /\ at \in {"settle", "count", "run", "recount", "scan", "last", "finalize", "accepted", "refused"}
    /\ snapshots.made \in 0..MaxSnapshots
    /\ {snapshots.last, snapshots.now, before} \subseteq [Paths -> Contents \cup {None}]
    /\ base \subseteq Agents /\ again \subseteq Source \cup Agents
    /\ todo \in 0..Len(Steps) /\ child \in {"none", "running", "ok", "failed"}
    /\ srv \in {"none", "starting", "listening", "closing", "closed", "failed", "killed", "terminated"}
    /\ signalled \in BOOLEAN /\ exit \in {"none", "clean", "failed"}
    /\ evidence \in {"none", "passed", "failed"}
    /\ born \subseteq Source \cup Agents /\ live \subseteq born
    /\ disk \in [Paths -> [is : Contents, by : {"nobody", "agent", "source"}]] /\ writes \in 0..MaxWrites
    /\ data \in BOOLEAN /\ port \in {"free", "server", "other"}

Init ==
    /\ at = "settle" /\ snapshots = [made |-> 0, last |-> Unread, now |-> Unread] /\ before = Unread
    /\ base = {} /\ again = {}
    /\ todo = 1 /\ child = "none" /\ evidence = "none"
    /\ srv = "none" /\ signalled = FALSE /\ exit = "none" /\ port = "free" /\ data = FALSE
    /\ live = First /\ born = First
    /\ disk = [p \in Paths |-> [is |-> 0, by |-> "nobody"]] /\ writes = 0

-----------------------------------------------------------------------------
(* Processes of the account                                                *)

Start(s) == live' = live \cup s /\ born' = born \cup s
Gone(s) == live' = live \ s /\ UNCHANGED born

\* A process writes outside the declared root, or undoes what it wrote.
Write(who, p) ==
    /\ who \in live \ {"harness"} /\ writes < MaxWrites
    /\ disk' = [disk EXCEPT ![p] = [is |-> 1 - @.is, by |-> IF who \in Agents THEN "agent" ELSE "source"]]
    /\ writes' = writes + 1
    /\ UNCHANGED <<control, harness, launch, procs>>

\* Something is left behind: whatever starts it may end before it does.
Spawn(s) ==
    /\ s \in Strays \ born /\ live \cap (Source \ {"harness"}) # {}
    /\ Start({s})
    /\ UNCHANGED <<control, harness, launch, disk, writes>>

AgentStarts(a) ==
    /\ a \in Agents \ born /\ Start({a})
    /\ UNCHANGED <<control, harness, launch, disk, writes>>

Exits(who) ==
    /\ who \in live \cap (Strays \cup Agents \cup {"validator"}) /\ Gone({who})
    /\ UNCHANGED <<control, harness, launch, disk, writes>>

-----------------------------------------------------------------------------
(* The harness: runEvidence                                                *)

Runs(step) == "harness" \in live /\ todo \in DOMAIN Steps /\ Steps[todo] = step
Proceeds == todo' = todo + 1
Fails == todo' = 0

\* runLogged: a command that takes too long is killed, and what it started is
\* not; the wait is for its exit and not for the end of its output.
StartCommand ==
    /\ Runs("command") /\ child = "none"
    /\ child' = "running" /\ Start({"command"})
    /\ UNCHANGED <<control, todo, evidence, launch, disk, writes>>
CommandExits(result) ==
    /\ child = "running"
    /\ child' = result /\ Gone({"command"})
    /\ UNCHANGED <<control, todo, evidence, launch, disk, writes>>
\* Its status, and what it reports, are as expected or not.
CommandEnds ==
    /\ Runs("command") /\ child \in {"ok", "failed"}
    /\ child' = "none" /\ ((child = "ok" /\ Proceeds) \/ Fails)
    /\ UNCHANGED <<control, evidence, launch, procs, disk, writes>>

Launch ==
    /\ Runs("launch") /\ port = "free"
    /\ srv' = "starting" /\ Start({"launcher", "server"}) /\ Proceeds
    /\ UNCHANGED <<control, child, evidence, signalled, exit, port, data, disk, writes>>

\* waitForReadiness: until the health route answers, the launcher is gone or
\* the time is over.
Ready ==
    /\ Runs("ready") /\ (Fails \/ (srv = "listening" /\ port = "server" /\ "launcher" \in live /\ Proceeds))
    /\ UNCHANGED <<control, child, evidence, launch, procs, disk, writes>>

\* inspectPack: the server runs the validator and answers, or fails to.
Inspect ==
    /\ Runs("inspect")
    /\ \/ srv = "listening" /\ Start({"validator"}) /\ Proceeds
       \/ Fails /\ UNCHANGED procs
    /\ UNCHANGED <<control, child, evidence, launch, disk, writes>>

\* The server must be there, below the launcher, to be stopped.
Stop ==
    /\ Runs("stop")
    /\ IF {"launcher", "server"} \subseteq live
       THEN signalled' = TRUE /\ Proceeds ELSE Fails /\ UNCHANGED signalled
    /\ UNCHANGED <<control, child, evidence, srv, exit, port, data, procs, disk, writes>>

\* waitForExit; a launcher that does not end is killed, and not what it started.
Exited ==
    /\ Runs("exited")
    /\ IF "launcher" \in live THEN Fails /\ Gone({"launcher"}) ELSE Proceeds /\ UNCHANGED procs
    /\ UNCHANGED <<control, child, evidence, launch, disk, writes>>

\* Nobody accepts connections, and nothing with a name of the server's runs.
Rest ==
    /\ Runs("rest")
    /\ IF port = "free" /\ live \cap {"launcher", "server", "validator"} = {} THEN Proceeds ELSE Fails
    /\ UNCHANGED <<control, child, evidence, launch, procs, disk, writes>>

\* removeDataRootAndVerify, and the evidence is written.
Ends(result) ==
    /\ evidence' = result /\ Gone({"harness"})
    /\ UNCHANGED <<control, child, srv, signalled, exit, port, disk, writes>>
Remove ==
    /\ Runs("remove")
    /\ \/ data' = FALSE /\ Ends("passed") /\ UNCHANGED todo
       \/ Fails /\ UNCHANGED <<control, child, evidence, launch, procs, disk, writes>>

\* finally: the launcher is stopped, if need be killed.
InFinally == "harness" \in live /\ todo = 0
FinallyStops ==
    /\ InFinally /\ "launcher" \in live
    /\ IF signalled THEN Gone({"launcher"}) /\ UNCHANGED signalled ELSE signalled' = TRUE /\ UNCHANGED procs
    /\ UNCHANGED <<control, harness, srv, exit, port, data, disk, writes>>
FinallyEnds ==
    /\ InFinally /\ "launcher" \notin live
    /\ data' \in {FALSE, data} /\ Ends("failed") /\ UNCHANGED todo

-----------------------------------------------------------------------------
(* The launcher and its server: start-local.mjs and server.ts              *)

Server(from, to) == "server" \in live /\ srv \in from /\ srv' = to
ServerOnly == UNCHANGED <<control, harness, signalled, exit, disk, writes>>

\* The data directory is opened before the port.
ServerOpens ==
    /\ Server({"starting"}, srv) /\ data' = TRUE
    /\ UNCHANGED <<port, procs>> /\ ServerOnly
ServerListens ==
    /\ data /\ port = "free" /\ Server({"starting"}, "listening") /\ port' = "server"
    /\ UNCHANGED <<data, procs>> /\ ServerOnly
\* It cannot be opened, or the port was taken since availablePort closed it.
ServerFails ==
    /\ Server({"starting"}, "failed") /\ Gone({"server"})
    /\ UNCHANGED <<port, data>> /\ ServerOnly
\* The launcher passes SIGTERM on; before its handlers are in place the server
\* dies of it.
ServerTermed ==
    /\ signalled /\ "launcher" \in live
    /\ \/ Server({"listening"}, "closing") /\ UNCHANGED procs
       \/ Server({"starting"}, "terminated") /\ Gone({"server"})
    /\ UNCHANGED <<port, data>> /\ ServerOnly
\* closeResources ends the validators it owns.
ServerCloses ==
    /\ Server({"closing"}, "closed") /\ Gone({"server", "validator"}) /\ port' = "free"
    /\ UNCHANGED data /\ ServerOnly
\* It crashes, or does not close and the launcher kills it.
ServerDies ==
    /\ Server({"starting", "listening", "closing"}, "killed") /\ Gone({"server"})
    /\ port' = IF port = "server" THEN "free" ELSE port
    /\ UNCHANGED data /\ ServerOnly

\* The launcher ends as its server did.
LauncherEnds ==
    /\ "launcher" \in live /\ srv \in {"closed", "failed", "killed", "terminated"}
    /\ Gone({"launcher"}) /\ exit' = IF srv = "closed" THEN "clean" ELSE "failed"
    /\ UNCHANGED <<control, harness, srv, signalled, port, data, disk, writes>>

\* Another program of the host has the port for a while.
OtherListens ==
    /\ todo \in DOMAIN Steps /\ Steps[todo] \in {"launch", "ready"}
    /\ port # "server" /\ port' = IF port = "free" THEN "other" ELSE "free"
    /\ UNCHANGED <<control, harness, srv, signalled, exit, data, procs, disk, writes>>

-----------------------------------------------------------------------------
(* The control plane                                                       *)

ControlOnly == UNCHANGED <<harness, launch, disk, writes>>

\* A snapshot is read one path after the other.
Read(p) ==
    /\ at \in {"settle", "scan"} /\ snapshots.now[p] = None
    /\ snapshots' = [snapshots EXCEPT !.now[p] = disk[p].is]
    /\ UNCHANGED <<at, before, base, again, procs>> /\ ControlOnly
Complete == \A p \in Paths : snapshots.now[p] # None

\* The baseline is the first snapshot equal to the one before it.
Settle ==
    /\ at = "settle" /\ Complete
    /\ LET n == snapshots.made + 1
           stable == snapshots.now = snapshots.last
       IN /\ at' = IF stable THEN "count" ELSE IF n = MaxSnapshots THEN "refused" ELSE at
          /\ before' = IF stable THEN snapshots.now ELSE before
          /\ snapshots' = [made |-> n, last |-> snapshots.now, now |-> Unread]
    /\ UNCHANGED <<base, again, procs>> /\ ControlOnly

Count ==
    /\ at = "count" /\ at' = "run" /\ base' = live /\ Start({"harness"})
    /\ UNCHANGED <<snapshots, before, again>> /\ ControlOnly

RunEnds ==
    /\ at = "run" /\ "harness" \notin live /\ at' = "recount"
    /\ UNCHANGED <<snapshots, before, base, again, procs>> /\ ControlOnly

\* The processes are counted once before the last snapshot and once after it.
Recount ==
    /\ at = "recount" /\ at' = "scan" /\ again' = again \cup live
    /\ UNCHANGED <<snapshots, before, base, procs>> /\ ControlOnly
Scanned ==
    /\ at = "scan" /\ Complete /\ at' = "last"
    /\ UNCHANGED <<snapshots, before, base, again, procs>> /\ ControlOnly
Last ==
    /\ at = "last" /\ at' = "finalize" /\ again' = again \cup live
    /\ UNCHANGED <<snapshots, before, base, procs>> /\ ControlOnly

\* evaluateUidProcessAudit, evaluateSourcePhaseAudit, validateHarnessEvidence
NothingNew == again \subseteq base
Unchanged == snapshots.now = before
HarnessHolds == evidence = "passed" /\ exit = "clean"

\* finalizeEvidence
Finalize ==
    /\ at = "finalize"
    /\ at' = IF NothingNew /\ Unchanged /\ HarnessHolds /\ disk[Home].is = 0 THEN "accepted" ELSE "refused"
    /\ UNCHANGED <<snapshots, before, base, again, procs>> /\ ControlOnly

Next ==
    \/ \E who \in Source \cup Agents, p \in Paths : Write(who, p)
    \/ \E s \in Strays : Spawn(s)
    \/ \E a \in Agents : AgentStarts(a)
    \/ \E who \in Source \cup Agents : Exits(who)
    \/ StartCommand \/ CommandEnds \/ Launch \/ Ready \/ Inspect \/ Stop \/ Exited \/ Rest \/ Remove
    \/ \E result \in {"ok", "failed"} : CommandExits(result)
    \/ FinallyStops \/ FinallyEnds
    \/ ServerOpens \/ ServerListens \/ ServerFails \/ ServerTermed \/ ServerCloses \/ ServerDies
    \/ LauncherEnds \/ OtherListens
    \/ \E p \in Paths : Read(p)
    \/ Settle \/ Count \/ RunEnds \/ Recount \/ Scanned \/ Last \/ Finalize

Spec == Init /\ [][Next]_vars

-----------------------------------------------------------------------------
(***************************************************************************)
(* An accepted run has left nothing: no process of its own is alive to     *)
(* write later, its data directory is gone, and nothing outside the        *)
(* declared root is other than it was for something it wrote, before,      *)
(* during or after the reading of the last snapshot (finalizeEvidence).    *)
(***************************************************************************)
AcceptedIsClean ==
    at = "accepted" =>
        /\ live \cap Source = {} /\ ~data
        /\ \A p \in Paths : disk[p].by = "source" => disk[p].is = before[p]

(***************************************************************************)
(* An accepted run started the server it inspected and stopped it as a     *)
(* user would: it closed by itself, whatever else had the port or died     *)
(* meanwhile (sigtermExit).                                                *)
(***************************************************************************)
AcceptedServerClosed ==
    at = "accepted" => srv = "closed" /\ port # "server" /\ evidence = "passed"
=============================================================================
