# The Green Room: a formal model

This directory holds TLA+ models of The Green Room, a local app in which a
person talks to a cast of AI personas. The models cover the parts of the code
where several things happen at once or fail half way: the desktop companion,
its page, the iPhone application, the macOS launcher and the release steps.
TLC checks them on small instances, and the TLA+ proof system (TLAPS) proves
the main safety properties of six of them, and two refinements, for every value
of the constants.

All paths below are relative to the repository root.

## 1. The system

| Part | State it keeps | Operations | What makes it hard |
|---|---|---|---|
| Room service (`src/runtime/room-service.ts`) | SQLite rows of a room: status, generation, event log, director state, command rows with leased claims; in memory: runs in flight, abort controllers | send, pause, resume, stop, mute, unmute, close | providers answer outside any transaction; several services share one database; leases expire; crashes; retries |
| Director (`packages/core/src/director.ts`, compiled as `ios-web/director.js`) | roster, muted set, selections, a window of seen event identities | schedule, setMuted, cancel, snapshot, restore | deduplication at the limit of the window, snapshots that must restore, fairness of turns |
| Provider credential routes (`src/api/provider-routes.ts`) and credential stores (`src/providers/credential-store.ts`, `keychain-helper-client.ts`) | revisioned connection rows; one secret per revision in a file or keychain | create, replace, disable, delete | row and secret cannot change in one transaction; every await may fail, half happen, or happen without an answer |
| Provider profiles, bindings, snapshots (`src/db/provider-*.ts`) | immutable revisions of connections, models, observations and bindings | create, revise, test, bind, pin, commit | a decision pinned in one revision and used in another; a probe of LM Studio between check and write |
| Cloud transport (`src/providers/secure-http-transport.ts`, `openai-compatible-cloud.ts`) | a semaphore with a queue; per call: phase, address, socket, timers | request, abort | a slot that outlives its caller; results after the deadline; DNS answers |
| Event channel of the page (`public/app.js`, `createRoomEventChannel`) | cursor, generation, timer, connection, replay under way | start, stop, catchUp, reconnection | hand-over from replay to stream; answers of an earlier generation |
| Event stream of the server (`src/api/routes.ts`, `SseClients`; `src/db/events.ts`) | per connection: last event queued, bounded queue, back-pressure | connect, poll, flush, drain, heartbeat, cleanup | slow readers, overflow, dying connections |
| Room library (`src/db/cast.ts`) and the page's part in it (`public/app.js`) | rooms, the selected room and its revision, two command ledgers; the room rendered, its channel | select a room, start one, list | stale selections, repeated commands, answers that arrive after a switch |
| Data directory (`src/db/lifecycle.ts`, `open.ts`, `migrate.ts`, `src/runtime/data-root-lock.ts`) | files, a writer lock, a marker | open, migrate, back up, restore, purge | a death between two file operations; binaries of different age |
| Persona packs (`src/personas/`, `src/api/persona-pack-inspection-route.ts`, `src/greenroom_persona/`) | three semaphores, upload directories, a validator process, a report | inspect, time out, sweep, close | aborts anywhere, processes that do not end, limits applied twice |
| Server and macOS launcher (`src/server.ts`, `packaging/macos/GreenRoomLauncher`) | three processes, two pipes and a socket; five resources | launch, prove, open, quit, kill | any process dies at any time; two closings at once |
| Model setup of the page (`public/app.js`, `providerAction`) | the dialog's fields, the connection, binding and disclosure it holds | save, replace, list, test, bind, disable, delete, open, close | two requests to one action; what is shown is read anew while one waits |
| Release steps (`packaging/macos/assemble-app.mjs`, `scripts/package/`) | names in the output directory; the app's contents, signatures and modes | assemble, sign, notarize, archive, extract, verify | directories others use; five verifiers in three languages |
| Clean build evidence (`scripts/clean-source-evidence.mjs` and its workflow) | snapshots and process counts of the control plane; the harness's steps; the account's processes and files | count, snapshot, run, stop, judge | processes that outlive what started them and write between two readings |
| iPhone room (`ios-web/room-runtime.js`, `GreenRoomDatabasePlugin.swift`, `GreenRoomProviderPlugin.swift`, `NativeLifecycleCoordinator.swift`) | generation commands in SQLite, registered tasks, page handlers | send, retry, abandon, select the demonstration | kills, losses of the path, double taps, timers beside the bridge's queue |
| iPhone page around the turns (`ios-web/room-runtime.js`, `GreenRoomDatabasePlugin.swift`) | the current room, drafts and transcripts in SQLite; the room, view and field shown; the writer of drafts | type, open, cancel, reproject, create, send a demonstration line | handlers that return to a view the user has left; the database closed under them |
| iPhone credentials (`GreenRoomCredentialLifecycle.swift`, `room-runtime.js`) | a row per revision in SQLite, a key in the Keychain | save, remove, reconcile | two stores without a common transaction; reinstallation |

How they interact: a page command is an HTTP request; the route calls the room
service, which appends events to the log inside its transactions; the server's
stream polls that log and the page shows what arrives. The selection revision
of the room library guards every command of a room. The room service asks a
provider, resolved from the room's binding, for the text of a persona; a cloud
provider is reached through the transport. The credential routes change the
connections the bindings end in. The director of the core package does on the
phone what `RoomService.#decide` does on the desktop. On the phone, page and
native shell talk through a bridge whose calls run one after the other, while
timers, sessions and the lifecycle run beside it.

`PROJECT.json` lists every component, with the reason where one is not
modelled, and the main hazards: the places where the code can go wrong in a way a
test would hardly reach, each with the properties that would notice.

## 2. Modules

| Module | Content |
|---|---|
| `Turns`, `RoomDecision` | rosters as positions `0 .. N-1` and a round-robin scan; `RoomService.#decide` as an operator |
| `RoomContract` | abstract: what a desktop room promises about its requests |
| `RoomService` | the message path of the room service; implements `RoomContract` |
| `Director` | the director of the core package |
| `ProviderCredentials` | mutations of one cloud connection and its secrets |
| `ProviderBindings` | the chain connection, model, observation, binding, and the decision of a turn |
| `SecureTransport` | the cloud transport and its semaphore |
| `EventStream` | the page's event channel and the server's event stream |
| `RoomAuthority` | abstract: one sequence of selections |
| `RoomLibrary` | the room library in the database; implements `RoomAuthority` |
| `RoomPage` | the page's operations on rooms, over `RoomAuthority` |
| `ProviderPanel` | the page's model setup dialog and the routes behind it |
| `Lifecycle` | opening, backup, restore and purge of a data directory |
| `PackInspection`, `PackRuntime` | an inspection request through its semaphores and child process; the directories across restarts |
| `PackArchive`, `PackReport` | what the validator accepts; its report on the way to the page |
| `Launcher` | launcher, supervisor and server processes |
| `Publication`, `Bundle` | a release step's rename and cleanup; the app's contents, signatures and modes |
| `SourceEvidence` | the clean build of the source, its harness and its audit |
| `TurnContract` | abstract: what a room of the iPhone promises about its turns |
| `PhoneTurns` | one provider room of the iPhone; implements `TurnContract` |
| `PhoneRooms` | the iPhone's page around the turns: rooms, views, drafts and the lines of demonstration rooms |
| `PhoneCredentials` | the provider key of the iPhone |
| `ProviderTasks` | the native task registry and session delegate behind listModels |
| `MCRoomService`, `MCProviderCredentials`, `MCEventStream` | instances of one module for TLC: symmetry sets and value sets |
| `MCProviders`, `MCDesktop`, `MCPackaging`, `MCPhone`, `MCLiveness` | several instances of the other modules for TLC, one of which a behaviour follows; the instances of the first four share a pool of variables |
| `TurnsProofs`, `RoomServiceProofs`, `DirectorProofs`, `CredentialProofs`, `EventStreamProofs`, `RoomLibraryProofs`, `ProviderProofs`, `LifecycleProofs` | theorems |

`RoomService` extends `RoomDecision`, which extends `Turns`. `Director`
extends `RoomDecision` too, in order to compare the two schedulers. `RoomPage`
extends `RoomAuthority`: the server it talks to is the promise that
`RoomLibrary` is shown to keep. Operators whose comment begins with "Plausible
bug" or "Mutant" are not part of any specification: each is a wrong version of
the definition after it, and replacing the one by the other must break a
property (`mutants` in `PROJECT.json`, one for each property of a run).

The last five MC modules hold small instances of every module that has no MC
module of its own; one more run checks `RoomPage` by itself. `Init` chooses an
instance with `focus`, and the variables of the others stand still (they are
`None`, or stay as they begin in `MCLiveness`), so the states of the union are
the sum of the instances' states and not their product. A property of such a run
is the conjunction of what the instances promise, each guarded by its `focus`;
the conjuncts are stated and explained in the component's module. The constants
of an instance are in its `INSTANCE ... WITH`, and its assumptions on constants
are definitions of the component's module that the MC module assumes. Where a
definition is named by what it says of the constants (`LauncherConstants`,
`SlotsAssumption`), this is it.

### RoomService and RoomContract

One room, several services over one database. Each database transaction is one
action, because SQLite's `BEGIN IMMEDIATE` serialises them; a service's
JavaScript between two transactions does not interleave with itself but other
services may run there. A run of `#executeMessage` is the record
`worker[s][r]`, whose `pc` names the next transaction or await:

* `PrepareRejected`, `PrepareReplay`, `PrepareClaim`, `PrepareObserve`,
  `PrepareNew`: the branches of `#prepareMessage`;
* `CheckStale`, `Pin`, `ProviderReturns`, `GenerationFails`, `Renew`:
  `#generateMessage`, `#pinProviderDecision` and `#maintainClaim`;
* `CompleteSettled`, `CompleteLost`, `CompleteCommit`: `#completeMessage` and
  the loop around it;
* `RoomControl`, `PersonaControl`: controls with a new request id. A used id
  replays its stored result and changes nothing;
* `Close`, `Restart`, `Crash`, `Tick`, `MoveSelection`, `Rebind`.

Abstractions. Text is left out; a message is what it wants and whom it
addresses. `claim_expires_at` is kept as the ticks left, so time only moves
forward: a wall clock set back is not modelled. The request digest is the pair
of payload and selection revision. The whole chain of binding, model,
connection and observation is one number that `Rebind` raises (`ProviderBindings`
has the chain); a binding that cannot be resolved is a `GenerationFails` from
`pin`. A claim owner is a random UUID, hence one that is used nowhere else.
`N >= 1`: a session always has a persona, so the `NO_PERSONA` reason does not
occur. A service may close between `stale_check`, `pin` and `calling`, which
the real one cannot; the model has these behaviours in addition to the real
ones. `fenced` and `fresh` are history and guard nothing.

`RoomContract` knows nothing of services, claims or providers: a request is
admitted with its decision, then answered or dropped, and never answered once
a fence has found it open. The mapping reads the request of a log entry from
the command rows.

### Director

Identities stand for pairs of namespace and event id. The state is what
`snapshot()` returns plus the muted and cancelled flags (the counter of turns is
kept and, as in the code, never compared: `test/unit/director.test.ts:115`);
`Reload` is what `ios-web/room-runtime.js` does for every message: restore from
the stored snapshot and mute again from the database. `SelectionRestores` and
`SeenRestores` collect the checks of `#restore`, so that `SnapshotRestores` says
that none of them can fail. `age` and `recent` are history.

### ProviderCredentials

One connection: ids are independent, and `serializeCredentialMutation` makes
mutations sequential, so a single operation record `op` with the await it
stands at is enough. `vault[r]` is the stored secret of revision `r`: absent,
whole, or torn (a file truncated or written in part). Each await of a handler
may succeed, fail without effect (`Abandon`), or take effect although it is
reported as failed (`WriteUnconfirmed`, `DropUnconfirmed`: the keychain
helper's answer is lost). A crash at an await is the same as a failure, for
handlers keep nothing else. A user may remove a keychain item between requests
(`StoreLoses`, external). Answers 400 and 403, which are given before anything
is read, are left out, and so are the readers of secrets.

### ProviderBindings

A profile is the sequence of its revisions. `Create`, `Replace` and `Retire`
are connections, here without their secrets; `BeginTest` and `EndTest` are the
test of a cloud model with the observation it stores; `SaveModel`, `BindCloud`
the two routes of those names; `Probe` and `BindLocal` the two halves of
selecting LM Studio, with anything in between. `Ask`, `GiveUp`, `AskFails` and
`Complete` are a turn: the decision is resolved or read back and pinned, and
the resolver of `routes.ts:680` returns a provider only for a cloud model or for
the one LM Studio model the server is configured with; `asked` is the model that
is called. Where it refuses (`Served` fails), the row keeps its decision and the
turn may be retried. `Restart` is a server started with another LM Studio model:
rooms bound to the former one then resolve and yet are silent until they are
bound again, which is what `LocalRoomSpeaks` says and
`test/integration/provider-api.test.ts:648` tests. A server without LM Studio
is left out. `OwnIds` says whether clients keep off the id that the server makes
for LM Studio's profile of a room; the finding about `LocalSelectionIsLocal`
(section 4) needs one that does not.

### SecureTransport

`call[c]` is what `withTotalDeadline` and `perform` know of a call: its stage,
whether it holds a slot, its socket, the DNS answer, the address picked, the
peer the key was sent to, the response and what the caller was told. An address
is a family, a number and whether it is public; a response is its kind. The
slot is given back by the socket's close, which may come long after the caller
was answered. Bytes, certificates' details and JSON are left out.

### EventStream

An event is its sequence number. One channel and its current connection;
clients do not share anything but the log. `generation` grows at each start and
stop, and each generation has at most one replay under way, whose answer may
arrive after its generation has ended. A page of a replay is committed in one
action because the loop has no await in it. `FinishReplay` ends a replay on an
empty page and attaches if a reconnection waits. On the server, `Enqueue` is
`poll` and the flush that follows it: a flush writes a nonempty prefix of the
queue and may leave the socket full. `Break` (external) is any failure of the
connection; a prefix of what is on the wire still arrives. The branches for a
gap are in the model, although `NeverGap` shows that they are never taken.
The back-off delays and the connection label are left out.

### RoomLibrary, RoomAuthority and RoomPage

`RoomLibrary` has one action per command, since each is one transaction; a
client may repeat a command or reuse its id. `watched` and `told` follow the
answers to any one command. `RoomAuthority` is the sequence of selections, to
which the ledgers are mapped.

`RoomPage` has three operations that wait for the server, at most one of each
kind: choosing a room, mutating one (a message or a control), starting one.
Each is at one of the awaits `Stages` names; `Serve` is the server's answer,
`Lose` a lost request or answer, `Selects`, `Mutates` and `Casts` the page's
next step. `open` counts the channels started per room, so that a second
stream or a forgotten one shows. `Elsewhere` is another tab. Rendering
and the text of statuses are left out; `unknown` is
`roomStatusUnknown`, the page's admission that it does not know.

### ProviderPanel

`ui` is what the dialog shows and the user has entered, `mine` and `known` are
`providerConnection` and `providerBinding`, `act` is the one action in
`pending` and `load` the readings that opening the dialog began. `Click` reads
the fields and sends the first request, `Serve` is the route that takes it, and
`ConnectionAnswered`, `ModelsAnswered`, `ProfileAnswered` and `BindingAnswered`
go on with what the page holds by then, not with what it held at the click:
that is how the code reads it. `Rendered` is the end of every handler, where a
disclosure that is not for what is shown is taken back. `Elsewhere` is another
tab. What fills the list of models and the text of statuses is left out.

### Lifecycle

Four names, each with a tree: a database (committed rows, schema version,
credential references), the disposal marker, the writer lock. A rename moves
the tree with its lock. Backup, restore and purge are the sequences of their
file operations; each may fail or die between any two, and the server may be
started, stopped, upgraded or downgraded meanwhile. SQLite's own recovery is
taken for granted.

### PackInspection, PackRuntime, PackArchive, PackReport

`PackInspection` follows a request through the semaphores of route, service and
sidecar. `Disconnect`, `Deadline` and `Close` abort it anywhere. A child ends by
itself, by SIGTERM or by the SIGKILL that follows; with `Descendants` it may
leave a process that holds its pipe. `PackRuntime` is the life of the two
directories: start, janitor and close in steps between which the process may die
(`DiesAt`), and each of which may fail (`FailsAt`) and then refuses the start or
ends the close. The janitor refuses a start that finds more than `MaxEntries`
names, those included that an earlier one moved aside and did not come to
remove: their new name is one it passes over, so nobody removes them any more.
What is left at a start either bars it, and then every later one
(`BarredForGood`), or does not. Foreign entries, links in place of directories
and a file left in the working directory are left out. `PackArchive` is an
algorithm: the validator's checks of structure, paths and roles over all small
archives; a reference definition says what the accepted ones look like.
`PackReport` counts diagnostics through two limits, the validator's exit code,
the sidecar's judgement and the service's second look; `Misbehave` is a
validator that prints something else.

### Launcher

Per launch the outer process, the supervisor and the server, with the lifetime
pipe, the armed pipe and the readiness socket as conditions on their states.
The server's start opens five resources in order; `closeResources` is a loop
that the startup's `catch` and the signal handler each run as a fiber of their
own, which is how one overtakes the other. `Faults` says which processes may be
killed. The supervisor leaves SIGPIPE at its default (`main.swift:1283`), so if
the launcher is gone when it writes to the armed pipe (`main.swift:809`) it dies
with the server just spawned (`Spawn`). That server finds nobody to prove
itself to and closes. `Stuck` servers never finish closing, and one of these is
then left running: `LeftHanging`, the one exception of `QuitStopsServer`.
`Detached` starts a credential helper in a session of its own.

### Publication and Bundle

In `Publication`, `dir` says which inode each name of the output directory
binds. A publisher runs one helper call after the other; between them others
rename, create or exchange things, the output directory itself included
(`MoveParent`). Quarantine is two steps. A helper call may die. In `Bundle` a
file is its content, code signature and mode, one file per kind the verifiers
distinguish; `Assemble`, `Sign`, `Notarize`, `Archive`, `Extract`, `Launch` and
`Serve` run the code's mode changes and verifiers in their order, and a tree at
rest may be changed in any way between them. What codesign seals is external.

### SourceEvidence

The control plane (`at`) is the workflow: `Read` and `Settle` look for two equal
snapshots in a row, `Count` lists the account's processes, and after the run
`Recount`, `Read`, `Last` and `Finalize` do it again and judge. The harness
(`todo`) is `runEvidence` with its `finally`; `srv`, `signalled` and `exit` are
the launcher and the server it starts. Processes (`live`) write outside the
declared root at any time, start others and outlive what started them, and so
do `Agents`, which belong to the account and to no source. A snapshot is read a
path at a time. What the commands build, and the fields of the evidence, are
left out: a command is as expected or not.

### PhoneTurns and TurnContract

`row` is `generation_commands`; `call[k]` is one `provider.generate`; `entry` is
the registry's task of a command; `flow[f]` is a run of the page's submit, retry
or abandon handler, one step per await. Bridge calls run one after the other;
`Expire`, `NetworkEnds`, `Cancellation`, `Resign`, `PathLost` and `Kill` run
beside them. `Busy` lets other rooms' requests fill the slots so that a call
queues; `Demo` opens the demonstration room. The registry's epoch is a flag,
"still the one this call read". Texts and the director's choice (only silent or
not) are left out. `TurnContract` keeps a transcript,
the open command and how often it was asked.

### PhoneRooms

`made`, `current`, `stored` and `lines` are the tables of rooms, the current
room, the drafts and the posted texts. `page` is what the screen shows, `flow[f]`
a running handler and `queue` the bridge calls it and the writer of drafts wait
for: the native queue serves them in order, so a step is the head's call served
and its handler run to its next `await`. `flow[f].same` is the comparison of
view tokens. `writer` is `drainVisibleDrafts` with the draft it writes and the
one that waits. `Lose` and `Return` close and reopen the database, `Relaunch` is
a killed process and `boot`. `typedIn` is a history: it remembers the room a
text was typed in.

All its rooms are demonstration rooms, whose turn is one batch in the database;
provider rooms and their commands are `PhoneTurns`. The privacy and the provider
view, the list's own query and what is announced are left out, `boot` is one
step, and the answer of a lifecycle status is whether local writes are allowed.

### PhoneCredentials

A native operation holds one lock and has a list of effects still to apply
(`holder`, `work`); a kill falls between any two and each may fail. The page's
save and removal are sequences of bridge calls. `Disturb` is a foreign change of
the Keychain, `Reinstall` a new database under an old Keychain. Mutation ids
are numbers handed out in order; the key itself is its mutation.

### ProviderTasks

The registry's lock makes a body one step and returns callbacks that run later
(`cancels`). A call loads, installs and starts in one bridge call unless it
queues. `Responds`, `Receives`, `Redirects` and `Completes` are the session
delegate; `Deadline` and `Expire` the timers; `Lose` and `Regain` the
lifecycle; `ReplaceKey` and `RemoveKey` the credential under a waiting call.

## 3. What TLC checks

Twelve runs, two of which are violated on purpose (section 4).

| Run | Bounds | Question |
|---|---|---|
| `room_claims` | 2 personas, 2 services, 1 request, 1 control, lease of 2 ticks, 2 rebinds, 1 selection move, 1 crash or close | do two services that fight over one request admit and answer it once, from the claim and the provider decision in force? (691 thousand states) |
| `room_fences` | 1 service, 2 requests, 2 controls | is every step around two generations and any two controls one that `RoomContract` allows? (114 thousand) |
| `room_liveness` | 1 persona, 2 services, 1 request, 1 control, 1 outage | does a retried request settle, and does close resolve? (47 thousand) |
| `credentials_failures` | 2 keys, 2 mutations, 4 revisions | are secrets safe through every failure, and does repeating a mutation finish it? |
| `stream` | pages of 1, queue of 1, 4 events, 3 generations | is the hand-over without gap, the queue bounded, and every event delivered? |
| `providers` | below | bindings and transport of the desktop, key and lists of the iPhone (1.1 million) |
| `desktop` | below | room library, page, model setup, director (339 thousand) |
| `packaging` | below | packs, launcher, data directory, release, clean build (2.0 million) |
| `phone` | below | turns, rooms and drafts of the iPhone (1.1 million) |
| `liveness` | below | what has to happen in the components of the last four (73 thousand) |

The instances of the unions:

| Instance | Bounds | Question |
|---|---|---|
| `MCProviders!Chain` | 1 room, 1 cloud connection, 1 profile, 2 model names, 1 client, 2 revisions each | does a commit fit what is in force and the model that was called, and when is a local room answered? |
| `MCProviders!Races` | 2 clients, LM Studio only, 3 revisions | do two clients that probe at once each keep what they were told? |
| `MCProviders!Sockets` | 3 calls, 1 slot, 1 place in the queue | is a slot or a wakeup ever lost, or a socket opened too many? |
| `MCProviders!Replies` | 1 call, every kind of DNS answer, peer and response | where does the key go, and what is the caller told? |
| `MCProviders!Keys` | 2 revisions, 3 saves, 2 faults, 2 kills or reinstallations | do SQLite and Keychain agree wherever a call can look? |
| `MCProviders!ListSlots` | 3 lists, 1 slot, 1 place in the queue | is a slot idle beside a queue or a request unowned? |
| `MCProviders!ListWaits`, `!ListAnswers` | 2 lists while the key changes; 1 list, redirects and oversized bodies, 2 losses | what is sent, and what is the page told? |
| `MCDesktop!Ledger` | 4 rooms, limit 3, 2 ids, 3 revisions | are answers final and selections one sequence? |
| `MCDesktop!Casts` | 3 rooms, mutations and casts, 3 revisions, 2 losses, 1 hiding | does the page end on the selected room, with one stream, and when does it listen elsewhere? |
| `MCDesktop!Switches` | 3 rooms, selections and mutations, 1 loss, 3 operations | does the transcript ever mix rooms? |
| `MCDesktop!Tests`, `!Binds` | 1 connection, 1 model, 4 actions and 2 openings; 3 actions and 2 rooms; 1 change elsewhere | is what the page binds tested and disclosed, when the dialog is opened again or the room switched? |
| `MCDesktop!Secrets`, `!Setup` | 1 connection, 2 openings; 2 connections and LM Studio; 2 actions and 1 loss | is a key sent only under its disclosure, and stored when the page says so? |
| `MCDesktop!Core` | 3 personas, 3 identities, a window of 2, 4 accepted human events | turns, window, snapshots, agreement of the two schedulers |
| `MCPackaging!Slots` | 3 requests; 3, 2 and 1 slots, queue of 1 | are slots, directories and children accounted for through every abort? |
| `MCPackaging!Orphans` | 2 requests, 1 slot, validators that leave processes | the same, when a child's pipe stays open |
| `MCPackaging!Closes` | 3 uploads for 2 entries, 2 deletions per start, a janitor that fails | are the directories cleaned up, and what bars a start? |
| `MCPackaging!Crashes`, `!Halves` | 3 uploads for 2 entries; 1 deletion and every step but those around the marker dies or fails; 2 deletions and only these do | the same; are uploads always owned, and does a start refused for its marker follow from a death there? |
| `MCPackaging!Layout`, `!Names` | 3 members over 3 bytes; 2 members over colliding names | does an accepted archive hide a byte, miss an asset or collide with itself? |
| `MCPackaging!Counts` | 3 diagnostics, 7 bytes, 4 errors, 1 warning | do counts and verdict survive both limits? |
| `MCPackaging!Locks` | 2 launches, every kill and signal | is there one writer, and a page only for a proven server? |
| `MCPackaging!Roots` | 1 key, 1 row, 2 schema versions | is the open tree safe from backup, restore, purge and their deaths? |
| `MCPackaging!Winner` | 2 assemblies, 1 signing step, 2 dead helper calls | does the winner's result stay? |
| `MCPackaging!Meddled` | 1 assembly, 1 signing step, 2 strays, 4 interferences, 1 dead call | is anything lost, misattributed or left behind? |
| `MCPackaging!Release` | 3 changes at rest | does an untouched app pass, and a changed one never run as released? |
| `MCPackaging!Clean` | 2 paths, 1 command, 1 stray process, 1 agent, 2 snapshots, 1 write | does an accepted run leave anything behind, or a server that did not close? |
| `MCPhone!Taps` | 1 command, 2 calls, 2 handlers, 1 loss or kill | what do two handlers on one command do to it? |
| `MCPhone!Turns` | 2 commands, 2 calls, 1 handler, busy slots, demonstration, 2 revisions | is every step one of `TurnContract`? |
| `MCPhone!Moves`, `!Creates` | 2 rooms, 2 handlers, 1 text, 1 line; opening, cancelling, reprojecting, sending; creating the second room | does a handler that returns late show, keep or post anything in another room? |
| `MCPhone!Drafts`, `!Losses` | 2 rooms, opening, blur; 1 room, reprojecting, sending; 1 loss or kill | the same while the database goes |
| `MCLiveness` | 2 calls, 2 inspections or 2 lists for one slot and one place in a queue; 3 rooms with all three page operations, 1 loss; 1 launch whose processes may die or whose server never closes; 1 command with 2 attempts; 1 save and its removal with 1 fault and 2 stops | does a silent network, a validator or an upload that never ends, a kill or a lost answer leave anything waiting for ever? |

The bounds let the interesting cases happen. Two services and three owners are
enough for a claim to be lost, taken over and won back; a lease of two ticks
distinguishes a renewed claim from one about to expire. A window of two with
three identities evicts. Three uploads exceed a bound of two entries by the
uploads alone as well as with one that a janitor left aside. Three personas are
needed to tell a round robin from an alternation. Four revisions let the residue
of a failed replacement appear next to two more. A queue of one overflows with a
single event behind a full socket; three generations are start, stop, start, so
an answer may arrive in the second run of the channel. With one slot and one
place in a queue, a third call is refused, the second waits, and each way of
leaving is met in both places; this holds for transport, registry and inspection
alike. Three rooms let a page be late by two selections. Two page handlers and
two calls are a double tap; one command is enough for it because commands of a
room follow each other, which `MCPhone!Turns` has. Two schema versions are an
upgrade and a downgrade. Two revisions and three mutations let a save begin
beside a removal that failed. Four interferences are a directory exchanged and
exchanged back around two publishers; three changes at rest are one for each of
contents, modes and signature. The safety properties that are proved hold for
all bounds anyway.

A system may stop where the code may: a stopped page at the end of the bounded
log (`CHECK_DEADLOCK FALSE` in `MCEventStream.cfg`), and in the unions, by the
step `Rests`, a page with no operation left, every call of transport or
registry answered, every launch over, every revision of a binding used up, a
phone's room with every command ended, a tree that a verifier refused, a clean
run that was judged, a validator whose pipe is held open. `RoomPage`'s own run
ends at its violation. Room service, director, credentials, room library, data
directory, inspection without such processes and its directories, archive,
report, publication and the phone's credentials are checked for deadlock: each
always has a next step or names its end (`Done`, `AllEnded`).

### Properties

Every run checks a few properties; most gather what a component promises, and
each conjunct has its own definition with its statement in words.

* `room_claims`. `RequestsSound`: one human message, one decision and at most
  one reply per request (`AdmittedOnce`, `RepliedOnce`), and what was pending at
  a pause, stop or mute is never answered, also not after a resume
  (`FencedNeverSpeaks`). `RowsSound`: `SnapshotMatchesOutcome`,
  `ClosedHoldsNoClaim`. `CommitsInForce`: a reply is committed only from a
  generation that ran under the claim in force (`NoResultFromOlderClaim`) and
  under the provider decision that is current (`CommitsUnderCurrentProvider`).
  `StoredForever`. `room_fences` and `room_liveness` add `KeepsContract`,
  `PendingSettles`, `CloseResolves`.
* `credentials_failures`. `StoreFitsRow` (`ResidueBounded`,
  `SecretMatchesMutation`), `MutationsSound` (`SecretKept`,
  `AnsweredSecretStored`, `OldSecretsRevoked`), `RetryFinishes`.
* `stream`. `HandoverSound` (`NeverGap`, `QueueBounded`, `OneWayOn`),
  `OldReplayIgnored`, `Delivered`.
* `providers`. `BindingsSound` (`CommitsInForce`, `LocalRoomSpeaks`,
  `AnswersHold`), `TransportSound` (`SocketsWithinLimit`, which counts sockets of
  callers answered long ago, `NoIdleSlot`, `KeyGoesToVettedPeer`); on the iPhone
  `KeysSound` (`ReadyHasKey`, `RemovedIsGone`, `OneKeyOnly`) and `ListsSound`
  (`NoIdleSlot`, `NoOrphan`, `ModelsAreWhole`); and `StepsSound` for
  `ReplacedIsRenewed`, `SelectedSpeaks`, `NoResultAfterTheEnd`,
  `KeepsTombstones`, `SendsItsKey`, `ShowsInTime`.

  A room bound to LM Studio resolves through restarts, but is answered exactly
  while the model it was bound with last is the one configured
  (`LocalRoomSpeaks`); whoever is told that LM Studio is selected has such a
  room (`SelectedSpeaks`).
* `desktop`. `PageSound` (`AnswersAreFinal`, `LedgerTellsSelection`,
  `ListIsWhole`, `StreamsHeld`, `RestsOnAuthority`, `RestsStarted`,
  `TranscriptOfOneRoom`, `BindsWhatWasTested`, `AcceptedKeyIsStored`),
  `KeepsAuthority`, the director's `DirectorSound` (`SnapshotRestores`,
  `SeenAgrees`, `CooldownNeverSilences`), `RoundRobin`,
  `DuplicatesOnlyBeyondWindow` and `AgreesWithRoomService`, and `StepsSound` for
  `NeverBack`, `StaysListening`, `StoredUnderDisclosure` and
  `BoundUnderDisclosure`.

  What is said of the page is no more than it keeps. A page that starts rooms
  ends with some channel started (`RestsStarted`); that it is the channel of the
  room it renders (`RestsListening`) is violated, and `StaysListening` says by
  which step alone. Such a page never goes back to an earlier selection as long
  as its user chooses no room from the list meanwhile (`NeverBack`); with such
  choices `NeverGoesBack` is violated. Section 4 has both.
* `page_late`: `NeverGoesBack`, violated.
* `packaging`. `InspectionSound` (`SlotsMatchHolders`, `DiskBounded`,
  `CloseAfterRequests`, `RootsGone`, `UploadsOwned`, `OldOnesSwept`,
  `AsideOnlyBetween`, `MarkerSurvives`, `RefusedOnlyIfBarred`), `PacksSound`
  (`NoHiddenBytes`, `Unpacks`, `ExactlyDeclared`, `CountsExact`, `VerdictTold`,
  `WorkIsAnswered`), `LauncherSound` (`OneWriter`, `OpensProvenServer`,
  `NoOrphan`), `RootsSound` (`ServedTreeIntact`, `PurgeNamesAll`,
  `RefsHaveKeys`), `ReleaseSound` (`WinnerStays`, `NothingIsLost`,
  `PublishesItsOwn`, `FailedIsWithdrawn`, `UntouchedIsAccepted`,
  `RunsWhatWasReleased`, `SchemaFollowsSignature`, `LauncherIsAsStrict`,
  `AcceptedIsClean`, `AcceptedServerClosed`), and `StepsSound` for `AbortWins`,
  `BarredForGood`, `AsideStays`, `ProofMeansServing` and `RestoredAsRecorded`.
* `phone`. `TurnsSound` (`AnswersLastAttempt`, `EpochSentOnce`,
  `FailedNeverLeft`, `InFlightOwned`; `DraftsStayInTheirRoom` and
  `TranscriptIsOfTheRoom` of the page around them), `KeepsContract`, and
  `StepsSound` for `KeepsEnded`, `NavigationHolds`, `LinesStayInTheirRoom`.
* `liveness`. `DesktopSettles` (`EveryCallIsAnswered`, `SlotsReturn`, `Unlocks`,
  `RequestSettles`, `CloseResolves`), `LaunchesSettle` (`LaunchSettles`,
  `QuitStopsServer`, `RunsWithLauncher`), `PhoneSettles` (`Settles`,
  `RemovalCompletes`, `EveryCallIsAnswered`, `EveryRequestEnds`).

### Refinements

* `RoomService` implements `RoomContract` (`room_fences`, `KeepsContract`);
* `RoomLibrary` implements `RoomAuthority` (`desktop`,
  `KeepsAuthority`), which `RoomPage` takes for the server;
* `PhoneTurns` implements `TurnContract` (`phone`, `KeepsContract`: the
  contract's formula, asked of the behaviours that follow `MCPhone!Turns`).

### Fairness

* Room service (`TimelySpec`): weak fairness of a run's next step, for the
  event loop is not blocked and `generationTimeoutMs` ends a call that hangs;
  strong fairness of resolving and of the provider's answer, for a provider
  that is asked for ever answers once; of the client's retry; weak fairness of
  the restart of a closed service and of time. `TimelyTick` lets time pass only
  if no live run is about to lose its claim: the renewal interval is a third
  of the lease. Without these a provider that always fails keeps a request
  pending for ever, which is what the code intends.
* Credentials (`FairSpec`): a step of the store that is tried for ever succeeds
  once. `RetryFinishes` is about behaviours in which the client from some point
  on sends nothing but what failed (`Repeats`). These are assumptions on client
  and store, the ones behind "recoverable by retry".
* Stream (`FairSpec`): weak fairness of the timer, the server's polling
  interval, drain, connect and the two callbacks; strong fairness of the answer
  to a replay and of its processing.
* Transport, registry, inspection (`LiveSpec`, `LiveSpec`, `Spec`): weak
  fairness of continuations and timers, of a destroyed socket's close and of
  SIGKILL. Nothing is assumed of the network, the provider, an upload or a
  validator.
* Page (`FairSpec`): the server answers what reaches it and the page acts on
  what was answered; a lost request ends in an error, as `fetch` does.
* Launcher (`FairSpec`): the launcher's deadlines, the supervisor's polling
  loop and the server's startup code run; closing is fair except in `Stuck`
  servers.
* iPhone room (`FairSpec`): page handlers, bridge calls, the request's timer,
  callbacks, the lifecycle fence, the reopening of the database and the page's
  new projection. Nothing is assumed of the provider.
* iPhone credentials (`LiveSpec`): the user comes back, the page boots and
  reads the provider's readiness, and an operation that holds the lock goes on.

`MCLiveness` states the last six again, for the instance in focus: one that is
not followed takes no step and owes none.

## 4. Findings

All are disagreements between a document, a comment or a test and the code.
Two are kept as runs that TLC must find violated; `PROJECT.json` quotes the
lines they contradict.

* `page_late`: "a late stale request cannot overwrite newer authority", and a
  mutation carries "the selected room's exact revision"
  (`docs/ROOM-LIBRARY.md:5`). The room list stays enabled during a start, whose
  answers are taken whenever they arrive (`public/app.js:1780`, and after a
  refusal line 1797): after a later choice of the same user the page goes back
  to the earlier room and revision, and what it sends is refused.
* `credentials_cleanup`: a test is named "disable and delete retries finish
  cleanup". A client that repeats the delete with the revision the list now
  shows, as the page does, is answered 200 while the secret stays.

The others are properties that the modules state and TLC violates with the
constants in the second column; unless noted, the rest are as in the unions,
smaller where that is enough. No run repeats them.

| Property | With | The code, and what it contradicts |
|---|---|---|
| `ProviderBindings!LocalSelectionIsLocal` | `OwnIds = FALSE` | `src/api/provider-routes.ts:500` takes whatever model profile has the id made for the room, also one that refers to a cloud connection. "LM Studio selection creates an append-only local binding" (`test/integration/provider-api.test.ts:581`) |
| `RoomPage!RestsListening` | select, mutate | `public/app.js:1520` renders the room of a mutation although another was chosen meanwhile, whose channel stays open. "The UI closes the previous room's event channel and opens room-specific replay and stream routes." (`docs/ROOM-LIBRARY.md:5`) |
| `RoomPage!RestsListening` | select, 1 loss | `public/app.js:1576` lists the rooms before it opens the channel; if the list fails, none is opened. The same sentence |
| `RoomPage!RestsListening` | cast, 1 loss | `public/app.js:1000`: a room is started and its channel opened, the list of rooms is lost and another tab selects the former room. That is taken for a start without effect: the former room is rendered and the new one's channel kept. The same sentence |
| `Lifecycle!NoStrandedKey` | | `src/db/lifecycle.ts:462` removes the tree with its references; a failure part way, or a death before the deletions at line 473, leaves keys that no later purge can name. "a filesystem race or removal failure therefore preserves the credential references" (`docs/DATA-LIFECYCLE.md:50`) |
| `PackInspection!TimeoutEndsSubtree` | `Descendants = TRUE` | `src/personas/validator-sidecar.ts:156` signals nothing once the direct child has exited, so a process that holds its pipe keeps the slot. "request timeout signals their subtree" (line 280) |
| `PackRuntime!MarkerSurvives`, were its exception dropped | `DiesAt = Halfway` | `src/personas/persona-pack-inspection-runtime.ts:195` makes directory and marker by two calls; a crash between them refuses every later start (`BarredForGood`). `docs/PERSONA-VALIDATOR.md:39` names only a broken validator |
| `PackReport!DiagnosticsBounded` | | `src/greenroom_persona/models.py:53` limits errors and warnings separately. "At most 64 collected diagnostics" (`docs/PERSONA-VALIDATOR.md:142`) |
| `Launcher!ReleasedLast` | kills of the launcher | `src/server.ts:73`: two closings at once release the writer lock while one still closes. "release after all resources close" (`docs/plans/2026-09-01-downloadable-alpha-packaging-spike.md:171`) |
| `Launcher!NothingSurvives` | `Detached = TRUE` | `src/providers/keychain-helper-client.ts:240` starts the helper as a session leader, which outlives a killed group. `main.swift:694` of the launcher says that shipped programs "must never do that" |
| `Launcher!RunsWithLauncher` | kills of the supervisor | `main.swift:1340`: a killed supervisor leaves the server running. "The application runs only while its launcher is running." (`docs/adr/proposed-downloadable-alpha-packaging.md:68`) |
| `Publication!CompetitorPreserved` | 1 assembly, 1 stray | `packaging/macos/assemble-app.mjs:455` reads the identity of its stage by name; a directory put there before is deleted as its own. "competitor-preserving quarantine checks across every race interval" (the packaging spike, line 294) |
| `PhoneTurns!FailedNeverLeft` | `Busy = TRUE`, 2 handlers | `GreenRoomDatabasePlugin.swift:1036`: a late callback marks a command failed whose request is on the network. "Once a retained task starts, every failure or lifecycle cancellation is uncertain" (`docs/contracts/iphone-alpha-native-bridge.md:167`) |
| `PhoneTurns!Settles` | `Demo = TRUE` | `GreenRoomDatabasePlugin.swift:1575` refuses the page's statements during the demonstration, and nothing settles the command after it. The same sentence |
| `PhoneTurns!PreparedIsNotSent` | | `ios-web/room-runtime.js:1316` says "prepared and has not been sent" during the request |
| `PhoneTurns!RetryWarns` | 2 calls | `GreenRoomDatabasePlugin.swift:1032`: a retry that expires as it begins loses the warning about a possibly processed request. `docs/plans/2026-09-05-standalone-iphone-alpha.md:276` promises it |
| `PhoneTurns!InterruptedWasSent` | 1 kill | `GreenRoomDatabasePlugin.swift:997` commits before `task.resume()`. "only a task actually resumed can become `interrupted`" (the bridge contract, line 134) |
| `PhoneCredentials!SaidIsGone` | | `ios-web/room-runtime.js:1348` leaves "Retry removal" enabled during a save; the page then says a key was removed that is still there. "stays visibly pending" (the bridge contract, line 107) |
| `PhoneCredentials!FreshInstallIsClean` | | `GreenRoomCredentialPlugin.swift:26`: opening a fresh installation's database leaves old keys. "deletes it as an orphan during the first successful database-open reconciliation" (the bridge contract, line 113; line 103 says the opposite, which is what the code does) |

Eight observations are no findings, because nothing in the repository claims
otherwise. A request pending when the selection moves can never be completed:
its retry is refused at the old revision and has another digest at the new one
(`src/runtime/room-service.ts:620`). A replay that the page asks for itself
leaves the label at "catching-up" while the stream stays open
(`public/app.js:560`). Testing another model of a connection makes a turn under
way stale (`src/db/provider-bindings.ts:183`). And the registry of provider
calls and the database take each other's locks in both orders
(`GreenRoomProviderPlugin.swift:1060`, `GreenRoomDatabasePlugin.swift:235`); the
model has the bodies as single steps and does not show the deadlock that two
threads could make of it. The model setup names a profile by connection and
model, so a second room cannot be bound to a connection through it: the profile
exists, and the route answers 409. A binding whose second request failed has
the same effect on its room. And `room.sessionId` is read again after the first
of the two requests, so that a binding asked for in one room may land on the
room shown by then; `ProviderPanel` has these behaviours, with the tests and the
disclosure that still hold. On the phone, a line whose sender lost the view
before the field was persisted is taken from the field as it is then
(`ios-web/room-runtime.js:1939`): the exception in `LinesStayInTheirRoom`.

## 5. What is proved

Every theorem holds for all constants that satisfy the named assumptions
(`NAssumption`, `ConstantsAssumption`, `DirectorConstants`,
`CredentialAssumption`, `StreamAssumption`, `RoomLibraryConstants`,
`SlotsAssumption` with `KindsAssumption`, `ProviderBindingsConstants`,
`RoomsAssumption`, `BoundsAssumption`), hence for any number of services,
requests, personas, revisions, generations, rooms, callers and handlers of the
page and any limits. `DirectorConstants` and the last six are definitions, which
the theorems take as hypotheses and the unions assume of their instances.
`ProviderBindingsConstants` says also that no cloud connection and, with
`OwnIds`, no saved model has an id that the server makes for LM Studio's
profiles.

* `RoomServiceProofs`. `TypeCorrect`, then the invariant `IInv`: the shape of a
  command row in each state, the log positions of each admitted request, the
  uniqueness of replies, and for fenced requests that their generation is older
  than the room's or that they are complete without a text. The last part is
  why fences hold: a mute and an unmute restore the flag but never the
  generation. From `IInv` follow `RequestsAdmittedOnce`, `RequestsRepliedOnce`,
  `FencesHold` and `RowsStoredForever`. Most actions leave all of these
  variables alone or change only claims, so the proof first shows two frame
  lemmas and then treats `PrepareNew`, `CompleteCommit` and the controls.

  `RowsAreSound` and `CommitsAreInForce` are about runs in flight, of which
  `IInv` says nothing. `ClaimInv` adds what a run may rely on while the row
  still names it: no other claim was taken since it began to generate, and the
  decision it was given is the one the row has pinned. It has to add as well
  that no two runs share an owner and that a completed row names none. A claim
  that expires and is taken by another service makes the hypothesis false, not
  the invariant.

  `ContractKept` is the refinement: `Transcript`, `Open`, `Ended` and `fenced`
  of the mapping make one step of `RoomContract` or none. The difficulty is
  the mapping itself, which looks each log entry's request up among the rows;
  `EntryKept` and `RequestNamed` show that the request found never changes,
  from the log positions in `IInv`.
* `DirectorProofs`. `DirInv` links the fallback index with the latest selection
  and the selections with the number of accepted events; both are needed to see
  that no check of `#restore` fails. `SeenSetsAgree` and `WindowHolds` rest on
  the seen order being without repetition, and on the age of each identity
  being its distance from the end of that order. `SchedulersAgree` compares the
  two schedulers through the scan lemmas of `TurnsProofs`.

  `TurnsGoRound` is `RoundRobin` for any roster. That a scan visits everybody
  before it comes back would be an induction over turns; `StretchInv` carries
  it instead. It says of any two turns of an undisturbed stretch that everybody
  was visited between them, or everybody who stands between their speakers was
  and the scan has not come round.
* `CredentialProofs`. `CredInv` says what row and store are known to be at each
  await of each mutation: the usual invariant of a program counter. All five
  safety properties follow.

  Its second half is about `PhoneCredentials`, for any number of revisions,
  reservations, faults and stops. Neither `PhoneReadyHasKey` nor
  `PhoneOneKeyOnly` is inductive: in the middle of an operation row and item
  may disagree, and what makes up for it is still to be done. `Works` therefore
  relates the two stores to the rest of the operation: a row will be marked
  ready only if its key is there or is about to be written, and is not about to
  be deleted; it will be marked missing only if the key is gone or will be; and
  while one of another revision is left, the operation will delete it. `Shape`
  is what allows to take the head of that rest: deletions first, the write or
  the tombstone only as the first effect, the mark as the last. So every effect
  keeps `Works`, and what an operation leaves that was cut off, by a kill or by
  a failing effect, is what `Stores` says with nothing left to do. An operation
  begins with `Works` because of what it read under the lock
  (`ReconcilingFits`, `PreparingFits`, `CompletingFits`, `DeletingFits`), a
  reconciliation for any disagreement and in any order of the inventory
  (`OrderHasAll`). `PageFlows` and `LockFlows` say who may hold the lock, and
  that while an alert is shown no save is about to present another. From the
  invariant follow also `PhoneRemovedIsGone` and, with the effect that is
  applied, `PhoneTombstones`.
* `EventStreamProofs`. `StreamInv` says that wire and queue together are a run
  of consecutive events that ends at `lastQueued` and begins at or before the
  event after the cursor, that no replay or connection is ahead of the log, and
  that exactly one way on exists. `HandoverHasNoGap`, `QueueStaysBounded`,
  `AlwaysOneWayOn` and `OldReplaysIgnored` follow.
* `RoomLibraryProofs`. `LedgerInv` says that the accepted entries of the two
  ledgers have the revisions 1 to the current one, each once, and that the last
  names the selected room (`LedgersTellSelection`). `OneOutcome` is what
  `OutcomesAreFinal` needs beyond it: a command refused without leaving an
  entry can never be accepted later, for the revision it expects is over or the
  library stays full. From `LedgerInv` also follows the refinement
  `LibraryKeepsAuthority`: the sequence of selections read from the ledgers is
  the old one or the old one with one room more.

  Its second half proves all five properties of `PhoneRooms`, for any rooms,
  handlers and kinds of handlers. A property such as `DraftsStayInTheirRoom`
  speaks of what is stored and shown; it is not inductive, since a handler
  carries a room, a draft and a transcript from await to await while the user
  goes on. `FlowsFit` says at each await what a handler still knows: what it has
  read and not yet shown belongs together, and as long as its view is `same` it
  belongs to the room on the page. `DraftsFit` says it of the page, of the
  database and of the writer's present and next draft. Each step shows both of
  the handler that moves and of all the others, which keep what they know
  because a step that changes the page makes their views old. From the two
  follow `PhoneDrafts` and `PhoneTranscript`, and with the step itself
  `PhoneNavigation` and `PhoneLines`. `PhoneTyping` needs `QueueFits`: the
  bridge's queue is without repetition and holds one call of each running
  handler, so its length is their number.
* `ProviderProofs`. `Sound` is a predicate of calls, count and queue and
  not of the variables, because an action often changes a call and then, in the
  same step, gives its slot away: the invariant is shown of what was written
  before the release, and `ReleaseStep`, `AnswerStep` and `SettleStep` carry it
  over the rest. It says that the count is that of the holders, that a queue
  means a full count, that an open socket has a slot, and that a call which
  may still send the key has picked from a vetted answer. The queue is without
  repetition, which an abort in its middle relies on. From it follow
  `SocketsAreBounded`, `SlotsAreCounted`, `KeyGoesWhereVetted` and, for the
  step that answers, `ResultsComeInTime`. `PickedFirst` is the lemma about the
  address policy: a nonempty set of public answers has exactly one first
  element, so the order of the resolver's list makes no difference.

  Its second half is about `ProviderBindings`. What carries it is that the
  chains of revisions only grow (`ChainsStep`): what a model or a binding names
  stays what it was (`Referring`), what a turn has pinned is a revision the
  chain has (`Pinning`), and an answer names the revision made with it
  (`Telling`). So a commit that compares binding, connection revision and
  fingerprint has compared the whole decision (`BindingsCommitInForce`), a
  client keeps what it was told (`BindingsAnswersHold`), and a revision that is
  not the newest never becomes it again, which leaves a room that does not
  resolve two ways to do so (`BindingsReplacedIsRenewed`; no case of `Next` is
  needed for it beyond the growth). `BindingsLocalRoomSpeaks` needs `Locals`: LM
  Studio's connection of a room is enabled at revision 1 or never again, its
  model was observed there and names no other revision, and the room is bound to
  the model's newest one. A room's three chains are written by one transaction,
  so this is shown room by room (`LocalStep`). To resolve is not enough to be
  answered: the theorem says that such a room is answered exactly while its
  newest model is the one configured, and, of the step that tells a client LM
  Studio is selected, that it is. `CommitsInForce` says also that a reply names
  the model that was called (`Asking`). It alone is not inductive, since the
  commit takes its decision from the chain and the turn from what it pinned.
* `LifecycleProofs`. `Holding` says what the holder of a lock relies on: the
  server on its tree, the restore on the tree it locked, the purge on the
  references it read, also after the tree went into quarantine with its lock.
  `Restores` says what a restore has checked: nothing under the restored name,
  and a stage that is the database of the manifest. They give
  `ServedTreeStaysIntact`, `PurgeNamesWhatItDeletes` and `RestoresAreAsRecorded`.
  `TreesHaveTheirKeys` needs `Named` beside them: until there is a backup no two
  trees name one key, so what a purge deletes belongs to no tree that came
  under the name since.

The properties that the runs check under one name are proved under that name
too: `RequestsAreSound`, `DirectorStaysSound`, `StoreAlwaysFitsRow`,
`MutationsStaySound` and `HandoverStaysSound` put the theorems above together.
`TransportStaysSound` does the same for the transport.
`MCProviders.TransportSound` is its formula at the run's two instances of the
module, and the director's properties of `MCDesktop` are those of
`DirectorProofs` at its one. Every invariant named here was also checked by TLC
before it was proved.

Only model-checked:

* the liveness properties, since the prover has no fairness or `ENABLED`;
* `ListIsWhole` of `RoomLibrary`: the list is made with `SelectSeq`, a
  recursion over data, of which the prover has no induction;
* the refinement of `TurnContract` by `PhoneTurns`, and everything in the
  modules of the page and its model setup, packs, launcher and release and in the
  iPhone's turns and tasks.
* `LocalSelectionIsLocal` of `ProviderBindings`, which is violated where `OwnIds`
  is false (section 4).

## 6. Not modelled

* Parsing, schemas, SQL and texts: pure functions of one input, tested by the
  repository's own suites. Where their result matters it is a free choice in
  the model (a response's kind, an archive's `sound` flag).
* `src/providers/response-policy.ts`, `lm-studio.ts`, `mock.ts`, `config.ts`,
  the persona catalogues: no state between calls.
* The rest of `public/app.js`: rendering, the cast builder, other dialogs.
* On the iPhone, the privacy view and what is rendered of a transcript.
* Scripts that check an iOS bundle or test the packaged runtime: one sequential
  pass each, whose only outcome is a verdict.
* Wall clocks set back, file permissions, TLS itself, SQLite's recovery.

## 7. Plan

Done: the room service with its contract, the director, credentials and
bindings, transport, event stream, room library and page, data directory, packs,
launcher, release steps, and the iPhone's turns, rooms, keys and tasks. Next:

1. Proofs. `OneWriter` of `Launcher`: who holds the lock.
2. The refinement of `TurnContract` by `PhoneTurns`.

## 8. Running it

`tlc -config <cfg> <module>` for the runs listed in `PROJECT.json`, and
`tlapm <module>.tla` for the eight proof modules. With two workers the five
unions take two to four minutes each and the other runs at most one and a
half; a proof module is checked within six minutes.
