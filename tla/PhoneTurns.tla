----------------------------- MODULE PhoneTurns -----------------------------
(***************************************************************************)
(* One provider room of the iPhone runtime: a line the user sends becomes  *)
(* a durable generation command (SQLite), the command becomes a network    *)
(* request of the native provider plugin, and the answer becomes a turn    *)
(* of the room, while the application is resigned, loses its path, is      *)
(* killed, opens the demonstration room, or the user taps Retry twice.     *)
(*                                                                         *)
(* A call is one provider.generate of the page.  A page flow is one run of *)
(* the submit, retry or abandon handler; every await of it is a step.      *)
(* Bridge calls of the page run one after the other on the bridge's queue; *)
(* the main thread, the path monitor, the timers and the URL session run   *)
(* beside it.                                                              *)
(***************************************************************************)
EXTENDS Naturals, Sequences, FiniteSets

CONSTANTS Commands,  \* the commands that can be prepared, 1..n
          Calls,     \* the generate calls that can be made, 1..n
          Flows,     \* page handlers that can run at the same time
          MaxDowns,  \* bound on the losses of availability and on the kills
          MaxRev,    \* bound on the provider revisions
          Busy,      \* whether other rooms' requests can fill every slot
          Demo       \* whether the demonstration room can be opened

\* What the constants are; the modules that instantiate this one assume it.
PhoneAssumption ==
    /\ Commands \subseteq Nat \ {0}
    /\ Calls \subseteq Nat \ {0}
    /\ MaxDowns \in Nat /\ MaxRev \in Nat /\ Busy \in BOOLEAN /\ Demo \in BOOLEAN

VARIABLES
    row,     \* generation_commands: state, attempt_epoch, plan of each command
    log,     \* the committed turns of the room, [cmd, call], call 0 if silent
    rev,     \* the selected provider revision and whether it is ready
    db,      \* closed, open (not yet reconciled) or ready
    mode,    \* the inference mode of the current room
    life,    \* lifecycle inputs and the lifecycle event being handled
    call,    \* what each generate call loaded, where it is, what it answered
    entry,   \* ProviderTaskRegistry.tasks: the call registered for a command
    cancels, \* cancellation callbacks that have yet to run
    flow,    \* the page's handlers
    page     \* activeCommand: the command and the state the page shows

db_vars == <<row, log, rev, db, mode>>
vars == <<row, log, rev, db, mode, life, call, entry, cancels, flow, page>>

-----------------------------------------------------------------------------
(* The command table.                                                      *)

Unresolved == {"prepared", "in_flight", "failed", "interrupted"}

RowStates == Unresolved \cup {"none", "completed", "abandoned"}

Stages == {"none", "loaded", "sync", "queued", "promoted", "started", "claimed", "off"}

NoRow == [state |-> "none", epoch |-> 0, silent |-> FALSE, rev |-> 0, source |-> 0]

\* life: the registry's lifecycleEpoch is still the one the call has read.
NoCall == [cmd |-> 0, prior |-> 0, life |-> FALSE, stage |-> "none", resumed |-> FALSE,
           net |-> "none", ok |-> FALSE, answer |-> "open"]

Idle == [pc |-> "idle", cmd |-> 0, call |-> 0, epoch |-> 0, state |-> "none",
         shown |-> "none", current |-> FALSE, last |-> FALSE]

Started(c, state) == [Idle EXCEPT !.pc = "run", !.cmd = c, !.shown = state, !.current = TRUE]

NoCommand == [cmd |-> 0, state |-> "none"]

Init ==
    /\ row = [c \in Commands |-> NoRow]
    /\ log = <<>>
    /\ rev = [n |-> 1, ready |-> TRUE]
    /\ db = "open"
    /\ mode = "provider"
    /\ life = [active |-> TRUE, path |-> TRUE, handling |-> "none", downs |-> 0]
    /\ call = [k \in Calls |-> NoCall]
    /\ entry = [c \in Commands |-> 0]
    /\ cancels = {}
    /\ flow = [f \in Flows |-> Idle]
    /\ page = NoCommand

Available == life.active /\ life.path /\ mode = "provider"

ReconciledUnstartedOnly(table) ==
    [c \in Commands |->
        IF table[c].state = "prepared" THEN [table[c] EXCEPT !.state = "failed"] ELSE table[c]]

ReconciledForgets(table) ==
    [c \in Commands |-> IF table[c].state = "prepared" THEN NoRow ELSE table[c]]

\* The first operation on a newly opened database reconciles what the last
\* process left: a prepared command never started, one in flight may have.
Reconciled(table) ==
    [c \in Commands |->
        CASE table[c].state = "prepared" -> [table[c] EXCEPT !.state = "failed"]
          [] table[c].state = "in_flight" -> [table[c] EXCEPT !.state = "interrupted"]
          [] OTHER -> table[c]]

Rows == IF db = "open" THEN Reconciled(row) ELSE row

ReconciledDatabase == db # "closed" /\ mode = "provider"

Using(table) == row' = table /\ db' = "ready"

Open == {c \in Commands : Rows[c].state \in Unresolved}

Free == {c \in Commands : row[c].state = "none"}

\* Only one bridge call runs at a time: a generate call that was admitted
\* at once keeps the queue until it has started or failed.
BridgeFree == \A k \in Calls : call[k].stage \notin {"loaded", "sync"}

Fenced(c) == Rows[c].source = Len(log)

AuthorityAnyState(c) ==
    ReconciledDatabase /\ rev.ready /\ rev.n = Rows[c].rev /\ Fenced(c)

Authority(c) ==
    /\ ReconciledDatabase
    /\ Rows[c].state \in {"prepared", "failed", "interrupted"}
    /\ ~Rows[c].silent
    /\ rev.ready /\ rev.n = Rows[c].rev
    /\ Fenced(c)

Begun(c, prior) == [Rows EXCEPT ![c].state = "in_flight", ![c].epoch = prior + 1]

Interrupted(table, c, epoch) ==
    IF table[c].state = "in_flight" /\ table[c].epoch = epoch
    THEN [table EXCEPT ![c].state = "interrupted"] ELSE table

NotStarted(table, c, prior) ==
    IF \/ table[c].state \in {"prepared", "failed"} /\ table[c].epoch = prior
       \/ table[c].state = "in_flight" /\ table[c].epoch = prior + 1
    THEN [table EXCEPT ![c].state = "failed", ![c].epoch = prior] ELSE table

-----------------------------------------------------------------------------
(* The page.                                                               *)

Prepared(silent) ==
    [state |-> "prepared", epoch |-> 0, silent |-> silent, rev |-> rev.n, source |-> Len(log)]

\* What the page shows of the room it reopens.
Projection ==
    IF Open = {} THEN NoCommand
    ELSE LET c == CHOOSE x \in Open : TRUE IN [cmd |-> c, state |-> Rows[c].state]

\* A line is sent: the turn is planned and its command prepared.
Submit(f) ==
    /\ flow[f] = Idle /\ page.cmd = 0
    /\ life.active /\ life.path /\ rev.ready /\ ReconciledDatabase /\ BridgeFree
    /\ Open = {} /\ Free # {}
    /\ \E silent \in BOOLEAN :
         LET c == CHOOSE x \in Free : \A y \in Free : x <= y IN
         /\ Using([Rows EXCEPT ![c] = Prepared(silent)])
         /\ flow' = [flow EXCEPT ![f] = Started(c, "prepared")]
         /\ page' = [cmd |-> c, state |-> "prepared"]
    /\ UNCHANGED <<log, rev, mode, life, call, entry, cancels>>

Retry(f) ==
    /\ flow[f] = Idle
    /\ page.cmd # 0 /\ page.state # "in_flight"
    /\ life.active /\ life.path /\ rev.ready
    /\ flow' = [flow EXCEPT ![f] = Started(page.cmd, page.state)]
    /\ UNCHANGED <<db_vars, life, call, entry, cancels, page>>

Go(f, pc) == flow' = [flow EXCEPT ![f].pc = pc]

\* retryAtomicGeneration reads the command again; a silent one is completed
\* at once, another one goes to the provider.
Reread(f) ==
    LET c == flow[f].cmd IN
    /\ flow[f].pc = "run"
    /\ BridgeFree
    /\ IF ReconciledDatabase
       THEN /\ Using(Rows)
            /\ flow' = [flow EXCEPT ![f].pc = IF c \notin Open THEN "failed"
                                              ELSE IF Rows[c].silent THEN "silence" ELSE "generate",
                                    ![f].last = c \notin Open,
                                    ![f].epoch = IF Rows[c].silent THEN Rows[c].epoch ELSE 0]
       ELSE /\ flow' = [flow EXCEPT ![f].pc = "failed", ![f].last = TRUE]
            /\ UNCHANGED <<row, db>>
    /\ UNCHANGED <<log, rev, mode, life, call, entry, cancels, page>>

Fresh == {k \in Calls : call[k].stage = "none"}

\* provider.generate: the lifecycle epoch is read, the authority loaded.
Generate(f) ==
    LET c == flow[f].cmd
        k == CHOOSE x \in Fresh : \A y \in Fresh : x <= y
    IN
    /\ flow[f].pc = "generate" /\ Fresh # {}
    /\ BridgeFree
    /\ IF Available /\ Authority(c)
       THEN /\ call' = [call EXCEPT ![k] = [NoCall EXCEPT !.cmd = c, !.prior = Rows[c].epoch,
                                                          !.life = TRUE, !.stage = "loaded"]]
            /\ flow' = [flow EXCEPT ![f].pc = "wait", ![f].call = k]
            /\ Using(Rows)
       ELSE /\ Go(f, "failed")
            /\ IF Available /\ ReconciledDatabase THEN Using(Rows) ELSE UNCHANGED <<row, db>>
            /\ UNCHANGED call
    /\ UNCHANGED <<log, rev, mode, life, entry, cancels, page>>

\* The result of the call reaches the page.
Answered(f) ==
    /\ flow[f].pc = "wait"
    /\ call[flow[f].call].answer \in {"ok", "fail"}
    /\ flow' = [flow EXCEPT ![f].pc = IF call[flow[f].call].answer = "ok" THEN "complete" ELSE "failed",
                            ![f].epoch = IF call[flow[f].call].answer = "ok"
                                         THEN call[flow[f].call].prior + 1 ELSE 0]
    /\ call' = [call EXCEPT ![flow[f].call].answer = "given"]
    /\ UNCHANGED <<db_vars, life, entry, cancels, page>>

\* Mutant of the completion: the attempt is not compared.
WritesTurn(f, guard) ==
    LET c == flow[f].cmd IN
    /\ BridgeFree /\ ReconciledDatabase /\ guard
    /\ Using([Rows EXCEPT ![c].state = "completed"])
    /\ log' = Append(log, [cmd |-> c, call |-> flow[f].call])
    /\ flow' = [flow EXCEPT ![f] = Idle]
    /\ UNCHANGED <<rev, mode, life, call, entry, cancels, page>>

CompletesAnyEpoch(f, states) == WritesTurn(f, Rows[flow[f].cmd].state \in states)

\* completeAndReadBack: one transaction writes the whole turn or nothing.
Completes(f, states) ==
    LET c == flow[f].cmd IN
    /\ BridgeFree
    /\ IF /\ ReconciledDatabase /\ Fenced(c)
          /\ Rows[c].state \in states /\ Rows[c].epoch = flow[f].epoch
       THEN /\ Using([Rows EXCEPT ![c].state = "completed"])
            /\ log' = Append(log, [cmd |-> c, call |-> flow[f].call])
            /\ flow' = [flow EXCEPT ![f] = Idle]
            /\ page' = IF flow[f].current THEN NoCommand ELSE page
       ELSE /\ IF ReconciledDatabase THEN Using(Rows) ELSE UNCHANGED <<row, db>>
            /\ flow' = [flow EXCEPT ![f].pc = "failed", ![f].epoch = 0]
            /\ UNCHANGED <<log, page>>
    /\ UNCHANGED <<rev, mode, life, call, entry, cancels>>

Complete(f) == flow[f].pc = "complete" /\ Completes(f, {"in_flight"})

CompleteSilence(f) == flow[f].pc = "silence" /\ Completes(f, {"prepared", "failed"})

\* Nothing to reconcile, or no database to do it with: the handler keeps the
\* command as it knew it when it started.
GiveUp(fl) == [fl EXCEPT !.pc = IF fl.last THEN "show" ELSE "failed", !.last = TRUE, !.epoch = 0, !.call = 0,
                          !.state = IF fl.last THEN fl.shown ELSE "none"]

\* reconcileGenerationFailure, run by retryAtomicGeneration and once more by
\* runExactActiveCommand: the command is read, then written.
ReadFailure(f) ==
    LET c == flow[f].cmd IN
    /\ flow[f].pc = "failed"
    /\ BridgeFree
    /\ IF ReconciledDatabase
       THEN /\ Using(Rows)
            /\ flow' = [flow EXCEPT ![f] = IF c \in Open
                                           THEN [@ EXCEPT !.pc = "fix", !.state = Rows[c].state, !.epoch = Rows[c].epoch]
                                           ELSE GiveUp(@)]
       ELSE /\ flow' = [flow EXCEPT ![f] = GiveUp(@)]
            /\ UNCHANGED <<row, db>>
    /\ UNCHANGED <<log, rev, mode, life, call, entry, cancels, page>>

FixFailure(f) ==
    LET c == flow[f].cmd
        writes == CASE flow[f].state = "in_flight" -> Rows[c].state = "in_flight" /\ Rows[c].epoch = flow[f].epoch
                    [] flow[f].state = "prepared" -> Rows[c].state \in {"prepared", "failed"} /\ Rows[c].epoch = flow[f].epoch
                    [] OTHER -> TRUE
        fixed == CASE flow[f].state = "in_flight" -> [Rows EXCEPT ![c].state = "interrupted"]
                   [] flow[f].state = "prepared" -> [Rows EXCEPT ![c].state = "failed"]
                   [] OTHER -> Rows
    IN
    /\ flow[f].pc = "fix"
    /\ BridgeFree
    /\ IF ReconciledDatabase /\ writes
       THEN /\ Using(fixed)
            /\ flow' = [flow EXCEPT ![f].pc = IF flow[f].last THEN "show" ELSE "failed", ![f].last = TRUE, ![f].epoch = 0, ![f].call = 0,
                                    ![f].state = IF ~flow[f].last THEN "none"
                                                 ELSE IF fixed[c].state \in Unresolved THEN fixed[c].state
                                                 ELSE flow[f].shown]
       ELSE /\ IF ReconciledDatabase THEN Using(Rows) ELSE UNCHANGED <<row, db>>
            /\ flow' = [flow EXCEPT ![f] = GiveUp(@)]
    /\ UNCHANGED <<log, rev, mode, life, call, entry, cancels, page>>

ShowFailure(f) ==
    /\ flow[f].pc = "show"
    /\ page' = IF flow[f].current THEN [cmd |-> flow[f].cmd, state |-> flow[f].state] ELSE page
    /\ flow' = [flow EXCEPT ![f] = Idle]
    /\ UNCHANGED <<db_vars, life, call, entry, cancels>>

\* Abandon: read first, refused while in flight, then written.
Abandon(f) ==
    /\ flow[f] = Idle /\ \A g \in Flows : flow[g].pc # "abandon"
    /\ page.cmd # 0 /\ page.state # "in_flight"
    /\ life.active /\ ReconciledDatabase /\ BridgeFree
    /\ Using(Rows)
    /\ flow' = IF page.cmd \in Open /\ Rows[page.cmd].state # "in_flight"
               THEN [flow EXCEPT ![f] = [Idle EXCEPT !.pc = "abandon", !.cmd = page.cmd]]
               ELSE flow
    /\ UNCHANGED <<log, rev, mode, life, call, entry, cancels, page>>

WriteAbandon(f) ==
    LET c == flow[f].cmd IN
    /\ flow[f].pc = "abandon"
    /\ BridgeFree
    /\ IF ReconciledDatabase /\ Rows[c].state \in {"prepared", "failed", "interrupted"}
       THEN Using([Rows EXCEPT ![c].state = "abandoned"]) /\ page' = NoCommand
       ELSE (IF ReconciledDatabase THEN Using(Rows) ELSE UNCHANGED <<row, db>>) /\ UNCHANGED page
    /\ flow' = [flow EXCEPT ![f] = Idle]
    /\ UNCHANGED <<log, rev, mode, life, call, entry, cancels>>

\* The room is read and rendered again: the handlers that still run belong
\* to an earlier view from now on.
Reproject ==
    /\ life.active /\ ReconciledDatabase /\ BridgeFree
    /\ Using(Rows)
    /\ page' = Projection
    /\ flow' = [f \in Flows |-> [flow[f] EXCEPT !.current = FALSE]]
    /\ UNCHANGED <<log, rev, mode, life, call, entry, cancels>>

-----------------------------------------------------------------------------
(* The provider task registry.                                             *)

\* The call is no longer the registry's business.
Off(cl) == [cl EXCEPT !.stage = "off", !.life = FALSE, !.ok = FALSE]

Canceled(k, event) == [call |-> k, started |-> call[k].resumed, event |-> event]

\* A call's completion gate takes the first answer and ignores the others.
Answer(calls, k, answer) ==
    IF calls[k].answer = "open" THEN [calls EXCEPT ![k].answer = answer] ELSE calls

Install(k) ==
    LET c == call[k].cmd IN
    /\ call[k].stage = "loaded"
    /\ \/ /\ Available /\ call[k].life /\ entry[c] = 0
          /\ \E stage \in {"sync"} \cup (IF Busy THEN {"queued"} ELSE {}) :
               call' = [call EXCEPT ![k].stage = stage]
          /\ entry' = [entry EXCEPT ![c] = k]
          /\ UNCHANGED <<row, db>>
       \/ /\ Available /\ call[k].life /\ entry[c] # 0
          /\ call' = Answer([call EXCEPT ![k] = Off(@)], k, "fail")
          /\ UNCHANGED <<row, db, entry>>
       \/ /\ \/ ~Available \/ ~call[k].life
             \/ Busy /\ entry[c] = 0
          /\ call' = Answer([call EXCEPT ![k] = Off(@)], k, "fail")
          /\ IF ReconciledDatabase
             THEN Using(IF Rows[c].state \in {"prepared", "failed"} THEN NotStarted(Rows, c, call[k].prior)
                        ELSE Rows)
             ELSE UNCHANGED <<row, db>>
          /\ UNCHANGED entry
    /\ UNCHANGED <<log, rev, mode, life, cancels, flow, page>>

\* A slot is free again: the queued call starts on the thread that freed it.
Promote(k) ==
    /\ call[k].stage = "queued"
    /\ call' = [call EXCEPT ![k].stage = "promoted"]
    /\ UNCHANGED <<db_vars, life, entry, cancels, flow, page>>

Registered(k) == entry[call[k].cmd] = k

Beginning(k) ==
    /\ call[k].stage \in {"sync", "promoted"}
    /\ Registered(k) /\ Available /\ call[k].life

\* beginNetwork: under the registry's lock and the database's, the command
\* goes in flight and its task is resumed.
Begin(k) ==
    LET c == call[k].cmd IN
    /\ Beginning(k)
    /\ Authority(c) /\ Rows[c].epoch = call[k].prior
    /\ Using(Begun(c, call[k].prior))
    /\ call' = [call EXCEPT ![k].stage = "started", ![k].resumed = TRUE, ![k].net = "live"]
    /\ UNCHANGED <<log, rev, mode, life, entry, cancels, flow, page>>

\* A call that did not start leaves the registry.  On the bridge's queue its
\* cancellation runs before the next bridge call, on a thread that freed a
\* slot it runs later.
Drop(k, table) ==
    LET c == call[k].cmd
        removed == [call EXCEPT ![k] = Off(@)]
    IN
    /\ entry' = [entry EXCEPT ![c] = 0]
    /\ IF call[k].stage = "sync"
       THEN /\ row' = (IF db = "closed" THEN table ELSE NotStarted(table, c, call[k].prior))
            /\ call' = Answer(removed, k, "fail")
            /\ UNCHANGED cancels
       ELSE /\ row' = table
            /\ call' = removed
            /\ cancels' = cancels \cup {Canceled(k, "begin")}
    /\ db' = IF ReconciledDatabase THEN "ready" ELSE db

\* The deadline passes after the command was marked in flight: the mark is
\* taken back before the locks are released.
BeginExpires(k) ==
    LET c == call[k].cmd IN
    /\ Beginning(k)
    /\ Authority(c) /\ Rows[c].epoch = call[k].prior
    /\ Drop(k, NotStarted(Begun(c, call[k].prior), c, call[k].prior))
    /\ UNCHANGED <<log, rev, mode, life, flow, page>>

\* The authority or the credential is gone; or the entry was canceled or
\* fenced in the meantime, and the one who did it answers the call.
BeginFails(k) ==
    /\ Beginning(k)
    /\ Drop(k, IF ReconciledDatabase THEN Rows ELSE row)
    /\ UNCHANGED <<log, rev, mode, life, flow, page>>

BeginCanceled(k) ==
    /\ call[k].stage \in {"sync", "promoted"} /\ ~Beginning(k)
    /\ call' = [call EXCEPT ![k] = Off(@)]
    /\ UNCHANGED <<db_vars, life, entry, cancels, flow, page>>

\* The 60 second timer of an entry.  A call admitted at once begins right
\* after its admission and is not met by its timer before that.
Expire(k) ==
    /\ call[k].stage \in {"queued", "promoted", "started"} /\ Registered(k)
    /\ entry' = [entry EXCEPT ![call[k].cmd] = 0]
    /\ cancels' = cancels \cup {Canceled(k, "timer")}
    /\ call' = [call EXCEPT ![k] = Off(@)]
    /\ UNCHANGED <<db_vars, life, flow, page>>

\* The cancellation callback of an entry, run outside the registry's lock.
Cancellation(x) ==
    LET k == x.call
        c == call[k].cmd
    IN
    /\ x \in cancels
    /\ row' = IF db = "closed" THEN row
              ELSE IF x.started THEN Interrupted(row, c, call[k].prior + 1)
              ELSE NotStarted(row, c, call[k].prior)
    /\ call' = Answer(call, k, "fail")
    /\ cancels' = cancels \ {x}
    /\ UNCHANGED <<log, rev, db, mode, life, entry, flow, page>>

\* The URL session reports the end of a task: a registered one is claimed.
NetworkEnds(k, ok) ==
    /\ call[k].net = "live"
    /\ IF Registered(k) /\ Available /\ call[k].life
       THEN /\ call' = [call EXCEPT ![k].net = "over", ![k].stage = "claimed", ![k].ok = ok]
            /\ entry' = [entry EXCEPT ![call[k].cmd] = 0]
       ELSE /\ call' = Answer([call EXCEPT ![k] = [Off(@) EXCEPT !.net = "over"]], k, "fail")
            /\ UNCHANGED entry
    /\ UNCHANGED <<db_vars, life, cancels, flow, page>>

\* A claimed result: a success is one only while the command is in flight.
Claimed(k) ==
    LET c == call[k].cmd
        valid == /\ ReconciledDatabase
                 /\ Rows[c].state = "in_flight" /\ Rows[c].epoch = call[k].prior + 1
    IN
    /\ call[k].stage = "claimed"
    /\ call' = Answer([call EXCEPT ![k] = Off(@)], k, IF call[k].ok /\ valid THEN "ok" ELSE "fail")
    /\ IF ReconciledDatabase
       THEN Using(IF call[k].ok THEN Rows ELSE Interrupted(Rows, c, call[k].prior + 1))
       ELSE UNCHANGED <<row, db>>
    /\ UNCHANGED <<log, rev, mode, life, entry, cancels, flow, page>>

-----------------------------------------------------------------------------
(* The application's lifecycle.                                            *)

Registrations == {k \in Calls : call[k].cmd # 0 /\ Registered(k) /\ call[k].stage # "loaded"}

\* Availability is lost: every entry is removed under the lock, its
\* cancellation runs before the next event is published.
Lose(event) ==
    /\ life.handling = "none" /\ life.downs < MaxDowns
    /\ life' = [life EXCEPT !.active = @ /\ event # "resign", !.path = @ /\ event # "path",
                            !.handling = event, !.downs = @ + 1]
    /\ cancels' = cancels \cup {Canceled(k, "life") : k \in Registrations}
    /\ entry' = [c \in Commands |-> 0]
    /\ call' = [k \in Calls |-> IF k \in Registrations /\ call[k].stage # "sync"
                                THEN Off(call[k]) ELSE [call[k] EXCEPT !.life = FALSE]]
    /\ UNCHANGED <<db_vars, flow, page>>

Resign == life.active /\ Lose("resign")

PathLost == life.path /\ Lose("path")

\* After the cancellations every open command is interrupted; a resigned
\* application also closes its database.
Fence ==
    /\ life.handling # "none" /\ \A x \in cancels : x.event # "life"
    /\ row' = IF ReconciledDatabase THEN Reconciled(Rows) ELSE row
    /\ db' = IF life.handling = "resign" THEN "closed"
             ELSE IF ReconciledDatabase THEN "ready" ELSE db
    /\ life' = [life EXCEPT !.handling = "none"]
    /\ UNCHANGED <<log, rev, mode, call, entry, cancels, flow, page>>

Return ==
    /\ life.handling = "none"
    /\ ~life.active \/ ~life.path
    /\ \E active \in {life.active, TRUE}, path \in {life.path, TRUE} :
         life' = [life EXCEPT !.active = active, !.path = path]
    /\ life' # life
    /\ UNCHANGED <<db_vars, call, entry, cancels, flow, page>>

OpenDatabase ==
    /\ life.active /\ life.handling = "none" /\ db = "closed"
    /\ db' = "open"
    /\ UNCHANGED <<row, log, rev, mode, life, call, entry, cancels, flow, page>>

\* The process dies, possibly after a command was marked in flight and
\* before its task was resumed.
Kill ==
    /\ life.downs < MaxDowns
    /\ row' \in {row} \cup {Begun(call[k].cmd, call[k].prior) :
                   k \in {j \in Registrations : /\ call[j].stage \in {"sync", "promoted"}
                                                /\ Available /\ Authority(call[j].cmd)
                                                /\ Rows[call[j].cmd].epoch = call[j].prior}}
    /\ db' = "open"
    /\ life' = [life EXCEPT !.active = TRUE, !.path = TRUE, !.handling = "none",
                            !.downs = @ + 1]
    /\ call' = [k \in Calls |-> IF call[k].cmd = 0 THEN call[k]
                                ELSE [Off(call[k]) EXCEPT !.answer = "given", !.net = IF @ = "live" THEN "over" ELSE @]]
    /\ entry' = [c \in Commands |-> 0]
    /\ cancels' = {}
    /\ flow' = [f \in Flows |-> Idle]
    /\ page' = NoCommand
    /\ UNCHANGED <<log, rev, mode>>

\* The demonstration room is selected: the registry is closed and its tasks
\* canceled inside the transaction, which may still fail to commit.
Undone(table, ks) ==
    [c \in Commands |->
        IF \E k \in ks : call[k].cmd = c
        THEN LET k == CHOOSE j \in ks : call[j].cmd = c IN
             IF call[k].resumed THEN Interrupted(table, c, call[k].prior + 1)[c]
             ELSE NotStarted(table, c, call[k].prior)[c]
        ELSE table[c]]

SelectDemo ==
    /\ Demo /\ mode = "provider" /\ db # "closed" /\ life.downs < MaxDowns /\ BridgeFree
    /\ \/ mode' = "review_demo" /\ row' = Undone(row, Registrations)
       \/ UNCHANGED <<mode, row>>
    /\ life' = [life EXCEPT !.downs = @ + 1]
    /\ entry' = [c \in Commands |-> 0]
    /\ call' = [k \in Calls |->
                  IF k \in Registrations
                  THEN [Off(call[k]) EXCEPT !.answer = IF @ = "open" THEN "fail" ELSE @]
                  ELSE [call[k] EXCEPT !.life = FALSE]]
    /\ page' = IF mode' = "review_demo" THEN NoCommand ELSE page
    /\ flow' = [f \in Flows |-> [flow[f] EXCEPT !.current = @ /\ mode' = "provider"]]
    /\ UNCHANGED <<log, rev, db, cancels>>

\* The provider room is opened again: reopenLocalRoom selects it and reads
\* its unresolved command.
SelectProvider ==
    /\ mode = "review_demo" /\ db # "closed" /\ life.active /\ BridgeFree
    /\ mode' = "provider"
    /\ Using(Rows)
    /\ page' = Projection
    /\ flow' = [f \in Flows |-> [flow[f] EXCEPT !.current = FALSE]]
    /\ UNCHANGED <<log, rev, life, call, entry, cancels>>

\* The credential is removed, or a new revision of the provider is selected.
Unselect ==
    /\ rev.ready /\ rev.n < MaxRev /\ ReconciledDatabase /\ BridgeFree
    /\ rev' = [rev EXCEPT !.ready = FALSE]
    /\ Using(Rows)
    /\ UNCHANGED <<log, mode, life, call, entry, cancels, flow, page>>

Select ==
    /\ ~rev.ready /\ ReconciledDatabase /\ BridgeFree
    /\ rev' = [n |-> rev.n + 1, ready |-> TRUE]
    /\ Using(Rows)
    /\ UNCHANGED <<log, mode, life, call, entry, cancels, flow, page>>

-----------------------------------------------------------------------------

Next ==
    \/ \E f \in Flows :
         \/ Submit(f) \/ Retry(f) \/ Reread(f) \/ Generate(f) \/ Answered(f)
         \/ Complete(f) \/ CompleteSilence(f)
         \/ ReadFailure(f) \/ FixFailure(f) \/ ShowFailure(f)
         \/ Abandon(f) \/ WriteAbandon(f)
    \/ \E k \in Calls :
         \/ Install(k) \/ Promote(k) \/ Begin(k) \/ BeginExpires(k) \/ BeginFails(k) \/ BeginCanceled(k)
         \/ Expire(k) \/ Claimed(k)
         \/ \E ok \in BOOLEAN : NetworkEnds(k, ok)
    \/ \E x \in cancels : Cancellation(x)
    \/ Reproject
    \/ Resign \/ PathLost \/ Fence \/ Return \/ OpenDatabase \/ Kill
    \/ SelectDemo \/ SelectProvider \/ Unselect \/ Select

Spec == Init /\ [][Next]_vars

\* What runs by itself: the bridge's queue and the page's handlers go on, a
\* timer fires, callbacks run, the page polls, and an active application
\* opens its database.  Nothing obliges the user, the network or iOS.
Fairness ==
    /\ \A f \in Flows : WF_vars(Reread(f) \/ Generate(f) \/ Answered(f) \/ Complete(f) \/ CompleteSilence(f)
                                \/ ReadFailure(f) \/ FixFailure(f) \/ ShowFailure(f) \/ WriteAbandon(f))
    /\ \A k \in Calls : WF_vars(Install(k) \/ Begin(k) \/ BeginFails(k) \/ BeginCanceled(k) \/ Claimed(k))
    /\ \A k \in Calls : WF_vars(Expire(k))
    /\ WF_vars(\E x \in cancels : Cancellation(x))
    /\ WF_vars(Fence)
    /\ WF_vars(OpenDatabase)
    /\ WF_vars(Reproject)

FairSpec == Spec /\ Fairness

-----------------------------------------------------------------------------
(* Properties.                                                             *)

TypeOK ==
    /\ row \in [Commands -> [state : RowStates, epoch : Nat, silent : BOOLEAN, rev : Nat, source : Nat]]
    /\ log \in Seq([cmd : Commands, call : Calls \cup {0}])
    /\ rev \in [n : Nat, ready : BOOLEAN]
    /\ db \in {"closed", "open", "ready"} /\ mode \in {"provider", "review_demo"}
    /\ life \in [active : BOOLEAN, path : BOOLEAN,
                 handling : {"none", "resign", "path"}, downs : Nat]
    /\ call \in [Calls -> [cmd : Commands \cup {0}, prior : Nat, life : BOOLEAN, stage : Stages,
                           resumed : BOOLEAN, net : {"none", "live", "over"}, ok : BOOLEAN,
                           answer : {"open", "ok", "fail", "given"}]]
    /\ entry \in [Commands -> Calls \cup {0}]
    /\ cancels \subseteq [call : Calls, started : BOOLEAN, event : {"life", "timer", "begin"}]
    /\ page \in [cmd : Commands \cup {0}, state : RowStates]
    /\ Cardinality({c \in Commands : row[c].state \in Unresolved}) <= 1

Sent(c) == {k \in Calls : call[k].cmd = c /\ call[k].resumed}

\* The turn that was written answers the last attempt that was sent: a reply
\* to an attempt that was interrupted in the meantime is never committed,
\* although its page handler may still be running.
AnswersLastAttempt ==
    \A i \in DOMAIN log : log[i].call # 0 =>
        /\ call[log[i].call].resumed /\ call[log[i].call].cmd = log[i].cmd
        /\ \A k \in Sent(log[i].cmd) : call[k].prior <= call[log[i].call].prior

\* No attempt number is sent twice, so a reply can be told from the reply to
\* an earlier request of the same command.
EpochSentOnce ==
    \A c \in Commands : \A j, k \in Sent(c) : call[j].prior = call[k].prior => j = k

\* "Once a retained task starts, every failure or lifecycle cancellation is
\* uncertain": a command is failed only if its last attempt was not sent.
FailedNeverLeft ==
    \A c \in Commands : row[c].state = "failed" => \A k \in Sent(c) : call[k].prior < row[c].epoch

\* "only a task actually resumed can become interrupted".
InterruptedWasSent ==
    \A c \in Commands : row[c].state = "interrupted" => \E k \in Sent(c) : call[k].prior + 1 = row[c].epoch

\* Whoever will settle a command in flight: its task, a callback, a page
\* handler, or the reconciliation of a database opened again.
InFlightOwned ==
    \A c \in Commands : row[c].state = "in_flight" =>
        \/ entry[c] # 0
        \/ db # "ready"
        \/ life.handling # "none"
        \/ \E x \in cancels : call[x.call].cmd = c
        \/ \E k \in Calls : call[k].cmd = c /\ call[k].stage = "claimed"
        \/ \E f \in Flows : flow[f].cmd = c /\ flow[f].pc \in {"generate", "wait", "complete", "failed", "fix"}

KeepsEnded ==
    \A c \in Commands : row[c].state \in {"completed", "abandoned"} =>
        row'[c] = row[c] /\ {k \in Calls : call'[k].cmd = c /\ call'[k].resumed} = Sent(c)

\* A command that was abandoned or completed stays so and is not sent again,
\* even by a call that had been admitted before.
EndedStaysEnded == [][KeepsEnded]_vars

\* The text beside Retry, "This exact command is prepared and has not been
\* sent", is true when it is shown.
PreparedIsNotSent ==
    page.cmd # 0 /\ page.state = "prepared" => Sent(page.cmd) = {}

\* "warns before a retry that the provider may already have processed/billed
\* the lost request": the page that says of an open command that its request
\* did not start, and offers Retry, is right about every request of it.
RetryWarns ==
    page.cmd # 0 /\ page.state = "failed" /\ row[page.cmd].state = "failed" => Sent(page.cmd) = {}

\* A command does not stay in flight while the application is active and its
\* room is the current one: its task, its timer, its page handler or the
\* next opening of the database settles it.
Settles ==
    \A c \in Commands : (row[c].state = "in_flight")
                            ~> (row[c].state # "in_flight" \/ ~life.active \/ mode # "provider")

SentBefore(k) == {j \in Sent(call[k].cmd) : call[j].prior <= call[k].prior}

\* What the contract speaks of, read off the rows, the turns and the calls.
Transcript ==
    [i \in DOMAIN log |->
        [cmd |-> log[i].cmd,
         asked |-> IF log[i].call = 0 THEN 0 ELSE Cardinality(SentBefore(log[i].call))]]
OpenCommand ==
    IF \E c \in Commands : row[c].state \in Unresolved
    THEN CHOOSE c \in Commands : row[c].state \in Unresolved ELSE 0
Asked == [c \in Commands |-> Cardinality(Sent(c))]
Ended == {c \in Commands : row[c].state \in {"completed", "abandoned"}}

Contract == INSTANCE TurnContract WITH
    transcript <- Transcript, open <- OpenCommand, asked <- Asked, ended <- Ended

\* Kills, losses of the path, double taps and the demonstration room change
\* nothing of what the room promises: the room implements its contract.
KeepsContract == Contract!ContractSpec

=============================================================================
