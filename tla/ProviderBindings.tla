--------------------------- MODULE ProviderBindings ---------------------------
(***************************************************************************)
(* From a connection to a persona's reply: revisions of connections, of    *)
(* model profiles that name one connection revision, and of room bindings  *)
(* that name one model revision; the observations of a connection; and the *)
(* decision a turn pins from them, asks a provider with and commits with   *)
(* its reply.                                                              *)
(*                                                                         *)
(* A profile is the sequence of its revisions; the position is the number. *)
(* Every transaction is one action.  What a client waits for outside a     *)
(* transaction (the probe of LM Studio, the test of a cloud model) stands  *)
(* between two actions.                                                    *)
(***************************************************************************)
EXTENDS Naturals, Sequences

CONSTANTS
    Rooms, Clouds,      \* rooms; ids of cloud connections
    Profiles,           \* ids clients choose for model profiles
    Names,              \* names of models
    Clients,            \* requests under way at a time
    OwnIds,             \* FALSE: a client may choose the id LM Studio's model has
    MaxRevision,        \* bound on the revisions of a profile or binding
    None

VARIABLES
    conn,       \* states of a connection's revisions
    model,      \* revisions of a model profile
    seen,       \* capability fingerprint last observed at a connection revision
    binding,    \* revisions of a room's binding
    pinned,     \* decision pinned by the turn under way in a room
    asked,      \* the model called by the run that answers for a room
    snapshot,   \* the decision committed by a room's latest turn, with what was in
                \* force at its commit and the model that had been called
    told,       \* bindings a client was told of, in the order of the answers
    request,    \* what a client waits for
    lmStudio    \* the model name the server is configured with

vars == <<conn, model, seen, binding, pinned, asked, snapshot, told, request, lmStudio>>

\* LM Studio's connection and model profile have ids made from the room's.
Local(r) == <<"lmstudio", r>>
LocalModel(r) == <<"lmstudio-model", r>>

Connections == Clouds \cup {Local(r) : r \in Rooms}
Models      == Profiles \cup {LocalModel(r) : r \in Rooms}
IsCloud(c)  == c \in Clouds

Revisions == 1..MaxRevision
ModelRevisions == [name : Names, conn : Connections, at : Revisions]
BindingRevisions == [model : Models, at : Revisions]
Decisions == [bound : Revisions, binding : BindingRevisions, model : ModelRevisions, print : Names]

\* What the constants are; the modules that instantiate this one assume it.
ProviderBindingsConstants ==
    /\ OwnIds \in BOOLEAN /\ MaxRevision \in Nat
    /\ None \notin Rooms \cup Clouds \cup Profiles \cup Names /\ None \notin Decisions
    /\ \A r \in Rooms : Local(r) \notin Clouds /\ (OwnIds => LocalModel(r) \notin Profiles)

TypeOK ==
    /\ conn \in [Connections -> Seq({"enabled", "disabled", "deleted"})]
    /\ model \in [Models -> Seq(ModelRevisions)]
    /\ seen \in [Connections -> [Revisions -> Names \cup {None}]]
    /\ binding \in [Rooms -> Seq(BindingRevisions)]
    /\ pinned \in [Rooms -> Decisions \cup {None}]
    /\ asked \in [Rooms -> Names \cup {None}]
    /\ snapshot \in [Rooms -> (Decisions \X Decisions \X Names) \cup {None}]
    /\ told \in [Rooms -> Seq(Revisions \X BindingRevisions \X {"lmstudio", "cloud"})]
    /\ lmStudio \in Names
    /\ \A c \in Connections : Len(conn[c]) <= MaxRevision
    /\ \A m \in Models : Len(model[m]) <= MaxRevision
    /\ \A r \in Rooms : Len(binding[r]) <= MaxRevision

Idle == [kind |-> "idle"]

Init ==
    /\ conn = [c \in Connections |-> <<>>] /\ model = [m \in Models |-> <<>>]
    /\ seen = [c \in Connections |-> [n \in Revisions |-> None]]
    /\ binding = [r \in Rooms |-> <<>>] /\ told = [r \in Rooms |-> <<>>]
    /\ pinned = [r \in Rooms |-> None] /\ asked = [r \in Rooms |-> None]
    /\ snapshot = [r \in Rooms |-> None]
    /\ request = [k \in Clients |-> Idle] /\ lmStudio \in Names

-----------------------------------------------------------------------------
(* Reading the chain.                                                      *)

Enabled(c, n) == n = Len(conn[c]) /\ n > 0 /\ conn[c][n] = "enabled"

(* requireBindableModel: the model revision is the newest, and so is the   *)
(* enabled connection revision it names.                                   *)
Bindable(m, n) ==
    /\ n = Len(model[m]) /\ n > 0
    /\ Enabled(model[m][n].conn, model[m][n].at)

(* resolveRoomProviderDecision, for a room with a binding; every           *)
(* observation the routes write is "ready".                                *)
Resolves(r) ==
    /\ binding[r] # <<>>
    /\ LET b == binding[r][Len(binding[r])]
       IN Bindable(b.model, b.at) /\ seen[model[b.model][b.at].conn][model[b.model][b.at].at] # None

Decision(r) ==
    LET b == binding[r][Len(binding[r])]
        m == model[b.model][b.at]
    IN [bound |-> Len(binding[r]), binding |-> b, model |-> m, print |-> seen[m.conn][m.at]]

(* isResolvedRoomProviderDecisionCurrent: compared by identity and         *)
(* revision, and by the fingerprint.                                       *)
Current(r, d) ==
    /\ Resolves(r)
    /\ LET now == Decision(r) IN
       /\ now.bound = d.bound
       /\ now.binding = d.binding
       /\ <<now.model.conn, now.model.at>> = <<d.model.conn, d.model.at>>
       /\ now.print = d.print

-----------------------------------------------------------------------------
(* Connections.                                                            *)

Create(c) ==
    /\ IsCloud(c) /\ conn[c] = <<>> /\ Len(conn[c]) < MaxRevision
    /\ conn' = [conn EXCEPT ![c] = <<"enabled">>]
    /\ UNCHANGED <<model, seen, binding, pinned, asked, snapshot, told, request, lmStudio>>

(* A replaced key is a new, enabled revision, also of a disabled one.      *)
Replace(c) ==
    /\ IsCloud(c) /\ conn[c] # <<>> /\ Len(conn[c]) < MaxRevision
    /\ conn[c][Len(conn[c])] # "deleted"
    /\ conn' = [conn EXCEPT ![c] = Append(@, "enabled")]
    /\ UNCHANGED <<model, seen, binding, pinned, asked, snapshot, told, request, lmStudio>>

(* Disable and delete, for any connection that exists, LM Studio's too.    *)
Retire(c, state) ==
    /\ conn[c] # <<>> /\ Len(conn[c]) < MaxRevision
    /\ conn[c][Len(conn[c])] \in (IF state = "disabled" THEN {"enabled"} ELSE {"enabled", "disabled"})
    /\ conn' = [conn EXCEPT ![c] = Append(@, state)]
    /\ UNCHANGED <<model, seen, binding, pinned, asked, snapshot, told, request, lmStudio>>

(* A test calls the provider and, if it answers, observes the revision it  *)
(* began with, whatever became of the connection meanwhile.                *)
BeginTest(k, c, name) ==
    /\ request[k] = Idle /\ IsCloud(c) /\ Enabled(c, Len(conn[c]))
    /\ request' = [request EXCEPT ![k] = [kind |-> "test", conn |-> c, at |-> Len(conn[c]), name |-> name]]
    /\ UNCHANGED <<conn, model, seen, binding, pinned, asked, snapshot, told, lmStudio>>

EndTest(k) ==
    /\ request[k].kind = "test"
    /\ seen' = [seen EXCEPT ![request[k].conn][request[k].at] = request[k].name]
    /\ request' = [request EXCEPT ![k] = Idle]
    /\ UNCHANGED <<conn, model, binding, pinned, asked, snapshot, told, lmStudio>>

(* Provider or probe fail, or the client goes away.                        *)
Fails(k) ==
    /\ request[k] # Idle
    /\ request' = [request EXCEPT ![k] = Idle]
    /\ UNCHANGED <<conn, model, seen, binding, pinned, asked, snapshot, told, lmStudio>>

-----------------------------------------------------------------------------
(* Model profiles: created or revised for the newest, enabled revision of  *)
(* a cloud connection, which the client acknowledges.                      *)

SaveModel(m, c, name) ==
    /\ OwnIds => m \in Profiles
    /\ IsCloud(c) /\ Enabled(c, Len(conn[c])) /\ Len(model[m]) < MaxRevision
    /\ model' = [model EXCEPT ![m] = Append(@, [name |-> name, conn |-> c, at |-> Len(conn[c])])]
    /\ UNCHANGED <<conn, seen, binding, pinned, asked, snapshot, told, request, lmStudio>>

-----------------------------------------------------------------------------
(* Room bindings.                                                          *)

\* bindRoom and rebindRoom; expected is the binding revision the client saw.
Bind(r, expected, m, n, execution) ==
    /\ Len(binding[r]) = expected /\ expected < MaxRevision
    /\ binding' = [binding EXCEPT ![r] = Append(@, [model |-> m, at |-> n])]
    /\ told' = [told EXCEPT ![r] = Append(@, <<expected + 1, [model |-> m, at |-> n], execution>>)]

BindCloud(r, m) ==
    /\ model[m] # <<>> /\ IsCloud(model[m][Len(model[m])].conn)
    /\ Bindable(m, Len(model[m]))
    /\ Bind(r, Len(binding[r]), m, Len(model[m]), "cloud")
    /\ UNCHANGED <<conn, model, seen, pinned, asked, snapshot, request, lmStudio>>

(* LM Studio is probed between the check of the binding and the            *)
(* transaction.                                                            *)
Probe(k, r) ==
    /\ request[k] = Idle
    /\ request' = [request EXCEPT ![k] = [kind |-> "local", room |-> r, expected |-> Len(binding[r])]]
    /\ UNCHANGED <<conn, model, seen, binding, pinned, asked, snapshot, told, lmStudio>>

LocalConnection(r) == IF conn[Local(r)] = <<>> THEN <<"enabled">> ELSE conn[Local(r)]

\* Mutant: a profile that is there is kept, whatever the name configured.
LocalProfileKept(r) ==
    IF model[LocalModel(r)] = <<>>
    THEN <<[name |-> lmStudio, conn |-> Local(r), at |-> Len(LocalConnection(r))]>>
    ELSE model[LocalModel(r)]

\* The room's LM Studio profile after the route: made, or revised to the
\* configured name, and otherwise as it is.
LocalProfile(r) ==
    LET m == model[LocalModel(r)] at == Len(LocalConnection(r)) IN
    IF m = <<>> THEN <<[name |-> lmStudio, conn |-> Local(r), at |-> at]>>
    ELSE IF m[Len(m)].name # lmStudio THEN Append(m, [m[Len(m)] EXCEPT !.name = lmStudio])
    ELSE m

\* What the route wrote before its last step.
Prepared(r) ==
    /\ conn' = [conn EXCEPT ![Local(r)] = LocalConnection(r)]
    /\ model' = [model EXCEPT ![LocalModel(r)] = LocalProfile(r)]
    /\ seen' = [seen EXCEPT ![Local(r)][Len(LocalConnection(r))] = lmStudio]

Probed(k, r) ==
    /\ request[k].kind = "local" /\ request[k].room = r
    /\ LET c == LocalConnection(r) IN c[Len(c)] = "enabled"
    /\ Len(LocalProfile(r)) <= MaxRevision
    /\ request' = [request EXCEPT ![k] = Idle]

(* One transaction: connection, observation, model and binding, or, when   *)
(* the binding has moved on or the model cannot be bound, none of them.    *)
BindLocal(k, r) ==
    /\ Probed(k, r) /\ Prepared(r)
    /\ LET p == LocalProfile(r)[Len(LocalProfile(r))]
       IN IF p.conn = Local(r) THEN p.at = Len(LocalConnection(r)) ELSE Enabled(p.conn, p.at)
    /\ Bind(r, request[k].expected, LocalModel(r), Len(LocalProfile(r)), "lmstudio")
    /\ UNCHANGED <<pinned, asked, snapshot, lmStudio>>

(* The server stops and starts, perhaps with another model configured.     *)
Restart(name) ==
    /\ name # lmStudio
    /\ lmStudio' = name /\ request' = [k \in Clients |-> Idle]
    /\ asked' = [r \in Rooms |-> None]
    /\ UNCHANGED <<conn, model, seen, binding, pinned, snapshot, told>>

-----------------------------------------------------------------------------
(* A turn.  Its decision is pinned once, in the pending row of its request, *)
(* which outlives the run of the turn.                                      *)

\* The decision a run of the turn works with.
Pinned(r) == IF pinned[r] = None THEN Decision(r) ELSE pinned[r]

\* The provider resolver of the server: LM Studio is asked only for the model
\* the server is configured with.
Served(d) == IsCloud(d.model.conn) \/ d.model.name = lmStudio

\* The model that is then called.
Called(d) == IF IsCloud(d.model.conn) THEN d.model.name ELSE lmStudio

(* A run pins the decision, or takes the pinned one, and if it is current   *)
(* asks its provider; a decision the resolver refuses ends the run, and the *)
(* row stays pending with it.  A turn that is pending has no snapshot yet.  *)
Ask(r) ==
    LET d == Pinned(r) IN
    /\ asked[r] = None
    /\ pinned[r] = None => Resolves(r)
    /\ Current(r, d)
    /\ pinned' = [pinned EXCEPT ![r] = d]
    /\ snapshot' = [snapshot EXCEPT ![r] = None]
    /\ IF Served(d) THEN asked' = [asked EXCEPT ![r] = Called(d)] ELSE UNCHANGED asked
    /\ UNCHANGED <<conn, model, seen, binding, told, request, lmStudio>>

(* A run that finds the pinned decision no longer current ends the turn as  *)
(* stale, without asking.                                                   *)
GiveUp(r) ==
    /\ asked[r] = None /\ pinned[r] # None /\ ~Current(r, pinned[r])
    /\ pinned' = [pinned EXCEPT ![r] = None]
    /\ UNCHANGED <<conn, model, seen, binding, asked, snapshot, told, request, lmStudio>>

(* The provider fails; the row stays pending with its decision.             *)
AskFails(r) ==
    /\ asked[r] # None
    /\ asked' = [asked EXCEPT ![r] = None]
    /\ UNCHANGED <<conn, model, seen, binding, pinned, snapshot, told, request, lmStudio>>

\* Mutant: a reply is committed as its decision was pinned.
CompletesUnchecked(r) ==
    /\ asked[r] # None
    /\ IF Resolves(r)
       THEN snapshot' = [snapshot EXCEPT ![r] = <<pinned[r], Decision(r), asked[r]>>]
       ELSE UNCHANGED snapshot
    /\ pinned' = [pinned EXCEPT ![r] = None] /\ asked' = [asked EXCEPT ![r] = None]
    /\ UNCHANGED <<conn, model, seen, binding, told, request, lmStudio>>

(* completeMessage and commitDecisionSnapshotInTransaction, after an        *)
(* answer: a decision that is no longer current makes the turn stale.       *)
Complete(r) ==
    /\ asked[r] # None
    /\ IF Current(r, pinned[r])
       THEN snapshot' = [snapshot EXCEPT ![r] = <<pinned[r], Decision(r), asked[r]>>]
       ELSE UNCHANGED snapshot
    /\ pinned' = [pinned EXCEPT ![r] = None] /\ asked' = [asked EXCEPT ![r] = None]
    /\ UNCHANGED <<conn, model, seen, binding, told, request, lmStudio>>

Next ==
    \/ \E c \in Connections : Create(c) \/ Replace(c) \/ \E s \in {"disabled", "deleted"} : Retire(c, s)
    \/ \E k \in Clients : \/ \E c \in Connections, n \in Names : BeginTest(k, c, n)
                          \/ EndTest(k) \/ Fails(k)
                          \/ \E r \in Rooms : Probe(k, r) \/ BindLocal(k, r)
    \/ \E m \in Models, c \in Connections, n \in Names : SaveModel(m, c, n)
    \/ \E r \in Rooms : \/ Ask(r) \/ GiveUp(r) \/ AskFails(r) \/ Complete(r)
                        \/ \E m \in Models : BindCloud(r, m)
    \/ \E n \in Names : Restart(n)

Spec == Init /\ [][Next]_vars

-----------------------------------------------------------------------------
(* A reply is attributed to the provider in force when it is committed, in  *)
(* every detail, although the check compares revisions only, and to the     *)
(* model that was called, although the decision it is called for may have   *)
(* been pinned under another configuration of the server.                   *)
CommitsInForce ==
    \A r \in Rooms : snapshot[r] # None =>
        /\ snapshot[r][1] = snapshot[r][2]
        /\ snapshot[r][3] = snapshot[r][1].model.name

(* A client that was told of a binding revision has it, for ever: no two   *)
(* clients win one revision, whatever happened during the probe.           *)
AnswersHold ==
    \A r \in Rooms : \A i, j \in DOMAIN told[r] :
        /\ binding[r][told[r][i][1]] = told[r][i][2]
        /\ told[r][i][1] = told[r][j][1] => i = j

\* What a turn of the room needs in order to be answered.
Speaks(r) == Resolves(r) /\ Served(Decision(r))

(* While LM Studio's connection is not retired a room bound to it resolves, *)
(* through restarts, name changes and lost races; and its turns are         *)
(* answered exactly if the model it was bound with last is the one that is  *)
(* configured.  After a restart with another one it is silent (test/        *)
(* integration/provider-api.test.ts:648).                                   *)
LocalRoomSpeaks ==
    OwnIds => \A r \in Rooms :
        binding[r] # <<>> /\ binding[r][Len(binding[r])].model = LocalModel(r)
            /\ Len(conn[Local(r)]) = 1 =>
          /\ Resolves(r)
          /\ Speaks(r) <=> model[LocalModel(r)][Len(model[LocalModel(r)])].name = lmStudio

(* Whatever became of room, model and configuration, a client that is told  *)
(* that LM Studio is selected has a room that speaks.                       *)
Selecting ==
    OwnIds => \A r \in Rooms :
        told'[r] # told[r] /\ told'[r][Len(told'[r])][3] = "lmstudio" => Speaks(r)'

SelectedSpeaks ==
    [][Selecting]_vars

Renewal ==
    \A r \in Rooms : ~Resolves(r) /\ Resolves(r)' =>
          \/ Len(binding'[r]) > Len(binding[r])
          \/ seen' # seen

(* After a connection is replaced, disabled or deleted, nothing is         *)
(* generated through it until somebody tests the new revision, saves a     *)
(* model for it and binds the room again, or a turn pinned before ends.    *)
ReplacedIsRenewed ==
    [][Renewal]_vars

(* test/integration/provider-api.test.ts: "LM Studio selection creates an  *)
(* append-only local binding".                                             *)
LocalSelectionIsLocal ==
    \A r \in Rooms : \A i \in DOMAIN told[r] :
        LET b == told[r][i][2]
        IN told[r][i][3] = "lmstudio" => ~IsCloud(model[b.model][b.at].conn)

=============================================================================
