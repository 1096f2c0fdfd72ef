---------------------------- MODULE ProviderPanel ----------------------------
(***************************************************************************)
(* The page's model setup (public/app.js): a dialog with one connection,   *)
(* one key and one disclosure, whose buttons each send one request or, to  *)
(* bind a room, two.  One of these actions waits at a time.  The dialog    *)
(* can be closed while it does, the room switched, and the dialog opened   *)
(* again, which reads connection and binding anew.  What an action reads   *)
(* after its wait is what the page holds then.                             *)
(*                                                                         *)
(* Another tab changes connections and bindings; requests and answers are  *)
(* lost.  A connection's definition is part of its id here: the panel      *)
(* treats a change of either alike.                                        *)
(***************************************************************************)
EXTENDS Naturals, Sequences

CONSTANTS
    Rooms, Ids, Models,
    Connected,      \* connections set up before
    Bound,          \* rooms bound to LM Studio before
    Actions,        \* the actions this page's user performs
    MaxRevision,    \* bound on the revisions of connections, profiles and bindings
    MaxActions,     \* bound on the actions
    Loads,          \* bound on readings under way at a time
    MaxOpens,       \* bound on the times the dialog is opened
    MaxOthers,      \* bound on another tab's changes and switches of the room
    MaxLosses,      \* bound on lost requests and answers
    None

\* What the constants are; the modules that instantiate this one assume it.
ProviderPanelConstants ==
    /\ Actions \subseteq {"save", "replace", "models", "test", "bind", "local", "disable", "delete"}
    /\ Connected \subseteq Ids /\ Bound \subseteq Rooms
    /\ {MaxRevision, MaxActions, Loads, MaxOpens, MaxOthers, MaxLosses} \subseteq Nat
    /\ None \notin Rooms \cup Ids \cup Models

VARIABLES
    conn,       \* per connection: the states of its revisions
    key,        \* per connection: the submission stored with its last revision
    mutation,   \* per connection: the mutation id of its last revision
    profile,    \* per profile id: its revisions
    bound,      \* per room: the revisions of its binding
    ui,         \* what the page shows and its user has entered
    mine,       \* providerConnection
    known,      \* providerBinding
    act,        \* the action in pending
    load,       \* the readings the opened dialogs began
    history,    \* tests passed, keys reported as stored
    left        \* actions, openings, others' changes and losses still to come

server == <<conn, key, mutation, profile, bound>>
page   == <<ui, mine, known>>
vars   == <<server, page, act, load, history, left>>

Revisions == 1..MaxRevision
ProfileIds == Ids \X Revisions
States == {"enabled", "disabled", "deleted"}
ProfileRevision == [conn : Ids, at : Revisions, model : Models]
BindingRevision == [kind : {"cloud", "lmstudio"}, profile : ProfileIds \cup {None}, at : Nat]

Nothing == [kind |-> None, step |-> 0, got |-> "none"]
TypeOK ==
    /\ conn \in [Ids -> Seq(States)] /\ key \in [Ids -> Nat] /\ mutation \in [Ids -> Nat]
    /\ profile \in [ProfileIds -> Seq(ProfileRevision)]
    /\ bound \in [Rooms -> Seq(BindingRevision)]
    /\ ui \in [dialog : BOOLEAN, room : Rooms, path : {"cloud", "lmstudio"}, form : Ids, key : BOOLEAN,
               ack : (Ids \X Nat) \cup {None}, options : BOOLEAN, choice : Models \cup {None},
               tested : Models \cup {None}, mutation : Nat]
    /\ mine \in [id : Ids, at : Revisions, state : States] \cup {None}
    /\ known = None \/ known.room \in Rooms
    /\ act.kind \in Actions \cup {None}
    /\ DOMAIN load = 1..Loads /\ \A l \in 1..Loads : load[l].at \in {"idle", "list", "binding"}
    /\ history.passed \subseteq Ids \X Nat \X Models
    /\ history.accepted \in [Ids -> Nat \X Nat]
    /\ left \in [actions : Nat, opens : Nat, others : Nat, losses : Nat]

Local == [kind |-> "lmstudio", profile |-> None, at |-> 0]
Idle == [at |-> "idle", room |-> None, got |-> "none", answer |-> None]

\* A page that shows a room.  Some connections are set up, some rooms are bound.
Init ==
    /\ conn = [i \in Ids |-> IF i \in Connected THEN <<"enabled">> ELSE <<>>] /\ key = [i \in Ids |-> 0]
    /\ mutation = [i \in Ids |-> 0] /\ profile = [p \in ProfileIds |-> <<>>]
    /\ bound = [r \in Rooms |-> IF r \in Bound THEN <<Local>> ELSE <<>>]
    /\ \E r \in Rooms, i \in Ids :
           ui = [dialog |-> FALSE, room |-> r, path |-> "cloud", form |-> i, key |-> FALSE, ack |-> None,
                 options |-> FALSE, choice |-> None, tested |-> None, mutation |-> 0]
    /\ mine = None /\ known = None /\ act = Nothing /\ load = [l \in 1..Loads |-> Idle]
    /\ history = [passed |-> {}, accepted |-> [i \in Ids |-> <<0, 0>>]]
    /\ left = [actions |-> MaxActions, opens |-> MaxOpens, others |-> MaxOthers, losses |-> MaxLosses]

-----------------------------------------------------------------------------
(* What the panel shows                                                    *)

Current(u, m) == m # None /\ m.state = "enabled" /\ m.id = u.form

\* The connection revision a disclosure is given for: with a key entered, the
\* one that its replacement would make.
Proposal(u, m) ==
    <<u.form, IF Current(u, m) THEN m.at + (IF u.key THEN 1 ELSE 0) ELSE 1>>

\* renderProviderSetup clears a disclosure that is not for what is shown now.
Rendered(u, m) ==
    [u EXCEPT !.ack = IF u.path = "cloud" /\ u.ack = Proposal(u, m) THEN @ ELSE None]

ready == ui.path = "cloud" /\ Current(ui, mine)
acknowledged == ui.path = "cloud" /\ ui.ack # None /\ ui.ack = Proposal(ui, mine)

\* providerBindDisabled
Bindable ==
    /\ ready /\ acknowledged
    /\ ui.tested # None /\ ui.tested = ui.choice
    /\ ~(/\ known # None /\ known.kind = "cloud"
         /\ known.model = ui.choice /\ known.conn = mine.id /\ known.connAt = mine.at)

\* The buttons' state.
Offered(kind) ==
    CASE kind = "save" -> ui.path = "cloud" /\ ~ready /\ acknowledged
      [] kind = "replace" -> ready /\ ui.key /\ acknowledged
      [] kind \in {"models", "disable"} -> ready
      [] kind = "test" -> ready /\ ui.choice # None
      [] kind = "delete" -> mine # None
      [] kind = "bind" -> Bindable
      [] kind = "local" -> ui.path = "cloud"

\* acceptConnection
Accepts(u, m) ==
    /\ mine' = m
    /\ ui' = Rendered([u EXCEPT !.ack = None, !.options = FALSE, !.choice = None, !.tested = None,
                                !.mutation = 0], m)

-----------------------------------------------------------------------------
(* What the user does in the dialog                                        *)

Edits(u) ==
    /\ ui.dialog /\ ui' = u /\ ui' # ui
    /\ UNCHANGED <<server, mine, known, act, load, history, left>>

TypeKey == Edits([ui EXCEPT !.key = TRUE, !.ack = None])
TypeId(i) == Edits([ui EXCEPT !.form = i, !.ack = None, !.mutation = 0])
ChooseModel(m) == ui.options /\ Edits([ui EXCEPT !.choice = m, !.tested = None])
ChooseCloud == act = Nothing /\ Edits(Rendered([ui EXCEPT !.path = "cloud"], mine))

Tick ==
    /\ ui.dialog /\ ui.path = "cloud" /\ ~acknowledged
    /\ ui' = [ui EXCEPT !.ack = Proposal(ui, mine)]
    /\ UNCHANGED <<server, mine, known, act, load, history, left>>

Close == Edits(Rendered([ui EXCEPT !.dialog = FALSE, !.key = FALSE], mine))

\* Another room is rendered: neither an action of the panel nor, for a selection
\* begun before, the open dialog holds that up.
SwitchRoom(r) ==
    /\ r # ui.room /\ left.others > 0
    /\ ui' = [ui EXCEPT !.room = r]
    /\ left' = [left EXCEPT !.others = @ - 1]
    /\ UNCHANGED <<server, mine, known, act, load, history>>

-----------------------------------------------------------------------------
(* Opening the dialog: the connections, then the room's binding.           *)

Open(l) ==
    /\ ~ui.dialog /\ left.opens > 0 /\ load[l] = Idle
    /\ ui' = Rendered([ui EXCEPT !.dialog = TRUE], mine)
    /\ load' = [load EXCEPT ![l].at = "list"]
    /\ left' = [left EXCEPT !.opens = @ - 1]
    /\ UNCHANGED <<server, mine, known, act, history>>

\* The binding with the model revision it names.
Binding(r) ==
    LET b == bound[r][Len(bound[r])]
        m == profile[b.profile][b.at]
    IN IF b.kind = "cloud"
       THEN [room |-> r, at |-> Len(bound[r]), kind |-> b.kind, profile |-> b.profile, profileAt |-> b.at,
             conn |-> m.conn, connAt |-> m.at, model |-> m.model]
       ELSE [room |-> r, at |-> Len(bound[r]), kind |-> b.kind]

ServeLoad(l) ==
    /\ load[l].at # "idle" /\ load[l].got = "none"
    /\ load' = [load EXCEPT
                  ![l].got = IF load[l].at = "binding" /\ bound[load[l].room] = <<>> THEN "lost" ELSE "ok",
                  ![l].answer = IF load[l].at = "list" THEN conn
                                ELSE IF bound[load[l].room] = <<>> THEN None ELSE Binding(load[l].room)]
    /\ UNCHANGED <<server, page, act, history, left>>

LoseLoad(l) ==
    /\ load[l].at # "idle" /\ load[l].got = "none" /\ left.losses > 0
    /\ load' = [load EXCEPT ![l].got = "lost"]
    /\ left' = [left EXCEPT !.losses = @ - 1]
    /\ UNCHANGED <<server, page, act, history>>

\* loadCurrentProviderConnection: the connection entered, or an enabled one.
ListLoaded(l) ==
    /\ load[l].at = "list" /\ load[l].got = "ok"
    /\ load' = [load EXCEPT ![l] = [Idle EXCEPT !.at = "binding", !.room = ui.room]]
    /\ LET list == load[l].answer
           Newest(i) == list[i][Len(list[i])]
           enabled == {i \in Ids : list[i] # <<>> /\ Newest(i) = "enabled"}
           found == IF list[ui.form] # <<>> THEN {ui.form} ELSE enabled
       IN \/ /\ found = {} /\ mine' = None /\ ui' = Rendered(ui, None)
          \/ \E i \in found :
                 Accepts([ui EXCEPT !.form = i], [id |-> i, at |-> Len(list[i]), state |-> Newest(i)])
    /\ UNCHANGED <<server, known, act, history, left>>

ListFails(l) ==
    /\ load[l].at = "list" /\ load[l].got = "lost"
    /\ load' = [load EXCEPT ![l] = Idle]
    /\ UNCHANGED <<server, page, act, history, left>>

BindingLoaded(l) ==
    /\ load[l].at = "binding" /\ load[l].got # "none"
    /\ load' = [load EXCEPT ![l] = Idle]
    /\ known' = load[l].answer
    /\ ui' = IF load[l].got = "lost" THEN Rendered(ui, mine)
             ELSE Rendered([ui EXCEPT !.path = load[l].answer.kind], mine)
    /\ UNCHANGED <<server, mine, act, history, left>>

-----------------------------------------------------------------------------
(* providerAction                                                          *)

submission == MaxActions - left.actions + 1

\* The request is built before the first wait.  A key is numbered by its
\* submission, and so is a new mutation id.
Click(kind) ==
    /\ kind \in Actions /\ ui.dialog /\ act = Nothing /\ Offered(kind) /\ left.actions > 0
    /\ kind = "save" => ui.key
    /\ left' = [left EXCEPT !.actions = @ - 1]
    /\ LET id == IF kind = "save" THEN ui.form ELSE IF mine = None THEN None ELSE mine.id
           at == IF kind = "save" \/ mine = None THEN 0 ELSE mine.at
           hosted == known # None /\ known.kind = "cloud"
           next == IF known = None THEN 1 ELSE known.at + 1
       IN /\ kind = "bind" /\ ~hosted => next \in Revisions
          /\ act' = [kind |-> kind, step |-> 1, got |-> "none", answer |-> None, id |-> id, at |-> at,
                     model |-> ui.choice, sub |-> submission, ack |-> ui.ack,
                     mutation |-> IF ui.mutation = 0 THEN submission ELSE ui.mutation,
                     profile |-> IF hosted THEN known.profile ELSE <<id, next>>,
                     profileAt |-> IF hosted THEN known.profileAt ELSE 0,
                     room |-> ui.room, over |-> known, disclosed |-> at]
    /\ ui' = [ui EXCEPT !.mutation = IF kind = "replace" /\ @ = 0 THEN submission ELSE @,
                        !.path = IF kind = "local" THEN "lmstudio" ELSE @,
                        !.ack = IF kind = "local" THEN None ELSE @]
    /\ UNCHANGED <<server, mine, known, load, history>>

Last(i) == IF conn[i] = <<>> THEN None ELSE conn[i][Len(conn[i])]
Answer(got, answer) == act' = [act EXCEPT !.got = got, !.answer = answer]
Refuses == Answer("refused", None) /\ UNCHANGED <<server, history>>

Stores(n) ==
    /\ key' = [key EXCEPT ![act.id] = act.sub]
    /\ Answer("ok", [id |-> act.id, at |-> n, state |-> "enabled"])
    /\ UNCHANGED <<profile, bound, history>>

ServeSave ==
    IF conn[act.id] = <<>>
    THEN conn' = [conn EXCEPT ![act.id] = <<"enabled">>] /\ Stores(1) /\ UNCHANGED mutation
    ELSE Refuses

ServeReplace ==
    LET n == act.at + 1 IN
    CASE /\ Len(conn[act.id]) = n /\ Last(act.id) = "enabled" /\ mutation[act.id] = act.mutation ->
             Stores(n) /\ UNCHANGED <<conn, mutation>>
      [] Len(conn[act.id]) = act.at /\ Last(act.id) # "deleted" /\ n \in Revisions ->
             /\ conn' = [conn EXCEPT ![act.id] = Append(@, "enabled")]
             /\ mutation' = [mutation EXCEPT ![act.id] = act.mutation]
             /\ Stores(n)
      [] OTHER -> Refuses

ServeRetire(state) ==
    LET from == IF state = "disabled" THEN {"enabled"} ELSE {"enabled", "disabled"} IN
    CASE /\ Last(act.id) = state
         /\ Len(conn[act.id]) \in {act.at + 1} \cup (IF state = "deleted" THEN {act.at} ELSE {}) ->
             /\ Answer("ok", [id |-> act.id, at |-> Len(conn[act.id]), state |-> state])
             /\ UNCHANGED <<server, history>>
      [] Len(conn[act.id]) = act.at /\ Last(act.id) \in from /\ act.at < MaxRevision ->
             /\ conn' = [conn EXCEPT ![act.id] = Append(@, state)]
             /\ Answer("ok", [id |-> act.id, at |-> act.at + 1, state |-> state])
             /\ UNCHANGED <<key, mutation, profile, bound, history>>
      [] OTHER -> Refuses

InForce(i, n) == Len(conn[i]) = n /\ Last(i) = "enabled"

ServeCall ==
    IF InForce(act.id, act.at)
    THEN /\ history' = IF act.kind = "test"
                       THEN [history EXCEPT !.passed = @ \cup {<<act.id, act.at, act.model>>}]
                       ELSE history
         /\ Answer("ok", None) /\ UNCHANGED server
    ELSE Refuses

\* The model profile: made with the id the page chose, or revised.
ServeProfile ==
    IF /\ InForce(act.id, act.at)
       /\ Len(profile[act.profile]) = act.profileAt /\ act.profileAt < MaxRevision
    THEN /\ profile' = [profile EXCEPT ![act.profile] =
                          Append(@, [conn |-> act.id, at |-> act.at, model |-> act.model])]
         /\ Answer("ok", None) /\ UNCHANGED <<conn, key, mutation, bound, history>>
    ELSE Refuses

\* A binding's id is made from its room's: over must be of the same room.
Expected == IF act.over = None THEN 0 ELSE act.over.at
Binds(b) ==
    /\ bound' = [bound EXCEPT ![act.room] = Append(@, b)]
    /\ Answer("ok", None) /\ UNCHANGED <<conn, key, mutation, profile, history>>
Expects ==
    /\ Len(bound[act.room]) = Expected /\ Expected < MaxRevision
    /\ act.over # None => act.over.room = act.room
ServeBinding ==
    IF /\ Expects
       /\ Len(profile[act.profile]) = act.profileAt + 1
       /\ InForce(act.id, act.at) /\ act.disclosed = act.at
    THEN Binds([kind |-> "cloud", profile |-> act.profile, at |-> act.profileAt + 1])
    ELSE Refuses
ServeLocal ==
    IF Expects THEN Binds(Local) ELSE Refuses

Serve ==
    /\ act # Nothing /\ act.got = "none"
    /\ CASE act.kind = "save" -> ServeSave
         [] act.kind = "replace" -> ServeReplace
         [] act.kind = "disable" -> ServeRetire("disabled")
         [] act.kind = "delete" -> ServeRetire("deleted")
         [] act.kind \in {"models", "test"} -> ServeCall
         [] act.kind = "bind" /\ act.step = 1 -> ServeProfile
         [] act.kind = "bind" /\ act.step = 2 -> ServeBinding
         [] act.kind = "local" -> ServeLocal
    /\ UNCHANGED <<page, load, left>>

\* A request or its answer is lost.
Lose ==
    /\ act # Nothing /\ act.got # "lost" /\ left.losses > 0
    /\ Answer("lost", None) /\ left' = [left EXCEPT !.losses = @ - 1]
    /\ UNCHANGED <<server, page, load, history>>

Ends == act' = Nothing
Credential == act.kind \in {"save", "replace"}
\* A submitted key leaves the field, however its request fared.
Cleared == IF Credential THEN [ui EXCEPT !.key = FALSE] ELSE ui

Failed ==
    /\ act # Nothing /\ act.got \in {"lost", "refused"}
    /\ Ends
    /\ ui' = Rendered([Cleared EXCEPT
                 !.path = IF act.kind = "local" /\ (known = None \/ known.kind # "lmstudio")
                          THEN "cloud" ELSE @], mine)
    /\ UNCHANGED <<server, mine, known, load, history, left>>

ConnectionAnswered ==
    /\ act.kind \in {"save", "replace", "disable", "delete"}
    /\ act.got = "ok"
    /\ Accepts(Cleared, act.answer)
    /\ history' = IF Credential
                  THEN [history EXCEPT !.accepted[act.id] = <<act.answer.at, act.sub>>] ELSE history
    /\ Ends /\ UNCHANGED <<server, known, load, left>>

ModelsAnswered ==
    /\ act.kind \in {"models", "test"} /\ act.got = "ok"
    /\ ui' = IF act.kind = "test" THEN [ui EXCEPT !.tested = act.model]
             ELSE [ui EXCEPT !.options = TRUE, !.choice = None]
    /\ Ends /\ UNCHANGED <<server, mine, known, load, history, left>>

\* The second request is for the room, over the binding and with the connection
\* revision the page holds now.
ProfileAnswered ==
    /\ act.kind = "bind" /\ act.step = 1 /\ act.got = "ok"
    /\ act' = IF mine = None THEN Nothing
              ELSE [act EXCEPT !.step = 2, !.got = "none", !.room = ui.room, !.over = known,
                               !.disclosed = mine.at]
    /\ UNCHANGED <<server, page, load, history, left>>

BindingAnswered ==
    /\ act.got = "ok" /\ (act.kind = "local" \/ (act.kind = "bind" /\ act.step = 2))
    /\ known' = IF act.kind = "local"
                THEN [room |-> act.room, at |-> Expected + 1, kind |-> "lmstudio"]
                ELSE IF mine = None THEN known
                ELSE [room |-> act.room, at |-> Expected + 1, kind |-> "cloud",
                      profile |-> act.profile, profileAt |-> act.profileAt + 1,
                      conn |-> act.id, connAt |-> act.at, model |-> act.model]
    /\ Ends /\ UNCHANGED <<server, ui, mine, load, history, left>>

-----------------------------------------------------------------------------
(* Another tab replaces a key, retires a connection or binds a room.       *)

Elsewhere ==
    /\ left.others > 0 /\ left' = [left EXCEPT !.others = @ - 1]
    /\ \/ \E i \in Ids, state \in {"enabled", "disabled"} :
              /\ Last(i) = "enabled" /\ Len(conn[i]) < MaxRevision
              /\ conn' = [conn EXCEPT ![i] = Append(@, state)]
              /\ mutation' = [mutation EXCEPT ![i] = 0]
              /\ key' = [key EXCEPT ![i] = 0]
              /\ UNCHANGED <<profile, bound>>
       \/ \E r \in Rooms :
              /\ Len(bound[r]) < MaxRevision
              /\ bound' = [bound EXCEPT ![r] = Append(@, Local)]
              /\ UNCHANGED <<conn, key, mutation, profile>>
    /\ UNCHANGED <<page, act, load, history>>

Next ==
    \/ TypeKey \/ ChooseCloud \/ Tick \/ Close
    \/ \E i \in Ids : TypeId(i)
    \/ \E m \in Models : ChooseModel(m)
    \/ \E r \in Rooms : SwitchRoom(r)
    \/ \E l \in 1..Loads : Open(l) \/ ServeLoad(l) \/ LoseLoad(l) \/ ListLoaded(l) \/ ListFails(l) \/ BindingLoaded(l)
    \/ \E kind \in Actions : Click(kind)
    \/ Serve \/ Lose \/ Failed
    \/ ConnectionAnswered \/ ModelsAnswered \/ ProfileAnswered \/ BindingAnswered
    \/ Elsewhere

Spec == Init /\ [][Next]_vars

-----------------------------------------------------------------------------
(***************************************************************************)
(* No key leaves the page for a connection revision whose disclosure the   *)
(* user did not tick, whatever was read anew, retried or edited meanwhile  *)
(* (hasCurrentProviderAcknowledgement).                                    *)
(***************************************************************************)
StoredUnderDisclosure ==
    \A i \in Ids : key'[i] # key[i] /\ key'[i] # 0 => act.ack = <<i, Len(conn'[i])>>

(***************************************************************************)
(* No room is bound through a connection revision without a disclosure.    *)
(* It may be the one of the next revision: with a key in its field the     *)
(* panel shows and takes a disclosure for that, and binds all the same.    *)
(***************************************************************************)
BoundUnderDisclosure ==
    \A p \in ProfileIds : profile'[p] # profile[p] =>
        LET made == profile'[p][Len(profile'[p])]
        IN act.ack \in {<<made.conn, made.at>>, <<made.conn, made.at + 1>>}

(***************************************************************************)
(* What is bound was tested: at exactly the connection revision its model  *)
(* profile names, though a test may be answered after the connection was   *)
(* read anew (providerTestedModel).                                        *)
(***************************************************************************)
BindsWhatWasTested ==
    \A p \in ProfileIds : \A n \in DOMAIN profile[p] :
        <<profile[p][n].conn, profile[p][n].at, profile[p][n].model>> \in history.passed

(***************************************************************************)
(* A key the panel reported as stored is the one that is stored, as long   *)
(* as its revision is the current one: no retry under an old mutation id   *)
(* replaces it (providerCredentialMutationId).                             *)
(***************************************************************************)
AcceptedKeyIsStored ==
    \A i \in Ids :
        LET a == history.accepted[i]
        IN a[1] > 0 /\ a[1] = Len(conn[i]) /\ Last(i) = "enabled" => key[i] = a[2]
=============================================================================
