----------------------------- MODULE RoomLibrary -----------------------------
(***************************************************************************)
(* The room library in the companion's database: rooms in the order of     *)
(* their last event, the selected room with its revision, and the two      *)
(* ledgers that make selecting a room and starting one idempotent.         *)
(*                                                                         *)
(* Every command is one transaction.  Clients send a command again under   *)
(* the id it had, as often as they like, or under an id used before.       *)
(***************************************************************************)
EXTENDS Naturals, Sequences, SequencesExt, FiniteSets

CONSTANTS
    Rooms, First,    \* ids of rooms; the room the database begins with
    Ids,             \* request ids
    Limit,           \* ROOM_LIBRARY_LIMIT
    MaxRevision,     \* bound on the selections
    None

VARIABLES
    library,     \* the rooms, the one with the latest event last
    selected,    \* current_room
    revision,    \* its selection_revision
    ledger,      \* per family and id: the command and its result, or None
    watched,     \* any one command,
    told         \* and the answers clients were given to it

vars == <<library, selected, revision, ledger, watched, told>>

Kinds == {"select", "cast"}
Commands == [kind : Kinds, id : Ids, room : Rooms \cup {None}, expected : 0..MaxRevision]
WellFormed(c) == c.kind = "cast" <=> c.room = None
Results  == [room : Rooms, revision : 1..MaxRevision]
Refused  == [room |-> None, revision |-> 0]
Entries  == [of : Commands, result : Results]

\* What the constants are; the modules that instantiate this one assume it.
RoomLibraryConstants ==
    /\ First \in Rooms /\ None \notin Rooms /\ None \notin Entries
    /\ Limit \in Nat \ {0} /\ MaxRevision \in Nat

TypeOK ==
    /\ library \in Seq(Rooms) /\ IsInjective(library)
    /\ selected \in ToSet(library) /\ revision \in 0..MaxRevision
    /\ ledger \in [Kinds \X Ids -> Entries \cup {None}]
    /\ watched \in Commands /\ told \subseteq Results \cup {Refused}

Init ==
    /\ library = <<First>> /\ selected = First /\ revision = 0
    /\ ledger = [k \in Kinds \X Ids |-> None]
    /\ watched \in {c \in Commands : WellFormed(c)} /\ told = {}

-----------------------------------------------------------------------------
Key(c) == <<c.kind, c.id>>
Prior(c) == ledger[Key(c)]

Answer(c, a) ==
    /\ told' = IF c = watched THEN told \cup {a} ELSE told
    /\ UNCHANGED watched

\* An id used before: the result of its command, or an error for another one.
Replay(c) ==
    /\ Prior(c) # None
    /\ Answer(c, IF Prior(c).of = c THEN Prior(c).result ELSE Refused)
    /\ UNCHANGED <<library, selected, revision, ledger>>

Refuse(c) ==
    /\ Answer(c, Refused)
    /\ UNCHANGED <<library, selected, revision, ledger>>

Commit(c, r) ==
    LET result == [room |-> r, revision |-> revision + 1]
    IN /\ revision < MaxRevision
       /\ selected' = r /\ revision' = revision + 1
       /\ ledger' = [ledger EXCEPT ![Key(c)] = [of |-> c, result |-> result]]
       /\ Answer(c, result)

\* Mutant: the revision is written, not compared and counted up.
SelectAnyway(c) ==
    /\ c.kind = "select" /\ Prior(c) = None
    /\ c.room \in ToSet(library) /\ c.expected < MaxRevision
    /\ selected' = c.room /\ revision' = c.expected + 1
    /\ LET result == [room |-> c.room, revision |-> c.expected + 1]
       IN /\ ledger' = [ledger EXCEPT ![Key(c)] = [of |-> c, result |-> result]]
          /\ Answer(c, result)
    /\ UNCHANGED library

\* selectRoom: compare and swap of the revision.
Select(c) ==
    /\ c.kind = "select" /\ Prior(c) = None
    /\ c.room \in ToSet(library)
    /\ IF c.expected = revision
       THEN Commit(c, c.room) /\ UNCHANGED library
       ELSE Refuse(c)

\* replaceCurrentRoomCast: a new room, with its first event, is selected.
Cast(c) ==
    /\ c.kind = "cast" /\ Prior(c) = None
    /\ IF c.expected = revision /\ Len(library) < Limit
       THEN \E r \in Rooms \ ToSet(library) :
                /\ Commit(c, r)
                /\ library' = Append(library, r)
       ELSE Refuse(c)

\* The trigger on events: the room of a new event becomes the latest.
Omit(s, i) == SubSeq(s, 1, i - 1) \o SubSeq(s, i + 1, Len(s))
Event(r) ==
    /\ \E i \in DOMAIN library :
           library[i] = r /\ library' = Append(Omit(library, i), r)
    /\ UNCHANGED <<selected, revision, ledger, watched, told>>

\* A client names a revision it has been told of.
Sent(c) == WellFormed(c) /\ c.expected <= revision

Next ==
    \/ \E c \in Commands : Sent(c) /\ (Replay(c) \/ Select(c) \/ Cast(c))
    \/ \E r \in Rooms : Event(r)

Spec == Init /\ [][Next]_vars

-----------------------------------------------------------------------------
\* listRooms: the selected room and the latest of the others, latest first.
Listed ==
    LET others == SelectSeq(library, LAMBDA r : r # selected)
        least(n) == IF Len(others) > n THEN Len(others) - n + 1 ELSE 1
        recent == ToSet(SubSeq(others, least(Limit - 1), Len(others)))
    IN Reverse(SelectSeq(library, LAMBDA r : r = selected \/ r \in recent))

(***************************************************************************)
(* The page refuses a list that is empty, longer than the limit, or        *)
(* without exactly one selected room.  What the server lists is never      *)
(* refused, and no room of the library is missing from it, however many    *)
(* rooms there are and whichever was active last.                          *)
(***************************************************************************)
ListIsWhole ==
    /\ Len(Listed) \in 1..Limit
    /\ ToSet(Listed) = ToSet(library)

(***************************************************************************)
(* A command sent again under its id never gets a second outcome: it is    *)
(* not accepted twice with different results, and neither accepted after   *)
(* it was refused nor refused after it was accepted (cast.ts: the ledger   *)
(* is read before the revision is compared; revisions never return).       *)
(***************************************************************************)
AnswersAreFinal ==
    Cardinality(told) <= 1

\* The selections in the order of their revisions, read off the ledgers alone.
Accepted == {ledger[k] : k \in DOMAIN ledger} \ {None}
SelectedAt(n) ==
    IF n = 0 THEN First
    ELSE (CHOOSE a \in Accepted : a.result.revision = n).result.room
Selections == [n \in 1..revision + 1 |-> SelectedAt(n - 1)]
Promise == INSTANCE RoomAuthority WITH hist <- Selections

(***************************************************************************)
(* The library keeps the promise of RoomAuthority: two accepted commands   *)
(* never share a revision and none overwrites a later one (cast.ts: the    *)
(* ledger and the selection are written in one transaction).               *)
(***************************************************************************)
KeepsAuthority == Promise!Authority

(***************************************************************************)
(* The ledgers account for the selection: one entry per revision, and the  *)
(* last of them names the room that is selected.                           *)
(***************************************************************************)
LedgerTellsSelection ==
    /\ {a.result.revision : a \in Accepted} = 1..revision
    /\ Cardinality(Accepted) = revision
    /\ selected = SelectedAt(revision)
=============================================================================
