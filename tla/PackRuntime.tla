----------------------------- MODULE PackRuntime -----------------------------
(***************************************************************************)
(* The directories of the persona pack inspection from one start of the    *)
(* server to the next: the working directory of the validators and the     *)
(* parent of the uploads, which carries an ownership marker.  A start      *)
(* makes what is missing, sweeps old uploads and tries the validator; a    *)
(* close removes what is empty.  The process may die at any step, a call of *)
(* the file system may fail, and the writer lock keeps a second one out.   *)
(*                                                                         *)
(* Nobody else touches the directories: a link in their place, a foreign   *)
(* entry and a file left in the working directory, which refuse a start as *)
(* well, are left out.                                                     *)
(***************************************************************************)
EXTENDS Naturals, FiniteSets

CONSTANTS
    Uploads,       \* names of upload directories
    MaxEntries,    \* MAX_JANITOR_ENTRIES, without the marker
    MaxDeletions,  \* MAX_JANITOR_DELETIONS
    DiesAt,        \* the steps at which the process may die
    FailsAt        \* the steps at which a call may fail

Starting == {"cwd", "parent", "marker", "written", "sweep", "removing", "preflight"}
Ending   == {"ready", "giving_up", "unmarked"}

\* What the constants are; the modules that instantiate this one assume it.
PackRuntimeConstants ==
    /\ MaxEntries \in Nat /\ MaxDeletions \in Nat
    /\ DiesAt \subseteq Starting \cup Ending
    /\ FailsAt \subseteq (Starting \ {"preflight"}) \cup Ending

VARIABLES
    pc,       \* where the process is in its start, its work or its close
    cwd,      \* the working directory exists
    temp,     \* the parent of the uploads: "none", "bare", "empty" (an empty marker), "marked"
    made,     \* this start made the parent
    young,    \* upload directories
    old,      \* those a day old
    junk,     \* those the janitor moved aside
    swept,    \* those the last start has moved aside
    refused   \* why the last start was refused: "none", "marker", "entries", "failed" (a call
              \* of the file system) or "validator"

dirs == <<cwd, temp, young, old, junk>>
vars == <<pc, cwd, temp, made, young, old, junk, swept, refused>>

TypeOK ==
    /\ pc \in {"down"} \cup Starting \cup Ending
    /\ cwd \in BOOLEAN /\ made \in BOOLEAN
    /\ temp \in {"none", "bare", "empty", "marked"}
    /\ young \subseteq Uploads /\ old \subseteq Uploads /\ junk \subseteq Uploads
    /\ young \cap old = {} /\ (young \cup old) \cap junk = {}
    /\ temp = "none" => young \cup old \cup junk = {}
    /\ swept \subseteq Uploads /\ Cardinality(swept) <= MaxDeletions
    /\ refused \in {"none", "marker", "entries", "failed", "validator"}

Init ==
    /\ pc = "down" /\ cwd = FALSE /\ temp = "none" /\ made = FALSE
    /\ young = {} /\ old = {} /\ junk = {} /\ swept = {}
    /\ refused = "none"

Start ==
    /\ pc = "down"
    /\ pc' = "cwd" /\ swept' = {} /\ refused' = "none"
    /\ UNCHANGED <<cwd, temp, made, young, old, junk>>

EnsureCwd ==
    /\ pc = "cwd"
    /\ pc' = "parent" /\ cwd' = TRUE
    /\ UNCHANGED <<temp, made, young, old, junk, swept, refused>>

EnsureParent ==
    /\ pc = "parent"
    /\ pc' = "marker"
    /\ made' = (temp = "none")
    /\ temp' = IF temp = "none" THEN "bare" ELSE temp
    /\ UNCHANGED <<cwd, young, old, junk, swept, refused>>

Refuse(why) == pc' = "down" /\ refused' = why

(* A marker is made only in a directory this start has made, and filled by *)
(* a second call; any other directory must carry a whole one.              *)
EnsureMarker ==
    /\ pc = "marker"
    /\ CASE temp = "marked" -> pc' = "sweep" /\ UNCHANGED <<temp, refused>>
         [] temp = "bare" /\ made -> temp' = "empty" /\ pc' = "written" /\ UNCHANGED refused
         [] OTHER -> Refuse("marker") /\ UNCHANGED temp
    /\ UNCHANGED <<cwd, made, young, old, junk, swept>>

FillMarker ==
    /\ pc = "written"
    /\ temp' = "marked" /\ pc' = "sweep"
    /\ UNCHANGED <<cwd, made, young, old, junk, swept, refused>>

(* The janitor: too many entries, those moved aside by earlier starts       *)
(* included, refuse the start.  Otherwise the old uploads are moved aside   *)
(* and removed one by one, so many per start.  What is aside already has a  *)
(* name that the janitor passes over.                                       *)
TooMany == swept = {} /\ Cardinality(young \cup old \cup junk) > MaxEntries

Sweep ==
    /\ pc = "sweep"
    /\ IF TooMany
       THEN Refuse("entries") /\ UNCHANGED <<old, junk, swept>>
       ELSE IF old = {} \/ Cardinality(swept) = MaxDeletions
       THEN pc' = "preflight" /\ UNCHANGED <<old, junk, swept, refused>>
       ELSE \E u \in old : /\ old' = old \ {u} /\ junk' = junk \cup {u}
                           /\ swept' = swept \cup {u} /\ pc' = "removing"
                           /\ UNCHANGED refused
    /\ UNCHANGED <<cwd, temp, made, young>>

\* Of those aside, the one this start has moved there is removed.
SweepOne ==
    /\ pc = "removing"
    /\ junk' = junk \ swept
    /\ pc' = "sweep"
    /\ UNCHANGED <<cwd, temp, made, young, old, swept, refused>>

(* The validator is tried on a known archive; a start that cannot or finds  *)
(* it broken removes its directories like a close.                          *)
Preflight ==
    /\ pc = "preflight"
    /\ pc' \in {"ready", "giving_up"}
    /\ UNCHANGED <<dirs, made, swept, refused>>

(* An inspection makes an upload directory, and removes it or fails to.    *)
MakeUpload ==
    /\ pc = "ready"
    /\ \E u \in Uploads \ (young \cup old \cup junk) : young' = young \cup {u}
    /\ UNCHANGED <<pc, cwd, temp, made, old, junk, swept, refused>>

RemoveUpload ==
    /\ pc = "ready"
    /\ \E u \in young : young' = young \ {u}
    /\ UNCHANGED <<pc, cwd, temp, made, old, junk, swept, refused>>

\* The clock is read once per start.
DayPasses ==
    /\ pc \in {"down", "ready"} /\ young # {}
    /\ old' = old \cup young /\ young' = {}
    /\ UNCHANGED <<pc, cwd, temp, made, junk, swept, refused>>

(* removeEmptyRuntimeDirectories: the working directory goes, and the      *)
(* marker and the parent if nothing else is in it.                         *)
Close ==
    /\ pc \in {"ready", "giving_up"}
    /\ cwd' = FALSE
    /\ IF young \cup old \cup junk = {}
       THEN temp' = "bare" /\ pc' = "unmarked"
       ELSE pc' = "down" /\ UNCHANGED temp
    /\ refused' = IF pc = "giving_up" THEN "validator" ELSE "none"
    /\ UNCHANGED <<made, young, old, junk, swept>>

RemoveParent ==
    /\ pc = "unmarked"
    /\ temp' = "none" /\ pc' = "down"
    /\ UNCHANGED <<cwd, made, young, old, junk, swept, refused>>

(* Ended before its time: the step has done nothing, but that a close may  *)
(* have come past the working directory.                                   *)
Broken ==
    /\ pc' = "down"
    /\ cwd' \in IF pc \in {"ready", "giving_up"} THEN {cwd, FALSE} ELSE {cwd}
    /\ UNCHANGED <<temp, young, old, junk, made, swept>>

Crash ==
    /\ pc \in DiesAt
    /\ Broken /\ refused' = "none"

(* A call of the step fails: mkdir, the marker's, readdir, rename, lstat,   *)
(* rm, rmdir.  A start is refused and leaves its directories; a close gives *)
(* up, also that of a start whose validator is broken.                      *)
Fail ==
    /\ pc \in FailsAt
    /\ Broken
    /\ refused' = CASE pc \in Starting -> "failed"
                    [] pc = "giving_up" -> "validator"
                    [] OTHER -> refused

Next ==
    \/ Start \/ EnsureCwd \/ EnsureParent \/ EnsureMarker \/ FillMarker \/ Sweep \/ SweepOne
    \/ Preflight \/ MakeUpload \/ RemoveUpload \/ DayPasses \/ Close \/ RemoveParent
    \/ Crash \/ Fail

Spec == Init /\ [][Next]_vars

-----------------------------------------------------------------------------
(* Properties.                                                             *)

Left == young \cup old \cup junk

(* If nothing dies and only the janitor fails, a server that has served, or *)
(* whose validator is broken, leaves no directory but the uploads that are  *)
(* not removed.                                                             *)
RootsGone ==
    pc = "down" /\ refused \in {"none", "validator"} /\ Left = {} => ~cwd /\ temp = "none"

(* Uploads, those moved aside included, are left only in a directory whose  *)
(* marker is whole, whenever the process dies.                              *)
UploadsOwned == Left # {} => temp = "marked"

(* A start that comes to the validator has removed every upload a day old,  *)
(* or as many as it may, and left none of them aside.                       *)
OldOnesSwept ==
    pc = "preflight" =>
        /\ old = {} \/ Cardinality(swept) = MaxDeletions
        /\ swept \cap junk = {}

(* An upload stays aside only if the process dies or fails just after it    *)
(* was moved there.                                                         *)
AsideOnlyBetween ==
    "removing" \notin DiesAt \cup FailsAt /\ junk # {} => pc = "removing" /\ junk \subseteq swept

(* The steps between making the parent, its marker and the marker's content *)
(* and between removing the marker and the parent.                          *)
Halfway == {"marker", "written", "unmarked"}

(* No start is refused for its marker unless an earlier one or a close has  *)
(* died or failed at one of these.                                          *)
MarkerSurvives == refused = "marker" => (DiesAt \cup FailsAt) \cap Halfway # {}

(* A parent without a whole marker, of which no start or close is at work;  *)
(* and more entries than the janitor takes, before it has looked at them.   *)
Disowned == temp \in {"bare", "empty"} /\ ~(made /\ pc \in {"marker", "written"}) /\ pc # "unmarked"
Overfull ==
    /\ Cardinality(Left) > MaxEntries
    /\ pc \in {"down", "cwd", "parent", "marker"} \/ (pc = "sweep" /\ swept = {})
Barred == Disowned \/ Overfull

(* A start is refused for its marker or its entries only if what is left    *)
(* bars it,                                                                 *)
RefusedOnlyIfBarred == refused \in {"marker", "entries"} /\ pc = "down" => Barred

(* and then it bars every later start: none of them comes to the validator, *)
(* until somebody removes the directory by hand.                            *)
BarredForGood == Barred => Barred'

(* Nothing that was moved aside by an earlier start is ever removed.        *)
AsideStays == junk \ swept \subseteq junk'

=============================================================================
