---------------------------- MODULE Publication ----------------------------
(***************************************************************************)
(* How a release step puts its result under its public name: the unsigned  *)
(* app of packaging/macos/assemble-app.mjs, the signed app of              *)
(* scripts/package/macos-signing.mjs and the archive of macos-notarize.mjs *)
(* all build under a random staging name in the output directory and       *)
(* publish with the descriptor-relative helper                             *)
(* scripts/package/atomic_directory.py.                                    *)
(*                                                                         *)
(* `dir' is the retained output directory: which inode each name binds.    *)
(* The inode a publisher creates is named after the publisher; a Stray is  *)
(* an inode somebody else put there.  Each publisher is a single thread    *)
(* whose helper calls interleave with the other publishers and with        *)
(* whoever else uses the directory; quarantine is two steps because its    *)
(* rename and its verdict are two system calls.                            *)
(***************************************************************************)
EXTENDS Naturals, FiniteSets

CONSTANTS Publishers,   \* the release steps that share one output directory
          Assemblers,   \* the ones that run assembleUnsignedApp
          Strays,       \* inodes that others may create
          MaxMeddles,   \* bound: how often others touch the directory
          MaxFaults,    \* bound: helper calls that die without an answer
          None

\* What the constants are; the modules that instantiate this one assume it.
PublicationAssumption ==
    /\ Assemblers \subseteq Publishers
    /\ None \notin Publishers \cup Strays
    /\ Publishers \cap Strays = {}
    /\ MaxMeddles \in Nat /\ MaxFaults \in Nat

VARIABLES dir,      \* name -> the inode it binds, or None
          shelf,    \* inodes others moved out of the directory
          made,     \* every inode ever created
          removed,  \* publisher -> the inodes its quarantine deleted
          moved,    \* the output path now names another directory
          pub,      \* publisher -> [pc, ident, owned]
          meddles, faults

vars == <<dir, shelf, made, removed, moved, pub, meddles, faults>>

Inodes == Publishers \cup Strays

Dest == <<"dest", None>>

Stage(p) == <<"stage", p>>

Quarantine(p) == <<"quarantine", p>>

Names == {Dest} \cup {Stage(p) : p \in Publishers} \cup {Quarantine(p) : p \in Publishers}

Steps == {"start", "open", "made", "built", "parent", "recheck", "free", "rename",
          "verify", "recover", "cleanup", "settle", "published", "failed"}

Init ==
    /\ dir = [n \in Names |-> None]
    /\ shelf = {} /\ made = {} /\ moved = FALSE
    /\ removed = [p \in Publishers |-> {}]
    /\ pub = [p \in Publishers |-> [pc |-> "start", ident |-> None, owned |-> FALSE]]
    /\ meddles = 0 /\ faults = 0

At(p, step) == pub[p].pc = step

Go(p, step) == pub' = [pub EXCEPT ![p].pc = step]

\* An exception reaches the finally block: a stage still owned is quarantined.
Throw(p) == Go(p, IF pub[p].owned THEN "cleanup" ELSE "failed")

\* Only the program counter (and what it knows) changes: a helper's stat.
LooksOnly == UNCHANGED <<dir, shelf, made, removed, moved, meddles, faults>>

-----------------------------------------------------------------------------
(* The public operations. *)

\* The output directory must be empty, or the call refuses.
Start(p) ==
    /\ At(p, "start")
    /\ Go(p, IF moved \/ \E n \in Names : dir[n] # None THEN "failed" ELSE "open")
    /\ LooksOnly

\* mkdir by path: a taken name, or a path that names another directory, ends
\* the call before there is anything to clean up.
MakeStage(p) ==
    /\ At(p, "open") /\ p \in Assemblers
    /\ IF moved \/ dir[Stage(p)] # None
       THEN Go(p, "failed") /\ UNCHANGED <<dir, made>>
       ELSE /\ dir' = [dir EXCEPT ![Stage(p)] = p]
            /\ made' = made \cup {p}
            /\ Go(p, "made")
    /\ UNCHANGED <<shelf, removed, moved, meddles, faults>>

\* copy-tree or copy-file through the retained descriptor.
CopyStage(p) ==
    /\ At(p, "open") /\ p \notin Assemblers
    /\ IF dir[Stage(p)] # None
       THEN UNCHANGED <<dir, made>>
       ELSE dir' = [dir EXCEPT ![Stage(p)] = p] /\ made' = made \cup {p}
    /\ Go(p, "made")
    /\ UNCHANGED <<shelf, removed, moved, meddles, faults>>

\* copy-tree reports the inode it filled; the stat by name must agree.
CopiedStage(p, found) == p \in made /\ found = p

\* The identity that every later check compares with, read by name.
Bind(p) ==
    LET found == dir[Stage(p)]
        accepted == IF p \in Assemblers THEN found # None ELSE CopiedStage(p, found)
        owned == IF p \in Assemblers THEN accepted ELSE found # None
    IN  /\ At(p, "made")
        /\ pub' = [pub EXCEPT ![p] =
               [pc |-> IF accepted THEN "built" ELSE IF owned THEN "cleanup" ELSE "failed",
                ident |-> found, owned |-> owned]]
        /\ LooksOnly

\* Copying, signing or verifying the staged bytes fails, or (signing and
\* notarization) the source no longer is what was read.
BuildFails(p) ==
    /\ \/ At(p, "built")
       \/ p \notin Assemblers /\ pub[p].pc \in {"parent", "recheck"}
    /\ Throw(p)
    /\ LooksOnly

\* assembleUnsignedApp gives up the stage when its name binds something else.
IdentityChanged(p) ==
    IF p \in Assemblers
    THEN pub' = [pub EXCEPT ![p].owned = FALSE, ![p].pc = "failed"]
    ELSE Throw(p)

Preflight(p) ==
    /\ At(p, "built")
    /\ IF dir[Stage(p)] = pub[p].ident THEN Go(p, "parent") ELSE IdentityChanged(p)
    /\ LooksOnly

CheckParent(p) ==
    /\ At(p, "parent")
    /\ IF moved THEN Throw(p) ELSE Go(p, "recheck")
    /\ LooksOnly

Recheck(p) ==
    /\ At(p, "recheck")
    /\ IF dir[Stage(p)] = pub[p].ident
       THEN Go(p, IF p \in Assemblers THEN "rename" ELSE "free")
       ELSE IdentityChanged(p)
    /\ LooksOnly

\* Signing and notarization look at the public name before the rename.
CheckDestination(p) ==
    /\ At(p, "free")
    /\ IF dir[Dest] # None THEN Throw(p) ELSE Go(p, "rename")
    /\ LooksOnly

\* Mutant: an ordinary rename, which replaces what the new name binds.
RenamesReplacing(from, to) == dir[from] # None

\* renameatx_np(RENAME_EXCL), renameat2(RENAME_NOREPLACE).
RenamesNoReplace(from, to) == dir[from] # None /\ dir[to] = None

Publish(p) ==
    /\ At(p, "rename")
    /\ IF RenamesNoReplace(Stage(p), Dest)
       THEN /\ dir' = [dir EXCEPT ![Dest] = dir[Stage(p)], ![Stage(p)] = None]
            /\ pub' = [pub EXCEPT ![p].owned = FALSE, ![p].pc = "verify"]
       ELSE Throw(p) /\ UNCHANGED dir
    /\ UNCHANGED <<shelf, made, removed, moved, meddles, faults>>

Verify(p) ==
    /\ At(p, "verify")
    /\ Go(p, IF ~moved /\ dir[Dest] = pub[p].ident THEN "published" ELSE "recover")
    /\ LooksOnly

-----------------------------------------------------------------------------
(* quarantine: move aside without replacing, look, then delete, keep or     *)
(* give back.                                                               *)

QuarantineName(p, name) ==
    /\ IF RenamesNoReplace(name, Quarantine(p))
       THEN /\ dir' = [dir EXCEPT ![Quarantine(p)] = dir[name], ![name] = None]
            /\ Go(p, "settle")
       ELSE Go(p, "failed") /\ UNCHANGED dir
    /\ UNCHANGED <<shelf, made, removed, moved, meddles, faults>>

\* The finally block's cleanup of an unpublished stage.
Cleanup(p) == At(p, "cleanup") /\ QuarantineName(p, Stage(p))

\* The publication that could not be verified is taken back.
Recover(p) == At(p, "recover") /\ QuarantineName(p, Dest)

OwnsQuarantined(p) == dir[Quarantine(p)] = pub[p].ident

\* "cleanup" deletes (or fails half-way and keeps), "retain-owned" keeps.
SettleOwned(p) ==
    /\ At(p, "settle") /\ OwnsQuarantined(p)
    /\ Go(p, "failed")
    /\ \/ UNCHANGED <<dir, removed>>
       \/ /\ p \in Assemblers
          /\ removed' = [removed EXCEPT ![p] = @ \cup {dir[Quarantine(p)]}]
          /\ dir' = [dir EXCEPT ![Quarantine(p)] = None]
    /\ UNCHANGED <<shelf, made, moved, meddles, faults>>

\* A competitor's inode goes back to the staging name, or stays in quarantine.
SettleForeign(p) ==
    /\ At(p, "settle") /\ ~OwnsQuarantined(p)
    /\ Go(p, "failed")
    /\ dir' = IF RenamesNoReplace(Quarantine(p), Stage(p))
              THEN [dir EXCEPT ![Stage(p)] = dir[Quarantine(p)], ![Quarantine(p)] = None]
              ELSE dir
    /\ UNCHANGED <<shelf, made, removed, moved, meddles, faults>>

-----------------------------------------------------------------------------
(* Faults and other users of the directory. *)

\* A helper process cannot be started or its answer cannot be read.  The
\* rename may have happened all the same; then the name is public and the
\* finally block finds no stage.
HelperFails(p) ==
    /\ faults < MaxFaults
    /\ faults' = faults + 1
    /\ \/ /\ pub[p].pc \in {"built", "recheck"}
          /\ IdentityChanged(p) /\ UNCHANGED dir
       \/ /\ pub[p].pc \in {"free", "rename", "verify"}
          /\ Throw(p) /\ UNCHANGED dir
       \/ /\ pub[p].pc \in {"recover", "cleanup", "settle"}
          /\ Go(p, "failed") /\ UNCHANGED dir
       \/ /\ At(p, "rename") /\ RenamesNoReplace(Stage(p), Dest)
          /\ dir' = [dir EXCEPT ![Dest] = dir[Stage(p)], ![Stage(p)] = None]
          /\ Throw(p)
    /\ UNCHANGED <<shelf, made, removed, moved, meddles>>

Meddle == meddles < MaxMeddles /\ meddles' = meddles + 1

Public == {Dest} \cup {Stage(p) : p \in Publishers}

\* Somebody renames what a public or staging name binds out of the directory.
Shelve(n) ==
    /\ Meddle /\ n \in Public /\ dir[n] # None
    /\ shelf' = shelf \cup {dir[n]}
    /\ dir' = [dir EXCEPT ![n] = None]
    /\ UNCHANGED <<made, removed, moved, pub, faults>>

\* Somebody creates a file or directory of their own under such a name.
Plant(n, i) ==
    /\ Meddle /\ n \in Public /\ dir[n] = None /\ i \in Strays \ made
    /\ dir' = [dir EXCEPT ![n] = i]
    /\ made' = made \cup {i}
    /\ UNCHANGED <<shelf, removed, moved, pub, faults>>

\* Somebody renames the output directory and puts another in its place.
MoveParent ==
    /\ Meddle /\ ~moved
    /\ moved' = TRUE
    /\ UNCHANGED <<dir, shelf, made, removed, pub, faults>>

Ended(p) == pub[p].pc \in {"published", "failed"}

AllEnded == (\A p \in Publishers : Ended(p)) /\ UNCHANGED vars

Operation(p) ==
    \/ Start(p) \/ MakeStage(p) \/ CopyStage(p) \/ Bind(p) \/ BuildFails(p)
    \/ Preflight(p) \/ CheckParent(p) \/ Recheck(p) \/ CheckDestination(p)
    \/ Publish(p) \/ Verify(p) \/ Cleanup(p) \/ Recover(p)
    \/ SettleOwned(p) \/ SettleForeign(p) \/ HelperFails(p)

Next ==
    \/ \E p \in Publishers : Operation(p)
    \/ \E n \in Public : Shelve(n) \/ \E i \in Strays : Plant(n, i)
    \/ MoveParent
    \/ AllEnded

Spec == Init /\ [][Next]_vars

-----------------------------------------------------------------------------
(* Properties. *)

\* Types; moreover no inode is bound twice, since every name is taken by a
\* rename or an exclusive creation.
TypeOK ==
    /\ dir \in [Names -> Inodes \cup {None}]
    /\ \A n, m \in Names : dir[n] # None /\ dir[n] = dir[m] => n = m
    /\ shelf \subseteq made /\ made \subseteq Inodes
    /\ removed \in [Publishers -> SUBSET Inodes]
    /\ moved \in BOOLEAN
    /\ pub \in [Publishers -> [pc : Steps, ident : Inodes \cup {None}, owned : BOOLEAN]]
    /\ meddles \in 0..MaxMeddles /\ faults \in 0..MaxFaults

\* Nobody's work disappears: whatever was ever created in the directory is
\* still bound there, was moved out by somebody else, or was deleted by the
\* publisher that had recorded exactly that inode as its stage, across every
\* order of two publishers' renames, quarantines and restorations
\* (atomic_directory.py: "never uses overwrite-capable rename").
NothingIsLost ==
    \A i \in made :
        \/ \E n \in Names : dir[n] = i
        \/ i \in shelf
        \/ \E p \in Publishers : i \in removed[p] /\ pub[p].ident = i

\* Of several steps that found the directory empty, at most one reports
\* success, and no loser's cleanup or recovery takes the winner's result from
\* under the public name (assemble-app.mjs, renameNoReplace and the finally
\* block).  Only somebody else's rename can.
WinnerStays ==
    \A p \in Publishers :
        At(p, "published") /\ meddles = 0 =>
            dir[Dest] = p /\ \A q \in Publishers \ {p} : ~At(q, "published")

\* A signing or notarization step that reports success published the very
\* inode it filled, whoever exchanged the staging name in between
\* (macos-signing.mjs:407 and the checks that follow it).
PublishesItsOwn ==
    \A p \in Publishers \ Assemblers : At(p, "published") => pub[p].ident = p

\* A step that fails while every helper call answers leaves nothing of its
\* own under the public name, even when the output directory was exchanged
\* under it after the rename (recoverPublishedBinding).
FailedIsWithdrawn ==
    \A p \in Publishers : At(p, "failed") /\ faults = 0 => dir[Dest] # p

\* The plan's claim for assembleUnsignedApp, "competitor-preserving quarantine
\* checks across every race interval": no publisher deletes an inode that it
\* did not create.
CompetitorPreserved ==
    \A p \in Publishers : removed[p] \subseteq {p}
=============================================================================
