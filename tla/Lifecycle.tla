------------------------------ MODULE Lifecycle ------------------------------
(***************************************************************************)
(* The life of a data directory: the server that opens and migrates it,    *)
(* the backup taken from the open database, the restore into a new         *)
(* directory, and the purge of a directory marked as disposable together   *)
(* with the credentials its database names.                                *)
(*                                                                         *)
(* A directory is a tree found under a name; a rename moves the tree, and  *)
(* the writer lock, a file of the tree, moves with it.  Databases are      *)
(* reduced to the number of rows committed, the schema version and the     *)
(* credential references of the enabled profiles.                          *)
(***************************************************************************)
EXTENDS Naturals, FiniteSets

CONSTANTS
    Keys,        \* credential references
    MaxRows,     \* bound on committed rows
    MaxVer,      \* the newest binary's number of migrations
    None         \* nothing is there

Names == {"root", "restored", "quarantine", "stage"}
Databases == [rows : 0..MaxRows, ver : 1..MaxVer, refs : SUBSET Keys]
Holders == {"server", "restore", "purge"}
Trees == [db : Databases \cup {None}, marker : (SUBSET Keys) \cup {None},
          lock : Holders \cup {None}]
Copies == [db : Databases \cup {None}]
Backups == [file : Databases \cup {None}, manifest : Databases]
Restoring == {"locked", "checked", "copied"}
Purging == {"locked", "quarantined", "deleting"}

\* What the constants are, None being nothing else; the modules that
\* instantiate this one assume it.
LifecycleConstants ==
    /\ MaxRows \in Nat
    /\ MaxVer \in Nat \ {0}
    /\ None \notin Keys \cup Holders \cup Restoring \cup Purging
    /\ (\A refs \in SUBSET Keys : None # refs) /\ None \notin Databases /\ None \notin Trees
    /\ None \notin Copies /\ None \notin Backups

VARIABLES
    tree,     \* the tree under each name
    bin,      \* how many migrations the installed binary has
    sel,      \* the name the server opens
    running,  \* the server has the selected tree open
    bk,       \* the backup in progress: its stage, and the copy once it is there
    backup,   \* the published backup: its file (None: damaged) and its manifest
    rs,       \* the restore in progress: None, "locked", "checked", "copied"
    pg,       \* the purge in progress: None, "locked", "quarantined", "deleting"
    pgRefs,   \* the references the purge has still to delete
    store     \* the credential store

vars == <<tree, bin, sel, running, bk, backup, rs, pg, pgRefs, store>>

TypeOK ==
    /\ tree \in [Names -> Trees \cup {None}]
    /\ bin \in 1..MaxVer
    /\ sel \in {"root", "restored"}
    /\ running \in BOOLEAN
    /\ bk \in Copies \cup {None}
    /\ backup \in Backups \cup {None}
    /\ rs \in Restoring \cup {None}
    /\ pg \in Purging \cup {None}
    /\ pgRefs \subseteq Keys
    /\ store \subseteq Keys

Init ==
    /\ tree = [n \in Names |-> None]
    /\ bin \in 1..MaxVer
    /\ sel = "root" /\ running = FALSE
    /\ bk = None /\ backup = None /\ rs = None
    /\ pg = None /\ pgRefs = {}
    /\ store = {}

Bare == [db |-> None, marker |-> None, lock |-> None]

(* The lock call makes the directory it finds missing.                     *)
Made(n) == IF tree[n] = None THEN Bare ELSE tree[n]

Lockable(n) == Made(n).lock = None

Unlocked(t) == IF t = None THEN None ELSE [t EXCEPT !.lock = None]

-----------------------------------------------------------------------------
(* The server.                                                             *)

(* Opening the database applies the migrations it lacks in one             *)
(* transaction, and refuses a history longer than the binary's.            *)
Migrated(db) ==
    IF db = None THEN [rows |-> 0, ver |-> bin, refs |-> {}] ELSE [db EXCEPT !.ver = bin]

Opened(t) == [db |-> Migrated(t.db), marker |-> t.marker, lock |-> "server"]

Openable(db) == IF db = None THEN TRUE ELSE db.ver <= bin

Start ==
    /\ ~running
    /\ Lockable(sel)
    /\ Openable(Made(sel).db)
    /\ tree' = [tree EXCEPT ![sel] = Opened(Made(sel))]
    /\ running' = TRUE
    /\ UNCHANGED <<bin, sel, bk, backup, rs, pg, pgRefs, store>>

Write ==
    /\ running
    /\ tree[sel].db.rows < MaxRows
    /\ tree' = [tree EXCEPT ![sel].db.rows = @ + 1]
    /\ UNCHANGED <<bin, sel, running, bk, backup, rs, pg, pgRefs, store>>

SaveKey(k) ==
    /\ running
    /\ \A n \in Names : tree[n] # None /\ tree[n].db # None => k \notin tree[n].db.refs
    /\ k \notin store
    /\ tree' = [tree EXCEPT ![sel].db.refs = @ \cup {k}]
    /\ store' = store \cup {k}
    /\ UNCHANGED <<bin, sel, running, bk, backup, rs, pg, pgRefs>>

(* The server stops or dies; a backup it was taking dies with it and       *)
(* leaves a stage under a name nothing looks at.                           *)
Stop ==
    /\ running
    /\ running' = FALSE
    /\ tree' = [tree EXCEPT ![sel] = Unlocked(@)]
    /\ bk' = None
    /\ UNCHANGED <<bin, sel, backup, rs, pg, pgRefs, store>>

(* Another version is installed, or the restored directory is selected.    *)
Reinstall ==
    /\ ~running /\ rs = None
    /\ \/ bin' \in 1..MaxVer /\ UNCHANGED sel
       \/ tree["restored"] # None /\ sel' = "restored" /\ UNCHANGED bin
    /\ UNCHANGED <<tree, running, bk, backup, rs, pg, pgRefs, store>>

-----------------------------------------------------------------------------
(* The backup, taken while the server runs.                                *)

BackupStart ==
    /\ running /\ bk = None /\ backup = None
    /\ bk' = [db |-> None]
    /\ UNCHANGED <<tree, bin, sel, running, backup, rs, pg, pgRefs, store>>

(* SQLite's backup copies one committed state of the database.             *)
BackupCopy ==
    /\ bk = [db |-> None]
    /\ bk' = [db |-> tree[sel].db]
    /\ UNCHANGED <<tree, bin, sel, running, backup, rs, pg, pgRefs, store>>

(* The manifest is computed from the validated copy, and the stage is      *)
(* renamed to its destination.                                             *)
BackupPublish ==
    /\ bk # None /\ bk.db # None
    /\ backup' = [file |-> bk.db, manifest |-> bk.db]
    /\ bk' = None
    /\ UNCHANGED <<tree, bin, sel, running, rs, pg, pgRefs, store>>

BackupFails ==
    /\ bk # None
    /\ bk' = None
    /\ UNCHANGED <<tree, bin, sel, running, backup, rs, pg, pgRefs, store>>

(* The file of a backup is damaged where it lies.                          *)
Damage ==
    /\ backup # None
    /\ backup' = [backup EXCEPT !.file = None]
    /\ UNCHANGED <<tree, bin, sel, running, bk, rs, pg, pgRefs, store>>

-----------------------------------------------------------------------------
(* The restore, under the writer lock of the authoritative directory.      *)

RestoreStart ==
    /\ rs = None
    /\ Lockable(sel)
    /\ tree' = [tree EXCEPT ![sel] = [Made(sel) EXCEPT !.lock = "restore"]]
    /\ rs' = "locked"
    /\ UNCHANGED <<bin, sel, running, bk, backup, pg, pgRefs, store>>

(* The file is the one the manifest records: digest, integrity, history.   *)
AsRecorded == backup.file = backup.manifest

(* The recorded history is a prefix of the binary's.                       *)
Restorable ==
    /\ backup # None
    /\ AsRecorded
    /\ backup.manifest.ver <= bin

RestoreCheck ==
    /\ rs = "locked"
    /\ tree["restored"] = None
    /\ Restorable
    /\ rs' = "checked"
    /\ UNCHANGED <<tree, bin, sel, running, bk, backup, pg, pgRefs, store>>

(* The copy in the stage is hashed and validated again.                    *)
RestoreCopy ==
    /\ rs = "checked"
    /\ AsRecorded
    /\ rs' = "copied"
    /\ tree' = [tree EXCEPT !["stage"] = [Bare EXCEPT !.db = backup.file]]
    /\ UNCHANGED <<bin, sel, running, bk, backup, pg, pgRefs, store>>

RestorePublish ==
    /\ rs = "copied"
    /\ tree' = [tree EXCEPT !["restored"] = tree["stage"], !["stage"] = None, ![sel] = Unlocked(@)]
    /\ rs' = None
    /\ UNCHANGED <<bin, sel, running, bk, backup, pg, pgRefs, store>>

(* A check fails, the copy fails, or the process dies.                     *)
RestoreFails ==
    /\ rs # None
    /\ tree' = [tree EXCEPT ![sel] = Unlocked(@), !["stage"] = None]
    /\ rs' = None
    /\ UNCHANGED <<bin, sel, running, bk, backup, pg, pgRefs, store>>

-----------------------------------------------------------------------------
(* The purge of the directory named root.                                  *)

(* The marker records the references of the database; it is written once,  *)
(* without the lock.                                                       *)
RefsOf(t) == IF t.db = None THEN {} ELSE t.db.refs

Mark ==
    /\ tree["root"] # None
    /\ tree["root"].marker = None
    /\ tree' = [tree EXCEPT !["root"].marker = RefsOf(tree["root"])]
    /\ UNCHANGED <<bin, sel, running, bk, backup, rs, pg, pgRefs, store>>

MarkerFits(t) == t.marker # None /\ RefsOf(t) = t.marker

PurgeStart ==
    /\ pg = None
    /\ tree["root"] # None
    /\ Lockable("root")
    /\ MarkerFits(tree["root"])
    /\ tree' = [tree EXCEPT !["root"].lock = "purge"]
    /\ pg' = "locked"
    /\ pgRefs' = tree["root"].marker
    /\ UNCHANGED <<bin, sel, running, bk, backup, rs, store>>

Quarantine ==
    /\ pg = "locked"
    /\ tree["quarantine"] = None
    /\ tree' = [tree EXCEPT !["quarantine"] = tree["root"], !["root"] = None]
    /\ pg' = "quarantined"
    /\ UNCHANGED <<bin, sel, running, bk, backup, rs, pgRefs, store>>

(* The tree is removed whole, and only then the credentials.               *)
RemoveTree ==
    /\ pg = "quarantined"
    /\ tree' = [tree EXCEPT !["quarantine"] = None]
    /\ pg' = "deleting"
    /\ UNCHANGED <<bin, sel, running, bk, backup, rs, pgRefs, store>>

\* Mutant: a failed removal is renamed back over what is there.
RestoresNameAnyway ==
    /\ pg = "quarantined"
    /\ tree' = [tree EXCEPT !["root"] = Unlocked(tree["quarantine"]), !["quarantine"] = None]
    /\ pg' = None /\ pgRefs' = {}
    /\ UNCHANGED <<bin, sel, running, bk, backup, rs, store>>

(* The removal stops half way: what is left of the tree gets its name      *)
(* back, unless another tree has it by now.                                *)
RemoveFails ==
    /\ pg = "quarantined"
    /\ \E lost \in SUBSET {"db", "marker"} :
        LET left == [db |-> IF "db" \in lost THEN None ELSE tree["quarantine"].db,
                     marker |-> IF "marker" \in lost THEN None ELSE tree["quarantine"].marker,
                     lock |-> None]
        IN tree' = IF tree["root"] = None
                   THEN [tree EXCEPT !["root"] = left, !["quarantine"] = None]
                   ELSE [tree EXCEPT !["quarantine"] = left]
    /\ pg' = None /\ pgRefs' = {}
    /\ UNCHANGED <<bin, sel, running, bk, backup, rs, store>>

DeleteKey(k) ==
    /\ pg = "deleting" /\ k \in pgRefs
    /\ store' = store \ {k}
    /\ pgRefs' = pgRefs \ {k}
    /\ UNCHANGED <<tree, bin, sel, running, bk, backup, rs, pg>>

PurgeEnds ==
    /\ pg = "deleting" /\ pgRefs = {}
    /\ pg' = None
    /\ UNCHANGED <<tree, bin, sel, running, bk, backup, rs, pgRefs, store>>

(* The purge refuses after it took the lock, the credential store fails,   *)
(* or the process dies: a quarantined tree stays where it is.              *)
PurgeDies ==
    /\ pg # None
    /\ tree' = [n \in Names |->
                  IF tree[n] # None /\ tree[n].lock = "purge" THEN Unlocked(tree[n]) ELSE tree[n]]
    /\ pg' = None /\ pgRefs' = {}
    /\ UNCHANGED <<bin, sel, running, bk, backup, rs, store>>

Next ==
    \/ Start \/ Write \/ Stop \/ Reinstall \/ (\E k \in Keys : SaveKey(k))
    \/ BackupStart \/ BackupCopy \/ BackupPublish \/ BackupFails \/ Damage
    \/ RestoreStart \/ RestoreCheck \/ RestoreCopy \/ RestorePublish \/ RestoreFails
    \/ Mark \/ PurgeStart \/ Quarantine \/ RemoveTree \/ RemoveFails
    \/ (\E k \in Keys : DeleteKey(k)) \/ PurgeEnds \/ PurgeDies

Spec == Init /\ [][Next]_vars

-----------------------------------------------------------------------------
(* Properties.                                                             *)

(* While the server runs, the tree it opened is under its name, whole and  *)
(* at its own schema: no purge takes it away, no failed purge puts another *)
(* over it, and no binary runs on a database newer than itself.            *)
ServedTreeIntact ==
    running => /\ tree[sel] # None /\ tree[sel].lock = "server"
               /\ tree[sel].db # None /\ tree[sel].db.ver = bin

RestoresRecord ==
    tree["restored"] = None /\ tree'["restored"] # None =>
        /\ tree'["restored"].db = backup.manifest
        /\ tree'["restored"].db.ver <= bin

(* A restored directory holds exactly the database the manifest of the     *)
(* backup records, although the backup may be damaged at any moment, and   *)
(* a schema the restoring binary can open.                                 *)
RestoredAsRecorded ==
    [][RestoresRecord]_vars

(* The references a running purge will delete are the ones its tree names, *)
(* so a purge that ends well leaves none of them in the store.             *)
PurgeNamesAll ==
    pg \in {"locked", "quarantined"} =>
        pgRefs = RefsOf(tree[IF pg = "locked" THEN "root" ELSE "quarantine"])

(* A tree that still is, or may come back as, the root has its keys in the *)
(* store, as long as no copy of it was restored.                           *)
RefsHaveKeys ==
    backup = None =>
        \A n \in {"root", "quarantine"} : tree[n] # None => RefsOf(tree[n]) \subseteq store

(* A key in the store is named by some tree, or about to be deleted by the *)
(* purge that removed its tree: a removal failure preserves the references *)
(* that a later purge needs.                                               *)
NoStrandedKey ==
    \A k \in store :
        \/ pg # None /\ k \in pgRefs
        \/ \E n \in Names : tree[n] # None /\ k \in RefsOf(tree[n])

=============================================================================
