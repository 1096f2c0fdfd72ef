--------------------------- MODULE LifecycleProofs ---------------------------
(***************************************************************************)
(* The data directory, for any set of credential references, any bound on  *)
(* the rows and any number of migrations.                                  *)
(***************************************************************************)
EXTENDS Lifecycle, TLAPS

-----------------------------------------------------------------------------
(* Trees.                                                                  *)

\* A tree whose lock changes hands is otherwise what it was.
LEMMA Relocked ==
    ASSUME LifecycleConstants, NEW t \in Trees, NEW h \in Holders \cup {None},
           NEW u, u = [t EXCEPT !.lock = h]
    PROVE  u \in Trees /\ u # None /\ u.lock = h /\ u.db = t.db /\ u.marker = t.marker
  BY DEF Trees, LifecycleConstants

\* So is a tree that is unlocked.
LEMMA UnlockedTree ==
    ASSUME LifecycleConstants, NEW t \in Trees
    PROVE  /\ Unlocked(t) \in Trees /\ Unlocked(t) # None
           /\ Unlocked(t).lock = None /\ Unlocked(t).db = t.db
<1>1. t # None
  BY DEF LifecycleConstants
<1>2. Unlocked(t) = [t EXCEPT !.lock = None]
  BY <1>1 DEF Unlocked
<1> QED BY <1>2, Relocked

\* The references a tree names are those of its database.
LEMMA RefsType ==
    ASSUME LifecycleConstants, NEW t \in Trees
    PROVE  RefsOf(t) \in SUBSET Keys
<1>1. t.db \in Databases \cup {None}
  BY DEF Trees
<1> QED BY <1>1 DEF RefsOf, Databases

LEMMA SameRefs ==
    ASSUME NEW t, NEW u, u.db = t.db
    PROVE  RefsOf(u) = RefsOf(t)
  BY DEF RefsOf

\* A database once it is migrated.
LEMMA MigratedDatabase ==
    ASSUME LifecycleConstants, bin \in 1..MaxVer, NEW d \in Databases \cup {None}
    PROVE  /\ Migrated(d) \in Databases /\ Migrated(d) # None /\ Migrated(d).ver = bin
           /\ Migrated(d).refs = IF d = None THEN {} ELSE d.refs
<1>1. CASE d = None
  BY <1>1 DEF Migrated, Databases, LifecycleConstants
<1>2. CASE d # None
  <2>1. d \in Databases /\ Migrated(d) = [d EXCEPT !.ver = bin]
    BY <1>2 DEF Migrated
  <2>2. [d EXCEPT !.ver = bin] \in Databases /\ [d EXCEPT !.ver = bin].ver = bin
        /\ [d EXCEPT !.ver = bin].refs = d.refs
    BY <2>1 DEF Databases
  <2> QED BY <1>2, <2>1, <2>2 DEF LifecycleConstants
<1> QED BY <1>1, <1>2

LEMMA BareTree ==
    ASSUME LifecycleConstants
    PROVE  /\ Bare \in Trees /\ Bare.lock = None /\ RefsOf(Bare) = {}
           /\ \A d \in Databases : /\ [Bare EXCEPT !.db = d] \in Trees
                                   /\ [Bare EXCEPT !.db = d].db = d
<1>1. Bare = [db |-> None, marker |-> None, lock |-> None]
  BY DEF Bare
<1>2. Bare \in Trees /\ Bare.lock = None /\ RefsOf(Bare) = {}
  BY <1>1 DEF Trees, RefsOf
<1>3. ASSUME NEW d \in Databases
      PROVE  [Bare EXCEPT !.db = d] \in Trees /\ [Bare EXCEPT !.db = d].db = d
  <2>1. [Bare EXCEPT !.db = d] = [db |-> d, marker |-> None, lock |-> None]
    BY <1>1
  <2> QED BY <2>1 DEF Trees
<1> QED BY <1>2, <1>3

\* The tree a lock is taken on, which the call makes if there is none.
LEMMA MadeTree ==
    ASSUME LifecycleConstants, TypeOK, NEW n \in Names
    PROVE  /\ Made(n) \in Trees
           /\ RefsOf(Made(n)) = IF tree[n] = None THEN {} ELSE RefsOf(tree[n])
           /\ tree[n] # None => Made(n) = tree[n]
  BY BareTree DEF Made, TypeOK

-----------------------------------------------------------------------------
(* The invariant.                                                          *)

\* Who holds the lock of a tree may rely on it: the server on the tree it
\* opened, the restore on the tree it keeps others out of, the purge on the
\* references it read.
Holding ==
    /\ running => /\ tree[sel] # None /\ tree[sel].lock = "server"
                  /\ tree[sel].db # None /\ tree[sel].db.ver = bin
    /\ rs # None => tree[sel] # None /\ tree[sel].lock = "restore"
    /\ pg = "locked" =>
          /\ tree["root"] # None /\ tree["root"].lock = "purge"
          /\ pgRefs = RefsOf(tree["root"])
    /\ pg = "quarantined" =>
          tree["quarantine"] # None /\ pgRefs = RefsOf(tree["quarantine"])
    /\ sel = "restored" => tree["restored"] # None
    /\ bk # None => running /\ backup = None

\* What a restore has checked stays so until it publishes.
Restores ==
    /\ rs \in {"checked", "copied"} =>
          /\ sel = "root" /\ tree["restored"] = None
          /\ backup # None /\ backup.manifest.ver <= bin
    /\ rs = "copied" => tree["stage"] # None /\ tree["stage"].db = backup.manifest

\* Until there is a backup no two trees name one key, the store has the keys of
\* every tree, and a purge deletes keys that no tree names any more.
Named ==
    backup = None =>
        /\ tree["restored"] = None /\ tree["stage"] = None
        /\ \A n \in Names : tree[n] # None => RefsOf(tree[n]) \subseteq store
        /\ tree["root"] # None /\ tree["quarantine"] # None =>
              RefsOf(tree["root"]) \cap RefsOf(tree["quarantine"]) = {}
        /\ pg = "deleting" =>
              /\ pgRefs \subseteq store
              /\ \A n \in Names : tree[n] # None => pgRefs \cap RefsOf(tree[n]) = {}

IInv == TypeOK /\ Holding /\ Restores /\ Named

LEMMA InitInv ==
    ASSUME LifecycleConstants, Init
    PROVE  IInv
<1>1. TypeOK
  BY DEF Init, TypeOK, LifecycleConstants
<1>2. Holding /\ Restores /\ Named
  BY DEF Init, Holding, Restores, Named, LifecycleConstants, Restoring, Purging, Names
<1> QED BY <1>1, <1>2 DEF IInv

-----------------------------------------------------------------------------
(* What the steps do to the trees.                                         *)

\* The name the server opens is that of a tree or may become one.
LEMMA Selected ==
    ASSUME TypeOK
    PROVE  /\ sel \in Names /\ sel \in {"root", "restored"} /\ sel # "stage" /\ sel # "quarantine"
           /\ \A n \in Names : tree[n] # None => tree[n] \in Trees
           /\ DOMAIN tree = Names
  BY DEF TypeOK, Names

\* A tree that is open has a database.
LEMMA OpenTree ==
    ASSUME LifecycleConstants, IInv, running
    PROVE  /\ tree[sel] \in Trees /\ tree[sel] # None /\ tree[sel].db \in Databases
           /\ tree[sel].db.ver = bin /\ tree[sel].lock = "server" /\ tree[sel].db # None
<1>1. tree[sel] \in Trees /\ tree[sel] # None
  BY Selected DEF IInv, Holding
<1>2. tree[sel].db \in Databases \cup {None}
  BY <1>1 DEF Trees
<1> QED BY <1>1, <1>2 DEF IInv, Holding

\* The stages of a backup.
LEMMA BackupStages ==
    ASSUME LifecycleConstants
    PROVE  /\ [db |-> None] \in Copies /\ [db |-> None] # None
           /\ \A d \in Databases \cup {None} : [db |-> d] \in Copies /\ [db |-> d] # None
           /\ \A c \in Copies : c.db # None => c.db \in Databases
           /\ \A d \in Databases : [file |-> d, manifest |-> d] \in Backups
           /\ \A b \in Backups : /\ [b EXCEPT !.file = None] \in Backups
                                 /\ [b EXCEPT !.file = None] # None
                                 /\ [b EXCEPT !.file = None].manifest = b.manifest
                                 /\ b.manifest \in Databases
<1>1. /\ [db |-> None] \in Copies
      /\ \A d \in Databases \cup {None} : [db |-> d] \in Copies
      /\ \A c \in Copies : c.db # None => c.db \in Databases
  BY DEF Copies
<1>2. \A d \in Databases : [file |-> d, manifest |-> d] \in Backups
  BY DEF Backups
<1>3. ASSUME NEW b \in Backups
      PROVE  /\ [b EXCEPT !.file = None] \in Backups /\ b.manifest \in Databases
             /\ [b EXCEPT !.file = None].manifest = b.manifest
  BY DEF Backups
<1> QED BY <1>1, <1>2, <1>3 DEF LifecycleConstants

\* Opening migrates the database and keeps its references.
LEMMA StartTree ==
    ASSUME LifecycleConstants, TypeOK, Start
    PROVE  \E u \in Trees :
              /\ tree' = [tree EXCEPT ![sel] = u]
              /\ u # None /\ u.lock = "server" /\ u.db # None /\ u.db.ver = bin
              /\ RefsOf(u) = IF tree[sel] = None THEN {} ELSE RefsOf(tree[sel])
              /\ tree[sel] # None => tree[sel].lock = None
<1> DEFINE t == Made(sel)
           u == Opened(t)
<1>1. /\ t \in Trees /\ RefsOf(t) = IF tree[sel] = None THEN {} ELSE RefsOf(tree[sel])
      /\ tree[sel] # None => t = tree[sel]
  BY Selected, MadeTree
<1>2. tree' = [tree EXCEPT ![sel] = u] /\ t.lock = None
  BY DEF Start, Lockable
<1> HIDE DEF t
<1>3. t.db \in Databases \cup {None} /\ bin \in 1..MaxVer
  BY <1>1 DEF Trees, TypeOK
<1>4. PICK d \in Databases :
         /\ d = Migrated(t.db) /\ d # None /\ d.ver = bin
         /\ d.refs = IF t.db = None THEN {} ELSE t.db.refs
  BY <1>3, MigratedDatabase
<1>5. u = [db |-> d, marker |-> t.marker, lock |-> "server"]
  BY <1>4 DEF Opened
<1> HIDE DEF u
<1>6. u \in Trees /\ u.lock = "server" /\ u.db = d
  BY <1>1, <1>5 DEF Trees, Holders
<1>7. u # None
  BY <1>6 DEF LifecycleConstants
<1>8. RefsOf(u) = RefsOf(t)
  BY <1>4, <1>6 DEF RefsOf
<1> QED BY <1>1, <1>2, <1>4, <1>6, <1>7, <1>8, Zenon

\* A write changes no version, no reference and no lock.
LEMMA WriteTree ==
    ASSUME LifecycleConstants, IInv, Write
    PROVE  \E u \in Trees :
              /\ tree' = [tree EXCEPT ![sel] = u]
              /\ u # None /\ u.lock = "server" /\ u.db # None /\ u.db.ver = bin
              /\ RefsOf(u) = RefsOf(tree[sel]) /\ tree[sel] # None
<1> DEFINE t == tree[sel]
           d == [t.db EXCEPT !.rows = @ + 1]
           u == [t EXCEPT !.db = d]
<1>1. /\ t \in Trees /\ t # None /\ t.db \in Databases /\ t.db # None
      /\ t.db.ver = bin /\ t.lock = "server" /\ t.db.rows < MaxRows
  BY OpenTree DEF Write
<1>2. tree' = [tree EXCEPT ![sel] = u]
  BY Selected DEF Write, IInv
<1> HIDE DEF t
<1>3. d \in Databases /\ d.ver = bin /\ d.refs = t.db.refs
  BY <1>1 DEF Databases, LifecycleConstants
<1> HIDE DEF d
<1>4. u \in Trees /\ u.lock = "server" /\ u.db = d
  BY <1>1, <1>3 DEF Trees
<1> HIDE DEF u
<1>5. u # None /\ d # None
  BY <1>3, <1>4 DEF LifecycleConstants
<1>6. RefsOf(u) = RefsOf(t)
  BY <1>1, <1>3, <1>4, <1>5 DEF RefsOf
<1> QED BY <1>1, <1>2, <1>3, <1>4, <1>5, <1>6 DEF t

\* A saved key is one more reference of the tree that is open.
LEMMA SaveTree ==
    ASSUME LifecycleConstants, IInv, NEW k \in Keys, SaveKey(k)
    PROVE  \E u \in Trees :
              /\ tree' = [tree EXCEPT ![sel] = u]
              /\ u # None /\ u.lock = "server" /\ u.db # None /\ u.db.ver = bin
              /\ RefsOf(u) = RefsOf(tree[sel]) \cup {k} /\ tree[sel] # None
<1> DEFINE t == tree[sel]
           d == [t.db EXCEPT !.refs = @ \cup {k}]
           u == [t EXCEPT !.db = d]
<1>1. /\ t \in Trees /\ t # None /\ t.db \in Databases /\ t.db # None
      /\ t.db.ver = bin /\ t.lock = "server"
  BY OpenTree DEF SaveKey
<1>2. tree' = [tree EXCEPT ![sel] = u]
  BY Selected DEF SaveKey, IInv
<1> HIDE DEF t
<1>3. d \in Databases /\ d.ver = bin /\ d.refs = t.db.refs \cup {k}
  BY <1>1 DEF Databases
<1> HIDE DEF d
<1>4. u \in Trees /\ u.lock = "server" /\ u.db = d
  BY <1>1, <1>3 DEF Trees
<1> HIDE DEF u
<1>5. u # None /\ d # None
  BY <1>3, <1>4 DEF LifecycleConstants
<1>6. RefsOf(u) = RefsOf(t) \cup {k}
  BY <1>1, <1>3, <1>4, <1>5 DEF RefsOf
<1> QED BY <1>1, <1>2, <1>3, <1>4, <1>5, <1>6 DEF t

\* The server that stops gives up its lock and nothing else.
LEMMA StopTree ==
    ASSUME LifecycleConstants, IInv, Stop
    PROVE  \E u \in Trees :
              /\ tree' = [tree EXCEPT ![sel] = u]
              /\ u # None /\ u.lock = None /\ RefsOf(u) = RefsOf(tree[sel]) /\ tree[sel] # None
<1>1. tree[sel] \in Trees /\ tree[sel] # None
  BY OpenTree DEF Stop
<1>2. tree' = [tree EXCEPT ![sel] = Unlocked(tree[sel])]
  BY Selected DEF Stop, IInv
<1> DEFINE u == Unlocked(tree[sel])
<1>3. u \in Trees /\ u # None /\ u.lock = None /\ RefsOf(u) = RefsOf(tree[sel])
  BY <1>1, UnlockedTree, SameRefs
<1> QED BY <1>1, <1>2, <1>3, Zenon

LEMMA RestoreStartTree ==
    ASSUME LifecycleConstants, TypeOK, RestoreStart
    PROVE  \E u \in Trees :
              /\ tree' = [tree EXCEPT ![sel] = u]
              /\ u # None /\ u.lock = "restore"
              /\ RefsOf(u) = IF tree[sel] = None THEN {} ELSE RefsOf(tree[sel])
              /\ tree[sel] # None => tree[sel].lock = None
<1> DEFINE u == [Made(sel) EXCEPT !.lock = "restore"]
<1>1. /\ Made(sel) \in Trees
      /\ RefsOf(Made(sel)) = IF tree[sel] = None THEN {} ELSE RefsOf(tree[sel])
      /\ tree[sel] # None => Made(sel) = tree[sel]
  BY Selected, MadeTree
<1>2. u \in Trees /\ u # None /\ u.lock = "restore" /\ u.db = Made(sel).db
  BY <1>1, Relocked DEF Holders
<1>3. RefsOf(u) = RefsOf(Made(sel))
  BY <1>2, SameRefs
<1>4. tree' = [tree EXCEPT ![sel] = u] /\ Made(sel).lock = None
  BY DEF RestoreStart, Lockable
<1> QED BY <1>1, <1>2, <1>3, <1>4

\* The copy in the stage is the database the manifest records.
LEMMA RestoreCopyTree ==
    ASSUME LifecycleConstants, IInv, RestoreCopy
    PROVE  \E u \in Trees :
              tree' = [tree EXCEPT !["stage"] = u] /\ u # None /\ u.db = backup.manifest
<1>1. backup # None /\ backup \in Backups /\ backup.file = backup.manifest
  BY DEF RestoreCopy, AsRecorded, IInv, Restores, TypeOK
<1>2. backup.file \in Databases
  BY <1>1 DEF Backups
<1>3. /\ [Bare EXCEPT !.db = backup.file] \in Trees
      /\ [Bare EXCEPT !.db = backup.file].db = backup.file
  BY <1>2, BareTree
<1>4. tree' = [tree EXCEPT !["stage"] = [Bare EXCEPT !.db = backup.file]]
  BY DEF RestoreCopy
<1> QED BY <1>1, <1>3, <1>4 DEF LifecycleConstants

\* The stage gets its name, and the lock is given up.
LEMMA RestorePublishTree ==
    ASSUME LifecycleConstants, IInv, RestorePublish
    PROVE  \E u \in Trees :
              /\ u # None /\ u.lock = None /\ RefsOf(u) = RefsOf(tree["root"])
              /\ tree["root"] # None /\ tree["stage"] \in Trees
              /\ tree'["restored"] = tree["stage"] /\ tree'["stage"] = None
              /\ tree'["root"] = u /\ tree'["quarantine"] = tree["quarantine"]
              /\ DOMAIN tree' = Names /\ tree' = [n \in Names |-> tree'[n]]
<1>1. sel = "root" /\ tree["root"] # None /\ tree["stage"] # None
  BY DEF RestorePublish, IInv, Holding, Restores, LifecycleConstants, Restoring
<1>2. tree["root"] \in Trees /\ tree["stage"] \in Trees /\ DOMAIN tree = Names
  BY <1>1, Selected DEF IInv, Names
<1>3. tree' = [tree EXCEPT !["restored"] = tree["stage"], !["stage"] = None,
                           !["root"] = Unlocked(tree["root"])]
  BY <1>1, <1>2 DEF RestorePublish, Names
<1>4. tree \in [Names -> Trees \cup {None}]
  BY DEF IInv, TypeOK
<1>5. /\ tree'["restored"] = tree["stage"] /\ tree'["stage"] = None
      /\ tree'["root"] = Unlocked(tree["root"]) /\ tree'["quarantine"] = tree["quarantine"]
      /\ DOMAIN tree' = Names /\ tree' = [n \in Names |-> tree'[n]]
  BY <1>3, <1>4 DEF Names
<1> QED BY <1>1, <1>2, <1>5, UnlockedTree, SameRefs

LEMMA RestoreFailsTree ==
    ASSUME LifecycleConstants, IInv, RestoreFails
    PROVE  \E u \in Trees :
              /\ tree' = [tree EXCEPT ![sel] = u, !["stage"] = None]
              /\ u # None /\ u.lock = None /\ RefsOf(u) = RefsOf(tree[sel]) /\ tree[sel] # None
              /\ tree[sel].lock = "restore"
<1>1. tree[sel] \in Trees /\ tree[sel] # None /\ tree[sel].lock = "restore"
  BY Selected DEF RestoreFails, IInv, Holding
<1>2. tree' = [tree EXCEPT ![sel] = Unlocked(tree[sel]), !["stage"] = None]
  BY Selected DEF RestoreFails, IInv
<1> QED BY <1>1, <1>2, UnlockedTree, SameRefs

LEMMA MarkTree ==
    ASSUME LifecycleConstants, IInv, Mark
    PROVE  \E u \in Trees :
              /\ tree' = [tree EXCEPT !["root"] = u]
              /\ u # None /\ u.lock = tree["root"].lock /\ u.db = tree["root"].db
              /\ RefsOf(u) = RefsOf(tree["root"]) /\ tree["root"] # None
<1> DEFINE t == tree["root"]
           u == [t EXCEPT !.marker = RefsOf(t)]
<1>1. t \in Trees /\ t # None
  BY Selected DEF Mark, IInv, Names
<1>2. tree' = [tree EXCEPT !["root"] = u]
  BY Selected DEF Mark, IInv, Names
<1>3. RefsOf(t) \in SUBSET Keys
  BY <1>1, RefsType
<1> HIDE DEF t
<1>4. u \in Trees /\ u.lock = t.lock /\ u.db = t.db
  BY <1>1, <1>3 DEF Trees
<1> HIDE DEF u
<1>5. u # None /\ RefsOf(u) = RefsOf(t)
  BY <1>4, SameRefs DEF LifecycleConstants
<1> QED BY <1>1, <1>2, <1>4, <1>5 DEF t

\* The purge that begins has read the references of the tree it locks.
LEMMA PurgeStartTree ==
    ASSUME LifecycleConstants, IInv, PurgeStart
    PROVE  \E u \in Trees :
              /\ tree' = [tree EXCEPT !["root"] = u]
              /\ u # None /\ u.lock = "purge" /\ RefsOf(u) = RefsOf(tree["root"])
              /\ tree["root"] # None /\ tree["root"].lock = None
              /\ pgRefs' = RefsOf(tree["root"]) /\ pgRefs' \in SUBSET Keys
<1> DEFINE u == [tree["root"] EXCEPT !.lock = "purge"]
<1>1. tree["root"] \in Trees /\ tree["root"] # None
  BY Selected DEF PurgeStart, IInv, Names
<1>2. tree' = [tree EXCEPT !["root"] = u] /\ pgRefs' = RefsOf(tree["root"])
  BY Selected DEF PurgeStart, MarkerFits, IInv, Names
<1>3. tree["root"].lock = None
  BY <1>1 DEF PurgeStart, Lockable, Made
<1>4. u \in Trees /\ u # None /\ u.lock = "purge" /\ u.db = tree["root"].db
  BY <1>1, Relocked DEF Holders
<1> QED BY <1>1, <1>2, <1>3, <1>4, SameRefs, RefsType

\* What is left of a tree names at most what the tree named.
LEMMA RemoveFailsTree ==
    ASSUME LifecycleConstants, IInv, RemoveFails
    PROVE  /\ tree["quarantine"] # None
           /\ \E u \in Trees :
              /\ u # None /\ RefsOf(u) \subseteq RefsOf(tree["quarantine"])
              /\ \/ tree["root"] = None /\ tree' = [tree EXCEPT !["root"] = u, !["quarantine"] = None]
                 \/ tree["root"] # None /\ tree' = [tree EXCEPT !["quarantine"] = u]
<1> DEFINE t == tree["quarantine"]
<1>1. t \in Trees /\ t # None
  BY Selected DEF RemoveFails, IInv, Holding, Names
<1>2. PICK lost \in SUBSET {"db", "marker"} :
        LET left == [db |-> IF "db" \in lost THEN None ELSE tree["quarantine"].db,
                     marker |-> IF "marker" \in lost THEN None ELSE tree["quarantine"].marker,
                     lock |-> None]
        IN tree' = IF tree["root"] = None
                   THEN [tree EXCEPT !["root"] = left, !["quarantine"] = None]
                   ELSE [tree EXCEPT !["quarantine"] = left]
  BY DEF RemoveFails
<1> DEFINE u == [db |-> IF "db" \in lost THEN None ELSE t.db,
                 marker |-> IF "marker" \in lost THEN None ELSE t.marker, lock |-> None]
<1>3. tree' = IF tree["root"] = None
              THEN [tree EXCEPT !["root"] = u, !["quarantine"] = None]
              ELSE [tree EXCEPT !["quarantine"] = u]
  BY <1>2
<1> HIDE DEF t
<1>4. u \in Trees /\ (u.db = None \/ u.db = t.db)
  BY <1>1 DEF Trees
<1> HIDE DEF u
<1>5. u # None /\ RefsOf(u) \subseteq RefsOf(t)
  BY <1>4 DEF RefsOf, LifecycleConstants
<1> QED BY <1>1, <1>3, <1>4, <1>5 DEF t

\* A purge that dies gives up its locks and nothing else.
LEMMA PurgeDiesTree ==
    ASSUME LifecycleConstants, IInv, PurgeDies
    PROVE  /\ tree' \in [Names -> Trees \cup {None}]
           /\ \A n \in Names :
                /\ tree[n] = None => tree'[n] = None
                /\ tree[n] # None =>
                      /\ tree'[n] # None /\ tree'[n].db = tree[n].db
                      /\ RefsOf(tree'[n]) = RefsOf(tree[n])
                      /\ tree[n].lock # "purge" => tree'[n] = tree[n]
<1>1. tree' = [n \in Names |->
                  IF tree[n] # None /\ tree[n].lock = "purge" THEN Unlocked(tree[n]) ELSE tree[n]]
  BY DEF PurgeDies
<1>2. ASSUME NEW n \in Names
      PROVE  /\ tree'[n] \in Trees \cup {None}
             /\ tree[n] = None => tree'[n] = None
             /\ tree[n] # None =>
                   /\ tree'[n] # None /\ tree'[n].db = tree[n].db
                   /\ RefsOf(tree'[n]) = RefsOf(tree[n])
                   /\ tree[n].lock # "purge" => tree'[n] = tree[n]
  <2>1. CASE tree[n] # None /\ tree[n].lock = "purge"
    <3>1. tree'[n] = Unlocked(tree[n]) /\ tree[n] \in Trees
      BY <1>1, <2>1, Selected DEF IInv
    <3> QED BY <2>1, <3>1, UnlockedTree, SameRefs
  <2>2. CASE ~(tree[n] # None /\ tree[n].lock = "purge")
    <3>1. tree'[n] = tree[n] /\ tree[n] \in Trees \cup {None}
      BY <1>1, <2>2 DEF IInv, TypeOK
    <3> QED BY <2>2, <3>1
  <2> QED BY <2>1, <2>2
<1> QED BY <1>1, <1>2

-----------------------------------------------------------------------------
(* The steps keep the invariant.                                           *)

LEMMA TypeStep ==
    ASSUME LifecycleConstants, IInv, [Next]_vars
    PROVE  TypeOK'
<1> USE DEF IInv, TypeOK, Holding, LifecycleConstants, Names, Restoring, Purging
<1>1. CASE Start
  BY <1>1, StartTree DEF Start
<1>2. CASE Write
  BY <1>2, WriteTree DEF Write
<1>3. CASE Stop
  BY <1>3, StopTree DEF Stop
<1>4. CASE Reinstall
  BY <1>4 DEF Reinstall
<1>5. ASSUME NEW k \in Keys, SaveKey(k) PROVE TypeOK'
  BY <1>5, SaveTree DEF SaveKey
<1>6. CASE BackupStart
  BY <1>6, BackupStages DEF BackupStart
<1>7. CASE BackupCopy
  <2>1. running /\ tree[sel].db \in Databases
    BY <1>7, OpenTree, BackupStages DEF BackupCopy
  <2> QED BY <1>7, <2>1, BackupStages DEF BackupCopy
<1>8. CASE BackupPublish
  BY <1>8, BackupStages DEF BackupPublish
<1>9. CASE BackupFails
  BY <1>9 DEF BackupFails
<1>10. CASE Damage
  BY <1>10, BackupStages DEF Damage
<1>11. CASE RestoreStart
  BY <1>11, RestoreStartTree DEF RestoreStart
<1>12. CASE RestoreCheck
  BY <1>12 DEF RestoreCheck
<1>13. CASE RestoreCopy
  BY <1>13, RestoreCopyTree DEF RestoreCopy
<1>14. CASE RestorePublish
  BY <1>14, RestorePublishTree DEF RestorePublish
<1>15. CASE RestoreFails
  BY <1>15, RestoreFailsTree DEF RestoreFails
<1>16. CASE Mark
  BY <1>16, MarkTree DEF Mark
<1>17. CASE PurgeStart
  BY <1>17, PurgeStartTree DEF PurgeStart
<1>18. CASE Quarantine
  BY <1>18 DEF Quarantine
<1>19. CASE RemoveTree
  BY <1>19 DEF RemoveTree
<1>20. CASE RemoveFails
  <2>1. PICK u \in Trees :
           \/ tree' = [tree EXCEPT !["root"] = u, !["quarantine"] = None]
           \/ tree' = [tree EXCEPT !["quarantine"] = u]
    BY <1>20, RemoveFailsTree
  <2>2. tree' \in [Names -> Trees \cup {None}]
    BY <2>1
  <2> QED BY <1>20, <2>2 DEF RemoveFails
<1>21. ASSUME NEW k \in Keys, DeleteKey(k) PROVE TypeOK'
  BY <1>21 DEF DeleteKey
<1>22. CASE PurgeEnds
  BY <1>22 DEF PurgeEnds
<1>23. CASE PurgeDies
  BY <1>23, PurgeDiesTree DEF PurgeDies
<1>24. CASE UNCHANGED vars
  BY <1>24 DEF vars
<1> QED BY <1>1, <1>2, <1>3, <1>4, <1>5, <1>6, <1>7, <1>8, <1>9, <1>10, <1>11, <1>12, <1>13, <1>14, <1>15, <1>16, <1>17, <1>18, <1>19, <1>20, <1>21, <1>22, <1>23, <1>24 DEF Next

LEMMA HoldingStep ==
    ASSUME LifecycleConstants, IInv, [Next]_vars
    PROVE  Holding'
<1> USE DEF IInv, TypeOK, Holding, LifecycleConstants, Names, Holders, Restoring, Purging
<1>1. CASE Start
  BY <1>1, StartTree DEF Start
<1>2. CASE Write
  BY <1>2, WriteTree DEF Write
<1>3. CASE Stop
  BY <1>3, StopTree DEF Stop
<1>4. CASE Reinstall
  BY <1>4 DEF Reinstall
<1>5. ASSUME NEW k \in Keys, SaveKey(k) PROVE Holding'
  BY <1>5, SaveTree DEF SaveKey
<1>6. CASE BackupStart
  BY <1>6 DEF BackupStart
<1>7. CASE BackupCopy
  <2>1. running /\ backup = None
    BY <1>7, BackupStages DEF BackupCopy
  <2> QED BY <1>7, <2>1 DEF BackupCopy
<1>8. CASE BackupPublish
  BY <1>8 DEF BackupPublish
<1>9. CASE BackupFails
  BY <1>9 DEF BackupFails
<1>10. CASE Damage
  BY <1>10 DEF Damage
<1>11. CASE RestoreStart
  BY <1>11, RestoreStartTree DEF RestoreStart
<1>12. CASE RestoreCheck
  BY <1>12 DEF RestoreCheck
<1>13. CASE RestoreCopy
  BY <1>13, RestoreCopyTree DEF RestoreCopy
<1>14. CASE RestorePublish
  BY <1>14, RestorePublishTree DEF RestorePublish
<1>15. CASE RestoreFails
  BY <1>15, RestoreFailsTree DEF RestoreFails
<1>16. CASE Mark
  BY <1>16, MarkTree DEF Mark
<1>17. CASE PurgeStart
  BY <1>17, PurgeStartTree DEF PurgeStart
<1>18. CASE Quarantine
  BY <1>18 DEF Quarantine
<1>19. CASE RemoveTree
  BY <1>19 DEF RemoveTree
<1>20. CASE RemoveFails
  BY <1>20, RemoveFailsTree DEF RemoveFails
<1>21. ASSUME NEW k \in Keys, DeleteKey(k) PROVE Holding'
  BY <1>21 DEF DeleteKey
<1>22. CASE PurgeEnds
  BY <1>22 DEF PurgeEnds
<1>23. CASE PurgeDies
  BY <1>23, PurgeDiesTree DEF PurgeDies
<1>24. CASE UNCHANGED vars
  BY <1>24 DEF vars
<1> QED BY <1>1, <1>2, <1>3, <1>4, <1>5, <1>6, <1>7, <1>8, <1>9, <1>10, <1>11, <1>12, <1>13, <1>14, <1>15, <1>16, <1>17, <1>18, <1>19, <1>20, <1>21, <1>22, <1>23, <1>24 DEF Next

LEMMA RestoresStep ==
    ASSUME LifecycleConstants, IInv, [Next]_vars
    PROVE  Restores'
<1> USE DEF IInv, TypeOK, Holding, Restores, LifecycleConstants, Names, Restoring, Purging
<1>1. CASE Start
  BY <1>1, StartTree DEF Start
<1>2. CASE Write
  BY <1>2, WriteTree DEF Write
<1>3. CASE Stop
  BY <1>3, StopTree DEF Stop
<1>4. CASE Reinstall
  BY <1>4 DEF Reinstall
<1>5. ASSUME NEW k \in Keys, SaveKey(k) PROVE Restores'
  BY <1>5, SaveTree DEF SaveKey
<1>6. CASE BackupStart
  BY <1>6 DEF BackupStart
<1>7. CASE BackupCopy
  BY <1>7, OpenTree DEF BackupCopy
<1>8. CASE BackupPublish
  BY <1>8 DEF BackupPublish
<1>9. CASE BackupFails
  BY <1>9 DEF BackupFails
<1>10. CASE Damage
  BY <1>10, BackupStages DEF Damage
<1>11. CASE RestoreStart
  BY <1>11, RestoreStartTree DEF RestoreStart
<1>12. CASE RestoreCheck
  BY <1>12, Selected DEF RestoreCheck, Restorable
<1>13. CASE RestoreCopy
  BY <1>13, RestoreCopyTree DEF RestoreCopy
<1>14. CASE RestorePublish
  BY <1>14, RestorePublishTree DEF RestorePublish
<1>15. CASE RestoreFails
  BY <1>15, RestoreFailsTree DEF RestoreFails
<1>16. CASE Mark
  BY <1>16, MarkTree DEF Mark
<1>17. CASE PurgeStart
  BY <1>17, PurgeStartTree DEF PurgeStart
<1>18. CASE Quarantine
  BY <1>18 DEF Quarantine
<1>19. CASE RemoveTree
  BY <1>19 DEF RemoveTree
<1>20. CASE RemoveFails
  BY <1>20, RemoveFailsTree DEF RemoveFails
<1>21. ASSUME NEW k \in Keys, DeleteKey(k) PROVE Restores'
  BY <1>21 DEF DeleteKey
<1>22. CASE PurgeEnds
  BY <1>22 DEF PurgeEnds
<1>23. CASE PurgeDies
  BY <1>23, PurgeDiesTree DEF PurgeDies
<1>24. CASE UNCHANGED vars
  BY <1>24 DEF vars
<1> QED BY <1>1, <1>2, <1>3, <1>4, <1>5, <1>6, <1>7, <1>8, <1>9, <1>10, <1>11, <1>12, <1>13, <1>14, <1>15, <1>16, <1>17, <1>18, <1>19, <1>20, <1>21, <1>22, <1>23, <1>24 DEF Next

LEMMA NamedStep ==
    ASSUME LifecycleConstants, IInv, [Next]_vars
    PROVE  Named'
<1> USE DEF IInv, TypeOK, Holding, Restores, Named, LifecycleConstants, Names, Restoring, Purging
<1>1. CASE Start
  BY <1>1, StartTree DEF Start
<1>2. CASE Write
  BY <1>2, WriteTree DEF Write
<1>3. CASE Stop
  BY <1>3, StopTree DEF Stop
<1>4. CASE Reinstall
  BY <1>4 DEF Reinstall
<1>5. ASSUME NEW k \in Keys, SaveKey(k) PROVE Named'
  <2>1. PICK u \in Trees :
           /\ tree' = [tree EXCEPT ![sel] = u]
           /\ RefsOf(u) = RefsOf(tree[sel]) \cup {k} /\ tree[sel] # None
    BY <1>5, SaveTree
  <2>2. ASSUME NEW n \in Names, tree[n] # None
        PROVE  k \notin RefsOf(tree[n])
    <3>1. tree[n].db # None => k \notin tree[n].db.refs
      BY <1>5, <2>2 DEF SaveKey
    <3> QED BY <3>1 DEF RefsOf
  <2>3. k \notin store /\ store' = store \cup {k} /\ backup' = backup /\ pg' = pg /\ pgRefs' = pgRefs
    BY <1>5 DEF SaveKey
  <2>4. ASSUME NEW n \in Names
        PROVE  tree'[n] = IF n = sel THEN u ELSE tree[n]
    BY <2>1
  <2>5. CASE backup = None
    <3>1. sel = "root"
      BY <2>1, <2>5
    <3>2. ASSUME NEW n \in Names, tree'[n] # None
          PROVE  /\ RefsOf(tree'[n]) \subseteq store'
                 /\ pg = "deleting" => pgRefs \cap RefsOf(tree'[n]) = {}
      BY <2>1, <2>3, <2>4, <2>5, <3>1, <3>2
    <3>3. tree'["quarantine"] # None => RefsOf(tree'["root"]) \cap RefsOf(tree'["quarantine"]) = {}
      BY <2>1, <2>2, <2>4, <2>5, <3>1
    <3> QED BY <2>3, <2>4, <2>5, <3>1, <3>2, <3>3
  <2> QED BY <2>3, <2>5
<1>6. CASE BackupStart
  BY <1>6 DEF BackupStart
<1>7. CASE BackupCopy
  BY <1>7, OpenTree DEF BackupCopy
<1>8. CASE BackupPublish
  BY <1>8 DEF BackupPublish
<1>9. CASE BackupFails
  BY <1>9 DEF BackupFails
<1>10. CASE Damage
  BY <1>10, BackupStages DEF Damage
<1>11. CASE RestoreStart
  BY <1>11, RestoreStartTree DEF RestoreStart
<1>12. CASE RestoreCheck
  BY <1>12 DEF RestoreCheck
<1>13. CASE RestoreCopy
  BY <1>13, RestoreCopyTree DEF RestoreCopy
<1>14. CASE RestorePublish
  BY <1>14, RestorePublishTree DEF RestorePublish
<1>15. CASE RestoreFails
  BY <1>15, RestoreFailsTree DEF RestoreFails
<1>16. CASE Mark
  BY <1>16, MarkTree DEF Mark
<1>17. CASE PurgeStart
  BY <1>17, PurgeStartTree DEF PurgeStart
<1>18. CASE Quarantine
  BY <1>18 DEF Quarantine
<1>19. CASE RemoveTree
  BY <1>19 DEF RemoveTree
<1>20. CASE RemoveFails
  BY <1>20, RemoveFailsTree DEF RemoveFails
<1>21. ASSUME NEW k \in Keys, DeleteKey(k) PROVE Named'
  BY <1>21 DEF DeleteKey
<1>22. CASE PurgeEnds
  BY <1>22 DEF PurgeEnds
<1>23. CASE PurgeDies
  BY <1>23, PurgeDiesTree DEF PurgeDies
<1>24. CASE UNCHANGED vars
  BY <1>24 DEF vars
<1> QED BY <1>1, <1>2, <1>3, <1>4, <1>5, <1>6, <1>7, <1>8, <1>9, <1>10, <1>11, <1>12, <1>13, <1>14, <1>15, <1>16, <1>17, <1>18, <1>19, <1>20, <1>21, <1>22, <1>23, <1>24 DEF Next

-----------------------------------------------------------------------------
(* The theorems.                                                           *)

LEMMA StepInv ==
    ASSUME LifecycleConstants, IInv, [Next]_vars
    PROVE  IInv'
  BY TypeStep, HoldingStep, RestoresStep, NamedStep DEF IInv

LEMMA LifecycleInv ==
    ASSUME LifecycleConstants
    PROVE  Spec => []IInv
<1>1. Init => IInv
  BY InitInv
<1>2. IInv /\ [Next]_vars => IInv'
  BY StepInv
<1> QED BY <1>1, <1>2, PTL DEF Spec

\* The trees, the backup and the processes are what TypeOK says of them.
THEOREM LifecycleTypes ==
    ASSUME LifecycleConstants
    PROVE  Spec => []TypeOK
<1>1. IInv => TypeOK
  BY DEF IInv
<1> QED BY <1>1, LifecycleInv, PTL

\* A server that runs has the tree it opened, whole and at its own schema,
\* whatever backup, restore, purge and reinstallation do meanwhile
\* (acquireDataRootWriterLock, openDatabase, purgeDisposableDataRoot).
THEOREM ServedTreeStaysIntact ==
    ASSUME LifecycleConstants
    PROVE  Spec => []ServedTreeIntact
<1>1. IInv => ServedTreeIntact
  BY DEF IInv, Holding, ServedTreeIntact
<1> QED BY <1>1, LifecycleInv, PTL

\* A purge deletes the keys its own tree names, from the lock to the removal
\* (purgeDisposableDataRoot reads the marker once).
THEOREM PurgeNamesWhatItDeletes ==
    ASSUME LifecycleConstants
    PROVE  Spec => []PurgeNamesAll
<1>1. IInv => PurgeNamesAll
  BY DEF IInv, Holding, PurgeNamesAll, LifecycleConstants, Purging
<1> QED BY <1>1, LifecycleInv, PTL

\* A tree that is or may come back as the data directory has its keys: a
\* purge that fails or dies deletes none of them.
THEOREM TreesHaveTheirKeys ==
    ASSUME LifecycleConstants
    PROVE  Spec => []RefsHaveKeys
<1>1. IInv => RefsHaveKeys
  BY DEF IInv, Named, RefsHaveKeys, Names
<1> QED BY <1>1, LifecycleInv, PTL

\* What is restored is the database that the manifest records, at a schema
\* the restoring binary opens (restoreBackup validates it three times).
THEOREM RestoresAreAsRecorded ==
    ASSUME LifecycleConstants
    PROVE  Spec => RestoredAsRecorded
<1>1. IInv /\ [Next]_vars => [RestoresRecord]_vars
  <2> SUFFICES ASSUME IInv, [Next]_vars, tree["restored"] = None, tree'["restored"] # None
               PROVE  tree'["restored"].db = backup.manifest /\ tree'["restored"].db.ver <= bin
    BY DEF RestoresRecord
  <2> USE DEF IInv, TypeOK, Holding, Restores, LifecycleConstants, Names, Restoring, Purging
  <2>1. CASE Start
    BY <2>1, StartTree DEF Start
  <2>2. CASE Write
    BY <2>2, WriteTree DEF Write
  <2>3. CASE Stop
    BY <2>3, StopTree DEF Stop
  <2>4. CASE Reinstall
    BY <2>4 DEF Reinstall
  <2>5. ASSUME NEW k \in Keys, SaveKey(k)
        PROVE  tree'["restored"].db = backup.manifest /\ tree'["restored"].db.ver <= bin
    BY <2>5, SaveTree DEF SaveKey
  <2>6. CASE BackupStart
    BY <2>6 DEF BackupStart
  <2>7. CASE BackupCopy
    BY <2>7, OpenTree DEF BackupCopy
  <2>8. CASE BackupPublish
    BY <2>8 DEF BackupPublish
  <2>9. CASE BackupFails
    BY <2>9 DEF BackupFails
  <2>10. CASE Damage
    BY <2>10 DEF Damage
  <2>11. CASE RestoreStart
    BY <2>11, RestoreStartTree DEF RestoreStart
  <2>12. CASE RestoreCheck
    BY <2>12 DEF RestoreCheck
  <2>13. CASE RestoreCopy
    BY <2>13, RestoreCopyTree DEF RestoreCopy
  <2>14. CASE RestorePublish
    BY <2>14, RestorePublishTree DEF RestorePublish
  <2>15. CASE RestoreFails
    BY <2>15, RestoreFailsTree DEF RestoreFails
  <2>16. CASE Mark
    BY <2>16, MarkTree DEF Mark
  <2>17. CASE PurgeStart
    BY <2>17, PurgeStartTree DEF PurgeStart
  <2>18. CASE Quarantine
    BY <2>18 DEF Quarantine
  <2>19. CASE RemoveTree
    BY <2>19 DEF RemoveTree
  <2>20. CASE RemoveFails
    BY <2>20, RemoveFailsTree DEF RemoveFails
  <2>21. ASSUME NEW k \in Keys, DeleteKey(k)
        PROVE  tree'["restored"].db = backup.manifest /\ tree'["restored"].db.ver <= bin
    BY <2>21 DEF DeleteKey
  <2>22. CASE PurgeEnds
    BY <2>22 DEF PurgeEnds
  <2>23. CASE PurgeDies
    BY <2>23, PurgeDiesTree DEF PurgeDies
  <2>24. CASE UNCHANGED vars
    BY <2>24 DEF vars
  <2> QED BY <2>1, <2>2, <2>3, <2>4, <2>5, <2>6, <2>7, <2>8, <2>9, <2>10, <2>11, <2>12, <2>13, <2>14, <2>15, <2>16, <2>17, <2>18, <2>19, <2>20, <2>21, <2>22, <2>23, <2>24 DEF Next
<1> QED BY <1>1, LifecycleInv, PTL DEF Spec, RestoredAsRecorded

=============================================================================
