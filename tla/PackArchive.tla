----------------------------- MODULE PackArchive -----------------------------
(***************************************************************************)
(* What the validator accepts as a persona pack: the structure of the ZIP  *)
(* archive, the identity of its paths and the role of every member.        *)
(*                                                                         *)
(* An archive is its members, with the bytes their local records span, the *)
(* place of the central directory, and the assets its manifest declares.   *)
(* A path is the sequence of its segments below the pack's root.  Whatever *)
(* is wrong with one member alone (its headers disagree, its payload does  *)
(* not fit, its type or name is not allowed) is one flag of the archive.   *)
(***************************************************************************)
EXTENDS Naturals, Sequences, FiniteSets, SequencesExt

CONSTANTS
    Paths,       \* paths a member may have
    Fold,        \* lower case of each segment
    TopLevel,    \* paths with a role of their own
    Required,    \* paths that must be there
    MaxMembers,  \* bound on the members of an archive
    MaxOffset    \* bound on the bytes before the central directory

\* What the constants are; the modules that instantiate this one assume it.
PackArchiveConstants ==
    /\ Required \subseteq TopLevel
    /\ MaxMembers \in Nat /\ MaxOffset \in Nat

Spans   == {s \in (0..MaxOffset) \X (0..MaxOffset) : s[1] < s[2]}

\* A member as its central and local records describe it.
Members == [path : Paths, dir : BOOLEAN, span : Spans]

VARIABLES
    sound,     \* each member by itself is as it should be
    members,   \* the archive's members in the order of the central directory
    central,   \* where the central directory begins
    assets,    \* asset paths the manifest declares
    verdict    \* "none", "unreadable", "invalid", "valid"

vars == <<sound, members, central, assets, verdict>>

IsAsset(p) == Len(p) > 1 /\ p[1] = "assets"

\* The paths a manifest may declare as assets.
Declarable == {p \in Paths : IsAsset(p)}

TypeOK ==
    /\ sound \in BOOLEAN
    /\ Len(members) <= MaxMembers /\ Range(members) \subseteq Members
    /\ central \in 0..MaxOffset
    /\ assets \subseteq Declarable
    /\ verdict \in {"none", "unreadable", "invalid", "valid"}

Init ==
    /\ sound \in BOOLEAN
    /\ members \in UNION {[1..n -> Members] : n \in 0..MaxMembers}
    /\ central \in 0..MaxOffset
    /\ assets \in SUBSET Declarable
    /\ verdict = "none"

FoldPath(p) == [i \in DOMAIN p |-> Fold[p[i]]]

-----------------------------------------------------------------------------
(* read_archive.                                                           *)

(* No two members have one identity, in any case.                          *)
Distinct == \A i, j \in DOMAIN members :
               FoldPath(members[i].path) = FoldPath(members[j].path) => i = j

(* The records, in the order of their place, fill the bytes up to the      *)
(* central directory without gap or overlap.                               *)
Before(s, t) == s[1] < t[1] \/ (s[1] = t[1] /\ s[2] <= t[2])

Filled ==
    LET s == SortSeq([i \in DOMAIN members |-> members[i].span], Before)
    IN /\ \A i \in DOMAIN s : s[i][1] = (IF i = 1 THEN 0 ELSE s[i - 1][2])
       /\ central = IF s = <<>> THEN 0 ELSE s[Len(s)][2]

\* Mutant: a path is compared with the files' names as they are written.
NoFileAboveExact ==
    \A i, j \in DOMAIN members :
        ~members[i].dir /\ ~members[j].dir =>
            ~IsStrictPrefix(members[j].path, members[i].path)

(* No file lies below another file.                                        *)
NoFileAbove ==
    \A i, j \in DOMAIN members :
        ~members[i].dir /\ ~members[j].dir =>
            ~IsStrictPrefix(FoldPath(members[j].path), FoldPath(members[i].path))

(* Each member by itself: extra fields, path, type, sizes and checksum.    *)
MembersSound == sound

Readable ==
    /\ MembersSound
    /\ \A i \in DOMAIN members : members[i].span[2] <= central
    /\ Distinct /\ Filled /\ NoFileAbove

-----------------------------------------------------------------------------
(* inspect_pack.                                                           *)

Files == {members[i].path : i \in {k \in DOMAIN members : ~members[k].dir}}

(* The directories a pack may name: those above a declared asset.          *)
AllowedDirectory(p) ==
    p \in {<<>>, <<"assets">>} \/ \E a \in assets : IsStrictPrefix(p, a)

(* Every member has a role, and the assets are exactly the declared ones.  *)
RolesFit ==
    /\ Required \subseteq Files
    /\ \A i \in DOMAIN members :
          IF members[i].dir THEN AllowedDirectory(members[i].path)
          ELSE members[i].path \in TopLevel \/ IsAsset(members[i].path)
    /\ {p \in Files : IsAsset(p)} = assets

(* inspect_pack as a whole; an archive it cannot read is one error.        *)
Inspect ==
    /\ verdict = "none"
    /\ verdict' = IF ~Readable THEN "unreadable" ELSE IF RolesFit THEN "valid" ELSE "invalid"
    /\ UNCHANGED <<sound, members, central, assets>>

Done == verdict # "none" /\ UNCHANGED vars

Next == Inspect \/ Done

Spec == Init /\ [][Next]_vars

-----------------------------------------------------------------------------
(* Properties, each a reference definition of what an accepted pack is.    *)

(* Every byte before the central directory belongs to one member: nothing  *)
(* is hidden and nothing is read twice.                                    *)
NoHiddenBytes ==
    verdict \in {"valid", "invalid"} =>
        \A b \in 0..(MaxOffset - 1) :
            Cardinality({i \in DOMAIN members : members[i].span[1] <= b /\ b < members[i].span[2]})
                = IF b < central THEN 1 ELSE 0

(* A valid pack can be unpacked where upper and lower case are the same:   *)
(* no member, file or directory, would have to lie on or below a file.     *)
Unpacks ==
    verdict = "valid" =>
        \A i, j \in DOMAIN members :
            i # j /\ ~members[j].dir =>
                ~IsPrefix(FoldPath(members[j].path), FoldPath(members[i].path))

(* Nothing is in a valid pack that neither the format nor the manifest     *)
(* knows of, and nothing they ask for is missing.                          *)
ExactlyDeclared ==
    verdict = "valid" => Files \in {assets \cup t : t \in {x \in SUBSET TopLevel : Required \subseteq x}}

=============================================================================
