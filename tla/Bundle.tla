------------------------------- MODULE Bundle -------------------------------
(***************************************************************************)
(* The macOS app on its way from the build to a running server: assembled  *)
(* with a schema 1 manifest (packaging/macos/assemble-app.mjs), signed with *)
(* a schema 2 manifest (scripts/package/macos-signing.mjs), stapled        *)
(* (macos-notarize.mjs), archived and extracted (deterministic_app_zip.py),*)
(* checked by the launcher (main.swift) and by the server                  *)
(* (src/platform/runtime-assets.ts).  Five verifiers in three languages    *)
(* judge one tree; each changes or assumes file modes of its own.          *)
(*                                                                         *)
(* A file is its content, its code signature and its mode; one file stands *)
(* for each kind the verifiers tell apart.  `Native' is a Mach-O module    *)
(* that the unsigned app keeps at mode 0444.  Between two steps the tree    *)
(* is at rest and may be disturbed.                                        *)
(***************************************************************************)
EXTENDS Naturals

CONSTANT MaxDisturbs   \* bound: changes made to a tree at rest

\* What the constants are; the modules that instantiate this one assume it.
BundleAssumption == MaxDisturbs \in Nat

VARIABLES app,       \* the tree: [file, dirs, manifest, seal]
          place,     \* which artifact the tree is
          run,       \* "idle", "started" (launcher accepted), "running"
          refused,   \* some step refused the tree
          disturbs,  \* how often it was changed at rest
          released   \* the tree as the last release step left it

vars == <<app, place, run, refused, disturbs, released>>

Files == {"launcher", "helper", "native", "page", "manifest", "seal", "ticket", "extra"}

SignatureOwned == {"launcher", "seal", "ticket"}

Payload == Files \ (SignatureOwned \cup {"manifest"})

ClassifiedCode == {"launcher", "helper", "native"}

Executables == {"launcher", "helper"}

\* r: 0444, x: 0555, w: writable, wx: writable and executable.
Modes == {"r", "x", "w", "wx"}

Absent == [src |-> "none", sig |-> "none", mode |-> "none"]

\* The tree's files, one by one.
EachFile(g(_)) ==
    [launcher |-> g("launcher"), helper |-> g("helper"), native |-> g("native"),
     page |-> g("page"), manifest |-> g("manifest"), seal |-> g("seal"),
     ticket |-> g("ticket"), extra |-> g("extra")]

Here(a) == {f \in Files : a.file[f] # Absent}

Exec(mode) == mode \in {"x", "wx"}

Digest(file) == [src |-> file.src, sig |-> file.sig]

Regular(a, f) == a.file[f].src \notin {"none", "link"}

MachO(a, f) ==
    \/ a.file[f].src = "macho"
    \/ a.file[f].src = "built" /\ f \in ClassifiedCode

CodeIn(a) == {f \in Here(a) : MachO(a, f)}

-----------------------------------------------------------------------------
(* Mode changes and what codesign does. *)

Chmod(a, newMode(_, _)) ==
    LET g(f) == IF f \in Here(a) THEN [a.file[f] EXCEPT !.mode = newMode(f, @)] ELSE Absent
    IN  [a EXCEPT !.file = EachFile(g)]

MakeWritable(a) ==
    LET m(f, old) == IF Exec(old) THEN "wx" ELSE "w"
    IN  [Chmod(a, m) EXCEPT !.dirs = "w"]

MakeImmutable(a) ==
    LET m(f, old) == IF Exec(old) THEN "x" ELSE "r"
    IN  [Chmod(a, m) EXCEPT !.dirs = "x"]

MakeNestedCodeWritable(a) ==
    LET m(f, old) == IF f \in CodeIn(a) \ {"launcher"} THEN "wx" ELSE old
    IN  Chmod(a, m)

MakeSigningWorkspace(a) ==
    LET m(f, old) == CASE f = "launcher" -> "wx" [] f = "manifest" -> "w" [] OTHER -> old
    IN  [Chmod(a, m) EXCEPT !.dirs = "w"]

\* What the resource seal covers: contents, never modes; not the ticket.
Sealed(a) ==
    [files |-> [f \in Here(a) \ SignatureOwned |-> Digest(a.file[f])], manifest |-> a.manifest]

\* codesign of one nested object.
SignNested(a, who) ==
    LET g(f) == IF f \in CodeIn(a) \ {"launcher"} THEN [a.file[f] EXCEPT !.sig = who] ELSE a.file[f]
    IN  [a EXCEPT !.file = EachFile(g)]

\* codesign of the bundle: the launcher's signature and the seal file.
SignOuter(a, who) ==
    [a EXCEPT !.file["launcher"].sig = who,
              !.file["seal"] = [src |-> "built", sig |-> "none", mode |-> "w"],
              !.seal = Sealed(a)]

\* codesign --verify --strict, SecStaticCodeCheckValidity.
SealValid(a, who) ==
    /\ a.file["launcher"].sig = who
    /\ a.file["seal"].src = "built"
    /\ a.seal = Sealed(a)

-----------------------------------------------------------------------------
(* Manifests. *)

NoManifest == [schema |-> 0, files |-> <<>>, code |-> {}]

ManifestV1(a) ==
    [schema |-> 1, files |-> [f \in Here(a) |-> Digest(a.file[f])], code |-> {}]

V2PayloadFiles(a) == [f \in Here(a) \cap Payload |-> a.file[f]]

ManifestV2(a) == [schema |-> 2, files |-> V2PayloadFiles(a), code |-> CodeIn(a)]

ValidateSignedManifest(m) ==
    /\ m.schema = 2
    /\ DOMAIN m.files # {} /\ m.code # {}
    /\ \A f \in DOMAIN m.files : f \in Payload /\ m.files[f].mode \in {"r", "x"}
    /\ \A f \in m.code : f = "launcher" \/ (f \in DOMAIN m.files /\ m.files[f].mode = "x")

-----------------------------------------------------------------------------
(* The release steps' verifiers. *)

ClassifyPayload(a) ==
    \A f \in Here(a) :
        /\ Regular(a, f)
        /\ IF MachO(a, f) THEN f \in ClassifiedCode ELSE ~Exec(a.file[f].mode)

InventoryApp(a) ==
    /\ a.dirs = "x"
    /\ \A f \in Here(a) :
           Regular(a, f) /\ a.file[f].mode = IF f \in Executables THEN "x" ELSE "r"

VerifyUnsignedApp(a) ==
    /\ InventoryApp(a)
    /\ a.file["manifest"].src = "built" /\ a.manifest.schema = 1
    /\ a.file["helper"].src = "built" /\ a.file["helper"].sig = "adhoc"
    /\ a.manifest.files = [f \in Here(a) \ {"manifest"} |-> Digest(a.file[f])]

VerifySignedApp(a, requireStaple) ==
    /\ SealValid(a, "team")
    /\ a.file["manifest"].src = "built" /\ ValidateSignedManifest(a.manifest)
    /\ ClassifyPayload(a)
    /\ CodeIn(a) = a.manifest.code
    /\ \A f \in Here(a) \cap SignatureOwned :
           a.file[f].mode = IF f = "launcher" THEN "x" ELSE "r"
    /\ a.manifest.files = V2PayloadFiles(a)
    /\ {"launcher", "seal"} \subseteq Here(a)
    /\ requireStaple <=> "ticket" \in Here(a)
    /\ \A f \in a.manifest.code : a.file[f].sig = "team"

-----------------------------------------------------------------------------
(* The launcher. *)

\* containingSignatureState: the launcher's own signature decides which
\* manifest schema it may read, before it opens the manifest.
Trust(a) ==
    CASE a.file["launcher"].sig = "team" -> IF SealValid(a, "team") THEN "developerID" ELSE "invalid"
      [] a.file["launcher"].sig \in {"adhoc", "none"} -> "unsigned"
      [] OTHER -> "invalid"

ParseManifest(a) ==
    /\ Regular(a, "manifest") /\ a.file["manifest"].src = "built"
    /\ a.manifest.schema \in {1, 2}
    /\ a.manifest.schema = 2 => ValidateSignedManifest(a.manifest)

SchemaFitsTrust(a) == (Trust(a) = "developerID") <=> (a.manifest.schema = 2)

RecordsMatch(a) ==
    \A f \in DOMAIN a.manifest.files :
        /\ Regular(a, f) /\ Digest(a.file[f]) = Digest(a.manifest.files[f])
        /\ a.manifest.schema = 2 => a.file[f].mode = a.manifest.files[f].mode

Required(a) == DOMAIN a.manifest.files \cup {"manifest", "launcher", "seal"}

ProtectedModes(a) ==
    \A f \in Here(a) \cap (SignatureOwned \cup {"manifest"}) :
        a.file[f].mode = IF f = "launcher" THEN "x" ELSE "r"

ClosedInventory(a) ==
    /\ a.dirs = "x"
    /\ \A f \in Here(a) :
           /\ Regular(a, f)
           /\ IF MachO(a, f) THEN f \in ClassifiedCode ELSE a.file[f].mode # "x"
    /\ ProtectedModes(a)
    /\ Required(a) \subseteq Here(a) /\ Here(a) \subseteq Required(a) \cup {"ticket"}
    /\ CodeIn(a) = a.manifest.code

ValidatePayload(a) == RecordsMatch(a) /\ (a.manifest.schema = 2 => ClosedInventory(a))

LauncherAccepts(a) ==
    /\ Trust(a) # "invalid"
    /\ ParseManifest(a)
    /\ SchemaFitsTrust(a)
    /\ ValidatePayload(a)

-----------------------------------------------------------------------------
(* The server. *)

\* canonicalEntry and walkImmutablePayload, as the user the server runs as.
ImmutablePayload(a) ==
    /\ a.dirs = "x"
    /\ {"helper", "manifest"} \subseteq Here(a)
    /\ \A f \in Here(a) : Regular(a, f) /\ a.file[f].mode \in {"r", "x"}
    /\ Exec(a.file["helper"].mode)

CredentialHelperTrust(a) ==
    /\ a.file["manifest"].src = "built" /\ a.manifest.schema \in {1, 2}
    /\ "helper" \in DOMAIN a.manifest.files
    /\ a.manifest.schema = 2 =>
           "helper" \in a.manifest.code /\ a.manifest.files["helper"].mode = "x"

-----------------------------------------------------------------------------
NewFile(f) ==
    [src |-> "built", sig |-> IF f \in ClassifiedCode THEN "adhoc" ELSE "none",
     mode |-> IF f \in Executables THEN "x" ELSE "r"]

\* Copy plan, normalizeFile, schema 1 manifest, normalizeDirectories.
Assembled ==
    LET g(f) == IF f \in {"launcher", "helper", "native", "page"} THEN NewFile(f) ELSE Absent
        copied == [file |-> EachFile(g),
                   dirs |-> "x", manifest |-> NoManifest, seal |-> [files |-> <<>>, manifest |-> NoManifest]]
    IN  [copied EXCEPT !.manifest = ManifestV1(copied),
                       !.file["manifest"] = NewFile("manifest")]

Init ==
    /\ app = Assembled /\ place = "build" /\ released = Assembled
    /\ run = "idle" /\ refused = FALSE /\ disturbs = 0

\* A step that verifies before it hands the tree on.
Hands(ok, tree, to) ==
    /\ run = "idle" /\ ~refused
    /\ refused' = ~ok
    /\ app' = IF ok THEN tree ELSE app
    /\ released' = IF ok THEN tree ELSE released
    /\ place' = IF ok THEN to ELSE place
    /\ UNCHANGED <<run, disturbs>>

Assemble == place = "build" /\ Hands(VerifyUnsignedApp(app), app, "unsigned")

\* signUnsignedApp on its private copy: nested code, then manifest, then the
\* bundle, and the whole verified.
Sign ==
    LET nested == SignNested(MakeNestedCodeWritable(MakeWritable(app)), "team")
        workspace == MakeSigningWorkspace(MakeImmutable(nested))
        described == [workspace EXCEPT !.manifest = ManifestV2(workspace)]
        signed == MakeImmutable(SignOuter(described, "team"))
    IN  /\ place = "unsigned"
        /\ Hands(/\ VerifyUnsignedApp(app) /\ ClassifyPayload(MakeWritable(app))
                 /\ ValidateSignedManifest(described.manifest)
                 /\ VerifySignedApp(signed, FALSE),
                 signed, "signed")

\* stapler writes the ticket into directories opened for it.
Staple(a) ==
    [a EXCEPT !.file["ticket"] = [src |-> "built", sig |-> "none", mode |-> "r"], !.dirs = "x"]

Notarize ==
    /\ place = "signed"
    /\ Hands(VerifySignedApp(app, FALSE) /\ VerifySignedApp(Staple(app), TRUE), Staple(app), "stapled")

\* source_inventory and checked_infos: the modes an archive may hold.
SourceInventory(a) ==
    /\ a.dirs = "x"
    /\ \A f \in Here(a) : Regular(a, f) /\ a.file[f].mode \in {"r", "x"}

Archive == place = "stapled" /\ Hands(SourceInventory(app), app, "zip")

\* extract, then the verifier once more.
Extract == place = "zip" /\ Hands(VerifySignedApp(app, TRUE), app, "installed")

AtRest == place \in {"unsigned", "signed", "installed"} /\ run = "idle" /\ ~refused

\* LauncherPreflight.validate.
Launch ==
    /\ AtRest
    /\ run' = IF LauncherAccepts(app) THEN "started" ELSE "idle"
    /\ refused' = ~LauncherAccepts(app)
    /\ UNCHANGED <<app, place, disturbs, released>>

\* verifyPackagedRuntimeAssets and credentialHelperTrust.
Serve ==
    LET ok == ImmutablePayload(app) /\ CredentialHelperTrust(app)
    IN  /\ run = "started"
        /\ run' = IF ok THEN "running" ELSE "idle"
        /\ refused' = ~ok
        /\ UNCHANGED <<app, place, disturbs, released>>

Quit == run = "running" /\ run' = "idle" /\ UNCHANGED <<app, place, refused, disturbs, released>>

-----------------------------------------------------------------------------
(* Changes at rest.  A launcher of other content is another program. *)

Disturbed(tree) ==
    /\ AtRest /\ disturbs < MaxDisturbs
    /\ disturbs' = disturbs + 1
    /\ tree # app
    /\ app' = tree
    /\ UNCHANGED <<place, run, refused, released>>

ChangeMode(f, mode) == f \in Here(app) /\ Disturbed([app EXCEPT !.file[f].mode = mode])

\* A file is replaced, added, or exchanged for a link.
Replace(f, src) ==
    /\ f # "launcher"
    /\ Disturbed([app EXCEPT !.file[f] =
           [src |-> src, sig |-> IF src = "macho" THEN "adhoc" ELSE "none",
            mode |-> IF f \in Here(app) THEN @.mode ELSE "r"]])

Remove(f) == f \in Here(app) \ {"launcher"} /\ Disturbed([app EXCEPT !.file[f] = Absent])

OpenDirectories == Disturbed([app EXCEPT !.dirs = "w"])

\* The bundle is signed again, ad hoc or by somebody else.
Resign(who) == Disturbed([SignOuter(app, who) EXCEPT !.file["seal"].mode = "r"])

\* The schema 1 manifest of the unsigned app is put back.
OldManifest == Disturbed([app EXCEPT !.manifest = Assembled.manifest])

Next ==
    \/ Assemble \/ Sign \/ Notarize \/ Archive \/ Extract
    \/ Launch \/ Serve \/ Quit
    \/ \E f \in Files :
          \/ \E mode \in Modes : ChangeMode(f, mode)
          \/ \E src \in {"text", "macho", "link"} : Replace(f, src)
          \/ Remove(f)
    \/ OpenDirectories
    \/ \E who \in {"adhoc", "other"} : Resign(who)
    \/ OldManifest

Spec == Init /\ [][Next]_vars

-----------------------------------------------------------------------------
(* Properties. *)

\* Types; an archive holds nothing writable, although the release verifiers
\* never look at the manifest's own mode (deterministic_app_zip.py:105).
TypeOK ==
    /\ \A f \in Files :
           /\ app.file[f].src \in {"none", "built", "text", "macho", "link"}
           /\ app.file[f].sig \in {"none", "adhoc", "team", "other"}
           /\ app.file[f].mode \in Modes \cup {"none"}
    /\ app.dirs \in {"x", "w"} /\ app.manifest.schema \in {1, 2}
    /\ place \in {"build", "unsigned", "signed", "stapled", "zip", "installed"}
    /\ run \in {"idle", "started", "running"} /\ refused \in BOOLEAN
    /\ disturbs \in 0..MaxDisturbs
    /\ place = "zip" => app.dirs = "x" /\ \A f \in Here(app) : app.file[f].mode \in {"r", "x"}

\* What nobody touched passes every verifier: the modes that assembly,
\* signing, stapling and extraction leave are the ones the next step, the
\* launcher and the server demand (makeNestedCodeWritable, makeImmutable).
UntouchedIsAccepted == refused => disturbs > 0

\* A signed app runs only exactly as released, contents, signatures and
\* modes, whatever was changed at rest since; only the ticket may be missing
\* (LauncherPreflight.validatePayload).
RunsWhatWasReleased ==
    run = "running" /\ app.manifest.schema = 2 =>
        /\ app.dirs = released.dirs /\ app.manifest = released.manifest
        /\ \A f \in Files \ {"ticket"} : app.file[f] = released.file[f]

\* The launcher's own signature decides how strictly the payload is judged:
\* no Developer ID launcher runs the unsigned schema, and no re-signed one
\* the signed schema ("A Developer ID launcher may never fall back to the
\* separately supported unsigned-v1 path", main.swift:208).
SchemaFollowsSignature ==
    run # "idle" => (app.manifest.schema = 2 <=> app.file["launcher"].sig = "team")

\* The launcher is at least as strict as the verifier that released the app:
\* what it starts as a signed app, verifySignedApp would still pass.
LauncherIsAsStrict ==
    place = "installed" /\ LauncherAccepts(app) /\ app.manifest.schema = 2 =>
        VerifySignedApp(app, "ticket" \in Here(app))
=============================================================================
