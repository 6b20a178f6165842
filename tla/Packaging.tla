----------------------------- MODULE Packaging -----------------------------
(***************************************************************************)
(* packaging/: the manifest of a package directory is parsed, compiled and *)
(* validated, Pack writes an archive and then a manifest with the hash of  *)
(* the archive, and LoadArchive reads the manifest and then the archive.   *)
(* Authors edit the directory meanwhile, several Packs write to one output *)
(* directory, and each may stop at any point.                              *)
(*                                                                         *)
(* A package here has one tool.  A hash is the archive it is the hash of.  *)
(***************************************************************************)
EXTENDS Naturals, Sequences, FiniteSets

CONSTANTS
  Packers,    \* runs of Pack into one output directory
  Sources,    \* what the directory may hold: [entry, effect, mode, tag]
  BadNames,   \* the segments of names that are not in kebab case
  NoEffect,   \* no effect in the manifest, or no tag in the source
  MaxEdits,   \* bound on the edits of the directory
  MaxPacks    \* bound on the Packs that start

VARIABLES
  src,        \* the package directory
  out,        \* the output directory: [archive, manifest]
  packer,     \* of each packer: [at, dev, pkg, archive]
  loader,     \* [at, external, result]
  edits, packs,
  steady,     \* ghost: the packers during whose reads nobody has edited
  made,       \* ghost: what Packs have built: [pkg, archive, steady]
  alone,      \* ghost: the packers that have been alone with the output since they
              \* began to write
  quiet,      \* ghost: the last Pack to write was alone and finished
  undisturbed \* ghost: so it has been for all reads of the loader

ghosts == <<steady, made, alone, quiet, undisturbed>>
vars == <<src, out, packer, loader, edits, packs, ghosts>>

Effects == {"readOnly", "reversible", "irreversible"}
Torn == [whole |-> FALSE]
Idle == [at |-> "idle"]
Writing == {"archive", "archived", "manifest"}

-----------------------------------------------------------------------------
\* packaging/internal/manifest

inferVerb(entry) == entry[Len(entry)]

InferEffect(entry) ==
  LET verb == inferVerb(entry)
  IN IF verb \in {"list", "get", "read", "fetch", "search", "find", "describe"} THEN "readOnly"
     ELSE IF verb \in {"create", "add", "clone", "new"} THEN "reversible" ELSE "irreversible"

isCollectionMethod(verb) ==
  verb \in {"list", "create", "add", "append", "search", "find", "new", "send", "post"}

\* The resources whose ids are parameters: all but the verb, and for a collection all
\* but the deepest.
InferResourceParamsWithMode(entry, mode) ==
  LET collection == CASE mode = "collection" -> TRUE
                      [] mode = "member" -> FALSE
                      [] OTHER -> isCollectionMethod(inferVerb(entry))
      count == Len(entry) - 1 - (IF collection THEN 1 ELSE 0)
  IN IF Len(entry) < 3 \/ count <= 0 THEN <<>> ELSE SubSeq(entry, 1, count)

validateEntryName(entry) == \A i \in 1 .. Len(entry) : entry[i] \notin BadNames

\* The schema has no property "resource", and names three effects.
ParseDev(s) ==
  /\ s.mode = ""
  /\ s.effect \in Effects \cup {NoEffect}
  /\ validateEntryName(s.entry)

Compile(s) ==
  [entry |-> s.entry,
   effect |-> IF s.effect = NoEffect THEN InferEffect(s.entry) ELSE s.effect,
   resourceParams |-> InferResourceParamsWithMode(s.entry, s.mode)]

\* Mutant of ValidateCompiled: the schema takes any effect.
ValidateCompiledAny(pkg) == pkg.resourceParams = <<>>

\* Nor has it resourceParams, which are left out of the JSON when there are none.
ValidateCompiled(pkg) == pkg.effect \in Effects /\ pkg.resourceParams = <<>>

-----------------------------------------------------------------------------
\* packaging/internal/source

\* The tag @effect of the source overrides the manifest; a source that cannot be read
\* has none.
EnrichToolMetadata(pkg, tag) == IF tag = NoEffect THEN pkg ELSE [pkg EXCEPT !.effect = tag]

\* What reading the entry of a package finds in the directory now.
TagOf(entry) == IF src.entry = entry THEN src.tag ELSE NoEffect

-----------------------------------------------------------------------------

Init ==
  /\ src \in Sources
  /\ out = [archive |-> Torn, manifest |-> Torn]
  /\ packer = [p \in Packers |-> Idle]
  /\ loader = Idle
  /\ edits = 0 /\ packs = 0
  /\ steady = {} /\ made = {} /\ alone = {} /\ quiet = FALSE /\ undisturbed = FALSE

\* The author saves a change of the manifest and the sources.
Edit(s) ==
  /\ edits < MaxEdits /\ s # src
  /\ src' = s
  /\ edits' = edits + 1
  /\ steady' = {}
  /\ UNCHANGED <<out, packer, loader, packs, made, alone, quiet, undisturbed>>

\* LoadDirWithMode up to the sources: the manifest alone is read.
ReadDev(p) ==
  /\ packer[p].at = "idle" /\ packs < MaxPacks
  /\ packs' = packs + 1
  /\ packer' = [packer EXCEPT ![p] =
       IF ParseDev(src) THEN [at |-> "parsed", dev |-> src] ELSE [at |-> "refused", dev |-> src]]
  /\ steady' = steady \cup {p}
  /\ UNCHANGED <<src, out, loader, edits, made, alone, quiet, undisturbed>>

\* Mutant of LoadDir: the package is validated before its sources are read.
LoadDirEarly(p) ==
  /\ packer[p].at = "parsed"
  /\ LET pkg == EnrichToolMetadata(Compile(packer[p].dev), TagOf(packer[p].dev.entry))
     IN packer' = [packer EXCEPT ![p] =
          IF ValidateCompiled(Compile(@.dev))
          THEN [at |-> "loaded", dev |-> @.dev, pkg |-> pkg] ELSE [at |-> "refused", dev |-> @.dev]]
  /\ UNCHANGED <<src, out, loader, edits, packs, ghosts>>

\* The rest of it, for distribution.
LoadDir(p) ==
  /\ packer[p].at = "parsed"
  /\ LET pkg == EnrichToolMetadata(Compile(packer[p].dev), TagOf(packer[p].dev.entry))
     IN packer' = [packer EXCEPT ![p] =
          IF ValidateCompiled(pkg)
          THEN [at |-> "loaded", dev |-> @.dev, pkg |-> pkg] ELSE [at |-> "refused", dev |-> @.dev]]
  /\ UNCHANGED <<src, out, loader, edits, packs, ghosts>>

\* archive.Pack: the archive in memory, from the sources as they are now.
Build(p) ==
  /\ packer[p].at = "loaded"
  /\ LET archive == [whole |-> TRUE, pkg |-> packer[p].pkg, tag |-> TagOf(packer[p].pkg.entry)]
     IN /\ packer' = [packer EXCEPT ![p] =
                        [at |-> "built", dev |-> @.dev, pkg |-> @.pkg, archive |-> archive]]
        /\ made' = made \cup {[pkg |-> packer[p].pkg, archive |-> archive, steady |-> p \in steady]}
  /\ UNCHANGED <<src, out, loader, edits, packs, steady, alone, quiet, undisturbed>>

\* os.WriteFile empties the file and then fills it; of what others have written in
\* between something may be left at its end.
Others(p) == {q \in Packers \ {p} : packer[q].at \in Writing}

Truncate(p, from, file) ==
  /\ packer[p].at = from
  /\ packer' = [packer EXCEPT ![p].at = file]
  /\ out' = [out EXCEPT ![file] = Torn]
  /\ quiet' = FALSE /\ undisturbed' = FALSE
  /\ UNCHANGED <<src, loader, edits, packs, steady, made>>

Fill(p, file, data, to) ==
  /\ packer[p].at = file
  /\ \E d \in {data} \cup (IF p \in alone THEN {} ELSE {Torn}) : out' = [out EXCEPT ![file] = d]
  /\ packer' = [packer EXCEPT ![p] = to]
  /\ undisturbed' = FALSE
  /\ UNCHANGED <<src, loader, edits, packs, steady, made, alone>>

TruncateArchive(p) ==
  /\ Truncate(p, "built", "archive")
  /\ alone' = IF Others(p) = {} THEN {p} ELSE {}

WriteArchive(p) ==
  /\ Fill(p, "archive", packer[p].archive, [packer[p] EXCEPT !.at = "archived"])
  /\ UNCHANGED quiet

TruncateManifest(p) ==
  /\ Truncate(p, "archived", "manifest")
  /\ UNCHANGED alone

WriteManifest(p) ==
  /\ Fill(p, "manifest", [whole |-> TRUE, pkg |-> packer[p].pkg, sha256 |-> packer[p].archive], Idle)
  /\ quiet' = (p \in alone)

\* The process ends: it was refused, a write failed, or it was killed.
Stop(p) ==
  /\ packer[p].at # "idle"
  /\ packer' = [packer EXCEPT ![p] = Idle]
  /\ UNCHANGED <<src, out, loader, edits, packs, ghosts>>

-----------------------------------------------------------------------------
\* LoadArchive

ReadManifest ==
  /\ loader.at \in {"idle", "done"}
  /\ loader' = IF out.manifest.whole THEN [at |-> "manifest", external |-> out.manifest] ELSE [at |-> "done", ok |-> FALSE]
  /\ undisturbed' = quiet
  /\ UNCHANGED <<src, out, packer, edits, packs, steady, made, alone, quiet>>

\* Mutant of Verified: any whole archive will do.
VerifiedWhole(external, archive) ==
  archive.whole /\ ValidateCompiled(external.pkg)

\* The hash is compared, then the manifests; the external one is validated.
Verified(external, archive) ==
  archive.whole /\ external.sha256 = archive /\ external.pkg = archive.pkg /\ ValidateCompiled(external.pkg)

\* The sources in the archive are read again for their tags.
ReadArchive ==
  /\ loader.at = "manifest"
  /\ loader' = IF Verified(loader.external, out.archive)
               THEN [at |-> "done", ok |-> TRUE, external |-> loader.external, files |-> out.archive,
                     pkg |-> EnrichToolMetadata(loader.external.pkg, out.archive.tag)]
               ELSE [at |-> "done", ok |-> FALSE]
  /\ UNCHANGED <<src, out, packer, edits, packs, ghosts>>

Next ==
  \/ \E s \in Sources : Edit(s)
  \/ \E p \in Packers :
       \/ ReadDev(p) \/ LoadDir(p) \/ Build(p)
       \/ TruncateArchive(p) \/ WriteArchive(p) \/ TruncateManifest(p) \/ WriteManifest(p) \/ Stop(p)
  \/ ReadManifest \/ ReadArchive

Spec == Init /\ [][Next]_vars

-----------------------------------------------------------------------------
\* Properties

Loaded == loader.at = "done" /\ loader.ok

\* What is loaded, the manifest and the archive, was built by one Pack, whatever Packs
\* write to the directory between the two reads and wherever they stop ("verifies the
\* sha256 from the external manifest").
LoadedFromOnePack ==
  Loaded => \E m \in made : m.pkg = loader.external.pkg /\ m.archive = loader.files

\* A package that was packed without an edit in between has a known effect once it
\* is loaded, whatever its sources' tags say: Pack refuses an unknown one.
LoadedEffectKnown == (Loaded /\ \A m \in made : m.archive = loader.files => m.steady) => loader.pkg.effect \in Effects

\* The output of a Pack that wrote alone can be loaded, whatever earlier Packs left
\* there when they stopped.
QuietOutputLoads == loader.at = "done" /\ undisturbed => loader.ok

\* Pack refuses a package only for its effect or its names: a tool on a resource
\* ("Convention: users.calendars.events.list.ts -> user_id, calendar_id") is as good
\* as any.
ResourceToolsLoad ==
  \A p \in Packers :
    packer[p].at = "refused" /\ p \in steady =>
      \/ ~validateEntryName(packer[p].dev.entry)
      \/ EnrichToolMetadata(Compile(packer[p].dev), TagOf(packer[p].dev.entry)).effect \notin Effects

=============================================================================
