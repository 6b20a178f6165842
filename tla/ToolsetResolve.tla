--------------------------- MODULE ToolsetResolve ---------------------------
(***************************************************************************)
(* `toolbox resolve` (cmd/toolbox/main.go runResolve, toolsetfile          *)
(* ToolsetFile.Resolve, registry Resolver.ResolveWithExpected) run by      *)
(* several processes over one package cache.  Every process works on one   *)
(* toolset file and its sibling lockfile; the package sources change under *)
(* it, and a run can stop at any step (a crash, or an I/O or network       *)
(* error), leaving what it has written on disk.                            *)
(***************************************************************************)
EXTENDS PackageCache, Naturals, FiniteSets

CONSTANTS
  Procs,       \* processes that run `toolbox resolve`
  Toolsets,    \* toolset files, each with its lockfile and local overlay
  File,        \* the toolset file each process works on
  Modules,     \* module paths; their order is the order of the numbers
  Versions,    \* versions; the version order is the order of the numbers
  Commits,     \* git commits
  Build,       \* the archive packaging.Pack makes of each commit
  Toolsets0, Locks0, Overlays0, Releases0, Tags0, Caches0,  \* the initial files
  Upgrades,    \* what --upgrade may name: modules, or None for a plain resolve
  MaxFaults,   \* bound: runs that are cut short
  MaxEdits     \* bound: changes to releases, tags and overlays

Pkgs == Modules \X Versions

Origins == {"github-release", "git-source"}

\* ToolsetLockEntry; resolved_at is set with resolved_from and is left out.
LockEntry == [archive : Archives, git : Commits, from : Origins]

\* ResolveMetadata.  A cache hit without a lock entry knows only the hash.
Metadata == LockEntry \cup [archive : Contents, git : {None}, from : {None}]

Packages == [Modules -> Versions]

Lock == [Pkgs -> Metadata \cup {None}]

NoLock == [k \in Pkgs |-> None]

\* A GitHub release with the assets uploaded so far.
Release == [archive : Archives \cup {None}, manifest : Archives \cup {None}]

ASSUME ResolveAssumption ==
  /\ File \in [Procs -> Toolsets]
  /\ Modules \subseteq Nat /\ Versions \subseteq Nat
  /\ None \notin Modules /\ None \notin Commits /\ None \notin Metadata
  /\ None \notin Release /\ None \notin Origins
  /\ Build \in [Commits -> Archives]
  /\ Toolsets0 \subseteq [Toolsets -> Packages]
  /\ Locks0 \subseteq [Toolsets -> [Pkgs -> LockEntry \cup {None}]]
  /\ Overlays0 \subseteq [Toolsets -> SUBSET Modules]
  /\ Releases0 \subseteq [Pkgs -> Release \cup {None}]
  /\ Tags0 \subseteq [Pkgs -> Commits \cup {None}]
  /\ Caches0 \subseteq [Pkgs -> Entry]
  /\ Upgrades \subseteq Modules \cup {None}
  /\ MaxFaults \in Nat /\ MaxEdits \in Nat

VARIABLES
  toolset,  \* toolset file contents: the version each module is declared at
  lock,     \* lockfile contents (no file and an empty file resolve alike)
  overlay,  \* modules the *.toolset.local.json overlay replaces
  release,  \* the GitHub release of each package
  tag,      \* the commit each package's git tag points at
  cache,    \* the shared on-disk cache
  run,      \* what each process holds in memory
  served,   \* history: metadata the sources returned, and what Init pinned
  faults,   \* runs cut short so far
  edits     \* upstream and overlay changes so far

vars == <<toolset, lock, overlay, release, tag, cache, run, served, faults, edits>>

disk == <<toolset, lock, cache>>

upstream == <<release, tag, overlay, edits>>

PCs == {"idle", "upgrade", "lock", "next", "release", "tag", "clone", "open archive",
        "write archive", "open manifest", "write manifest", "write info",
        "read manifest", "read archive", "done", "failed"}

\* One run of the command.  mod, hit, meta and mani describe the package being
\* resolved; loaded is what the builder holds so far.
Run == [pc : PCs, view : Packages, base : Lock, upd : Lock, replaced : SUBSET Modules,
        todo : SUBSET Modules, mod : Modules \cup {None}, hit : BOOLEAN,
        meta : Metadata \cup {None}, mani : Contents \cup {None},
        loaded : [Modules -> Archives \cup {None}],
        why : {"", "fault", "source", "mismatch", "hit load", "load", "lock"}]

Ended == {"idle", "done", "failed"}

Fresh(packages) ==
  [pc |-> "idle", view |-> packages, base |-> NoLock, upd |-> NoLock, replaced |-> {},
   todo |-> {}, mod |-> None, hit |-> FALSE, meta |-> None, mani |-> None,
   loaded |-> [m \in Modules |-> None], why |-> ""]

\* The package key <module>@<version> that process p is resolving.
Key(p) == <<run[p].mod, run[p].view[run[p].mod]>>

Expected(p) == run[p].base[Key(p)]

\* ResolveMetadata.Validate and ToolsetLockEntry.validate.
Valid(e) == e.git # None /\ e.from # None

Become(p, r) == run' = [run EXCEPT ![p] = r]

\* An error return: the command ends and its memory is gone.
Fail(p, reason) == Become(p, [Fresh(run[p].view) EXCEPT !.pc = "failed", !.why = reason])

-----------------------------------------------------------------------------

Init ==
  /\ toolset \in Toolsets0
  /\ lock \in Locks0
  /\ overlay \in Overlays0
  /\ release \in Releases0
  /\ tag \in Tags0
  /\ cache \in Caches0
  /\ run = [p \in Procs |-> Fresh(toolset[File[p]])]
  /\ served = {<<k, lock[t][k]>> : k \in Pkgs, t \in Toolsets}
  /\ faults = 0
  /\ edits = 0

\* runResolve up to toolsetfile.Load.
Start(p) ==
  /\ run[p].pc \in Ended
  /\ \E up \in Upgrades :
       Become(p, [Fresh(toolset[File[p]]) EXCEPT
                    !.pc = IF up = None THEN "lock" ELSE "upgrade", !.mod = up])
  /\ UNCHANGED <<disk, upstream, served, faults>>

\* Resolver.ListVersions merges what the sources list; a source that fails is
\* left out as long as another one answers.
Listed(m) ==
  LET Releases == {v \in Versions : release[<<m, v>>] # None}
      Tagged   == {v \in Versions : tag[<<m, v>>] # None}
  IN  {Releases, Tagged, Releases \cup Tagged}

\* SetPackageVersion on the toolset file as it was loaded.
Upgraded(p, v) == [run[p].view EXCEPT ![run[p].mod] = v]

\* Mutant of UpgradeTo: the new version is resolved and never saved.
UpgradeToUnsaved(p, latest) ==
  /\ UNCHANGED toolset
  /\ Become(p, [run[p] EXCEPT !.pc = "lock", !.mod = None, !.view = Upgraded(p, latest)])

UpgradeTo(p, latest) ==
  /\ toolset' = IF latest = run[p].view[run[p].mod]
                  THEN toolset
                  ELSE [toolset EXCEPT ![File[p]] = Upgraded(p, latest)]
  /\ Become(p, [run[p] EXCEPT !.pc = "lock", !.mod = None, !.view = Upgraded(p, latest)])

\* The --upgrade branch of runResolve: the toolset file is rewritten (temp file
\* and rename) before anything is resolved.
Upgrade(p) ==
  /\ run[p].pc = "upgrade"
  /\ \E listed \in Listed(run[p].mod) :
       \/ /\ listed = {}
          /\ Fail(p, "source")
          /\ UNCHANGED toolset
       \/ \E latest \in listed :
            /\ \A v \in listed : v <= latest
            /\ UpgradeTo(p, latest)
  /\ UNCHANGED <<lock, cache, upstream, served, faults>>

\* ToolsetFile.Resolve reads the lockfile and the overlay, and copies the lock.
LoadLock(p) ==
  /\ run[p].pc = "lock"
  /\ Become(p, [run[p] EXCEPT !.pc = "next", !.base = lock[File[p]], !.upd = lock[File[p]],
                              !.replaced = overlay[File[p]], !.todo = Modules])
  /\ UNCHANGED <<disk, upstream, served, faults>>

\* The packages are taken in sorted module order.
IsNext(p, m) == m \in run[p].todo /\ \A n \in run[p].todo : m <= n

\* Mutant of AddFromDir: the lock entry of a replaced module is dropped.
AddFromDirUnlocking(p) ==
  /\ run[p].pc = "next"
  /\ \E m \in run[p].replaced :
       /\ IsNext(p, m)
       /\ Become(p, [run[p] EXCEPT !.todo = @ \ {m}, !.upd[<<m, run[p].view[m]>>] = None])
  /\ UNCHANGED <<disk, upstream, served, faults>>

\* A replaced module is loaded from its directory and gets no lock entry.
AddFromDir(p) ==
  /\ run[p].pc = "next"
  /\ \E m \in run[p].replaced :
       /\ IsNext(p, m)
       /\ Become(p, [run[p] EXCEPT !.todo = @ \ {m}])
  /\ UNCHANGED <<disk, upstream, served, faults>>

\* Mutant of Hit: whatever the cache has will do.
HitUnverified(k, expected) == Has(cache[k])

\* The cache has the package and, if a lock entry is there, the locked bytes.
Hit(k, expected) ==
  Has(cache[k]) /\ (expected = None \/ cache[k].archive = expected.archive)

\* Mutant of KnownMetadata: a hit without a lock entry makes up the provenance.
KnownMetadataForged(k, expected) ==
  IF expected = None
    THEN [archive |-> cache[k].archive, git |-> tag[k], from |-> "github-release"]
    ELSE expected

\* The metadata that a cache hit returns.
KnownMetadata(k, expected) ==
  IF expected = None
    THEN [archive |-> cache[k].archive, git |-> None, from |-> None]
    ELSE expected

\* ResolveWithExpected up to the decision between the cache and the sources.
CheckPackage(p, m, k) ==
  IF Hit(k, run[p].base[k])
    THEN Become(p, [run[p] EXCEPT !.pc = "read manifest", !.mod = m, !.hit = TRUE,
                                  !.meta = KnownMetadata(k, run[p].base[k])])
    ELSE Become(p, [run[p] EXCEPT !.pc = "release", !.mod = m])

CheckCache(p) ==
  /\ run[p].pc = "next"
  /\ \E m \in run[p].todo \ run[p].replaced :
       /\ IsNext(p, m)
       /\ CheckPackage(p, m, <<m, run[p].view[m]>>)
  /\ UNCHANGED <<disk, upstream, served, faults>>

\* Mutant of Fetched: a refetch is not compared with the lock.
FetchedUnverified(p, archive, manifest, git, from) ==
  LET meta == [archive |-> archive, git |-> git, from |-> from]
  IN  /\ served' = served \cup {<<Key(p), meta>>}
      /\ Become(p, [run[p] EXCEPT !.pc = "open archive", !.meta = meta, !.mani = manifest])

\* What ResolveWithExpected does with a fetch result: the archive hash must be
\* the expected one; the commit is recorded and not compared.
Fetched(p, archive, manifest, git, from) ==
  LET meta == [archive |-> archive, git |-> git, from |-> from]
  IN  /\ served' = served \cup {<<Key(p), meta>>}
      /\ IF Expected(p) = None \/ archive = Expected(p).archive
           THEN Become(p, [run[p] EXCEPT !.pc = "open archive", !.meta = meta, !.mani = manifest])
           ELSE Fail(p, "mismatch")

\* GitHubReleaseSource.Fetch looks the release up.  Only a missing release
\* sends the resolver on to the git source.
FetchRelease(p) ==
  /\ run[p].pc = "release"
  /\ LET r == release[Key(p)]
     IN  \/ /\ r = None
            /\ Become(p, [run[p] EXCEPT !.pc = "clone"])
         \/ /\ r # None
            /\ r.archive = None \/ r.manifest = None
            /\ Fail(p, "source")
         \/ /\ r # None
            /\ r.archive # None /\ r.manifest # None
            /\ Become(p, [run[p] EXCEPT
                            !.pc = "tag", !.mani = r.manifest,
                            !.meta = [archive |-> r.archive, git |-> None, from |-> None]])
  /\ UNCHANGED <<disk, upstream, served, faults>>

\* It then asks for the tag's commit, a separate request, and downloads the two
\* assets of the release it looked up; an asset that is gone by then is an
\* error (Abort).
FetchTag(p) ==
  /\ run[p].pc = "tag"
  /\ LET c == tag[Key(p)]
     IN  IF c = None
           THEN Fail(p, "source") /\ UNCHANGED served
           ELSE Fetched(p, run[p].meta.archive, run[p].mani, c, "github-release")
  /\ UNCHANGED <<disk, upstream, faults>>

\* GitSourceFallback.Fetch clones the tag and packs the checkout.
Clone(p) ==
  /\ run[p].pc = "clone"
  /\ LET c == tag[Key(p)]
     IN  IF c = None
           THEN Fail(p, "source") /\ UNCHANGED served
           ELSE Fetched(p, Build[c], Build[c], c, "git-source")
  /\ UNCHANGED <<disk, upstream, faults>>

-----------------------------------------------------------------------------
\* Cache.Put: three os.WriteFile calls in this order, none of them atomic.

\* Mutant of OpenArchive: the info file is created before the other two.
OpenArchiveInfoFirst(p) ==
  /\ run[p].pc = "open archive"
  /\ cache' = [cache EXCEPT ![Key(p)].archive = Empty, ![Key(p)].info = TRUE]
  /\ Become(p, [run[p] EXCEPT !.pc = "write archive"])
  /\ UNCHANGED <<toolset, lock, upstream, served, faults>>

OpenArchive(p) ==
  /\ run[p].pc = "open archive"
  /\ cache' = [cache EXCEPT ![Key(p)].archive = Empty]
  /\ Become(p, [run[p] EXCEPT !.pc = "write archive"])
  /\ UNCHANGED <<toolset, lock, upstream, served, faults>>

WriteArchive(p) ==
  /\ run[p].pc = "write archive"
  /\ \E c \in Overwrite(cache[Key(p)].archive, run[p].meta.archive) :
       cache' = [cache EXCEPT ![Key(p)].archive = c]
  /\ Become(p, [run[p] EXCEPT !.pc = "open manifest"])
  /\ UNCHANGED <<toolset, lock, upstream, served, faults>>

OpenManifest(p) ==
  /\ run[p].pc = "open manifest"
  /\ cache' = [cache EXCEPT ![Key(p)].manifest = Empty]
  /\ Become(p, [run[p] EXCEPT !.pc = "write manifest"])
  /\ UNCHANGED <<toolset, lock, upstream, served, faults>>

WriteManifest(p) ==
  /\ run[p].pc = "write manifest"
  /\ \E c \in Overwrite(cache[Key(p)].manifest, run[p].mani) :
       cache' = [cache EXCEPT ![Key(p)].manifest = c]
  /\ Become(p, [run[p] EXCEPT !.pc = "write info"])
  /\ UNCHANGED <<toolset, lock, upstream, served, faults>>

\* Mutant of WriteInfo: the info file is forgotten.
WriteInfoSkipped(p) ==
  /\ run[p].pc = "write info"
  /\ Become(p, [run[p] EXCEPT !.pc = "read manifest", !.mani = None])
  /\ UNCHANGED <<disk, upstream, served, faults>>

\* Only the existence of the info file is ever looked at.
WriteInfo(p) ==
  /\ run[p].pc = "write info"
  /\ cache' = [cache EXCEPT ![Key(p)].info = TRUE]
  /\ Become(p, [run[p] EXCEPT !.pc = "read manifest", !.mani = None])
  /\ UNCHANGED <<toolset, lock, upstream, served, faults>>

-----------------------------------------------------------------------------
\* Cache.LoadArchive reads the manifest, then the archive.

ReadManifest(p) ==
  /\ run[p].pc = "read manifest"
  /\ Become(p, [run[p] EXCEPT !.pc = "read archive", !.mani = cache[Key(p)].manifest])
  /\ UNCHANGED <<disk, upstream, served, faults>>

\* The package goes to the builder and its metadata to the updated lock.
ReadArchive(p) ==
  /\ run[p].pc = "read archive"
  /\ LET a == cache[Key(p)].archive
     IN  IF Intact(run[p].mani, a)
           THEN Become(p, [run[p] EXCEPT
                             !.pc = "next", !.todo = @ \ {run[p].mod},
                             !.loaded[run[p].mod] = a, !.upd[Key(p)] = run[p].meta,
                             !.mod = None, !.hit = FALSE, !.meta = None, !.mani = None])
           ELSE Fail(p, IF run[p].hit THEN "hit load" ELSE "load")
  /\ UNCHANGED <<disk, upstream, served, faults>>

-----------------------------------------------------------------------------

\* ToolsetLockFile.Write: every entry must validate, then the file is replaced
\* by a rename.  The builder's Resolve that follows has no bindings to compile
\* and cannot fail.
Commit(p) ==
  /\ run[p].pc = "next"
  /\ run[p].todo = {}
  /\ IF \A k \in Pkgs : run[p].upd[k] # None => Valid(run[p].upd[k])
       THEN /\ lock' = [lock EXCEPT ![File[p]] = run[p].upd]
            /\ Become(p, [run[p] EXCEPT !.pc = "done"])
       ELSE /\ Fail(p, "lock")
            /\ UNCHANGED lock
  /\ UNCHANGED <<toolset, cache, upstream, served, faults>>

\* A crash, a kill, or an I/O or network error ends the run where it stands.
Abort(p) ==
  /\ run[p].pc \notin Ended
  /\ faults < MaxFaults
  /\ faults' = faults + 1
  /\ Fail(p, "fault")
  /\ UNCHANGED <<disk, upstream, served>>

\* The rest of the world: a maintainer replaces or deletes a release or moves a
\* tag, a developer edits the overlay.
EditRelease(k) ==
  /\ edits < MaxEdits
  /\ edits' = edits + 1
  /\ \E r \in Release \cup {None} : release' = [release EXCEPT ![k] = r]
  /\ UNCHANGED <<disk, overlay, tag, run, served, faults>>

MoveTag(k) ==
  /\ edits < MaxEdits
  /\ edits' = edits + 1
  /\ \E c \in Commits \cup {None} : tag' = [tag EXCEPT ![k] = c]
  /\ UNCHANGED <<disk, overlay, release, run, served, faults>>

EditOverlay(t) ==
  /\ edits < MaxEdits
  /\ edits' = edits + 1
  /\ \E ms \in SUBSET Modules : overlay' = [overlay EXCEPT ![t] = ms]
  /\ UNCHANGED <<disk, release, tag, run, served, faults>>

Fetch(p) == FetchRelease(p) \/ FetchTag(p) \/ Clone(p)

Put(p) == \/ OpenArchive(p) \/ WriteArchive(p) \/ OpenManifest(p) \/ WriteManifest(p)
          \/ WriteInfo(p)

Load(p) == ReadManifest(p) \/ ReadArchive(p)

\* A step of a run that is under way.
Step(p) == \/ Upgrade(p) \/ LoadLock(p) \/ AddFromDir(p) \/ CheckCache(p)
           \/ Fetch(p) \/ Put(p) \/ Load(p) \/ Commit(p)

World == \/ \E k \in Pkgs : EditRelease(k) \/ MoveTag(k)
         \/ \E t \in Toolsets : EditOverlay(t)

Next == \/ \E p \in Procs : Start(p) \/ Step(p) \/ Abort(p)
        \/ World

Spec == Init /\ [][Next]_vars

-----------------------------------------------------------------------------
\* Properties

TypeOK ==
  /\ toolset \in [Toolsets -> Packages]
  /\ lock \in [Toolsets -> [Pkgs -> LockEntry \cup {None}]]
  /\ overlay \in [Toolsets -> SUBSET Modules]
  /\ release \in [Pkgs -> Release \cup {None}]
  /\ tag \in [Pkgs -> Commits \cup {None}]
  /\ cache \in [Pkgs -> Entry]
  /\ run \in [Procs -> Run]
  /\ served \subseteq Pkgs \X (LockEntry \cup {None})
  /\ faults \in 0..MaxFaults
  /\ edits \in 0..MaxEdits

\* Provenance: whatever crashes, races and upstream edits happen, an entry of a
\* lockfile is one that was committed there before, or the hash, commit and
\* origin that one fetch returned together; a cache hit never makes one up
\* (ResolveWithExpected lines 60-64, and the validation in ToolsetLockFile.Write).
LockProvenance ==
  \A t \in Toolsets, k \in Pkgs : lock[t][k] # None => <<k, lock[t][k]>> \in served

\* The registry packages of a run that succeeded, as keys of the lockfile.
Resolved(p) == {<<m, run[p].view[m]>> : m \in Modules \ run[p].replaced}

\* A run that reports success leaves on disk the toolset file it resolved and a
\* lockfile with its own updated entries, one for every package that is not
\* replaced: no later write of the run or of another command undoes them
\* (runResolve, ToolsetFile.Resolve).
SuccessMeansLocked ==
  \A p \in Procs : run[p].pc = "done" =>
    /\ toolset[File[p]] = run[p].view
    /\ lock[File[p]] = run[p].upd
    /\ \A k \in Resolved(p) : lock[File[p]][k] # None

\* Reproducibility: the archives a successful run handed to the builder are the
\* ones its lockfile pins (ResolveWithExpected compares hashes before it loads).
LoadedMatchesPin ==
  \A p \in Procs : run[p].pc = "done" =>
    \A m \in Modules \ run[p].replaced :
      run[p].loaded[m] = run[p].upd[<<m, run[p].view[m]>>].archive

\* After a success the cache holds the pinned packages whole, so that the next
\* run of the same toolset loads them without asking a source (Cache.Put before
\* Cache.LoadArchive in ResolveWithExpected).
SuccessLeavesCacheWarm ==
  \A p \in Procs : run[p].pc = "done" =>
    \A k \in Resolved(p) :
      /\ Has(cache[k])
      /\ Intact(cache[k].manifest, cache[k].archive)
      /\ cache[k].archive = lock[File[p]][k].archive

\* An entry of a lockfile changes only when a run that has loaded every package
\* commits, and only for a package that this run resolved from the registry:
\* failed runs, and replaced modules, leave the lock as it was.
LockChangesOnlyOnSuccess ==
  [][\A t \in Toolsets, k \in Pkgs : lock'[t][k] # lock[t][k] =>
       \E p \in Procs :
         /\ File[p] = t
         /\ run[p].pc = "next" /\ run'[p].pc = "done"
         /\ k \in Resolved(p)
         /\ run[p].loaded[k[1]] # None]_vars

\* The archive hashes of the lockfiles, as the table of pins they stand for.
PinsOf(l) == [t \in Toolsets |-> [k \in Pkgs |-> IF l[t][k] = None THEN None ELSE l[t][k].archive]]

Pins == INSTANCE LockPins WITH
  Files <- Toolsets, Keys <- Pkgs, Hashes <- Archives, NoPin <- None, pins <- PinsOf(lock)

\* The lockfiles implement LockPins: a pinned hash never changes and never goes
\* away, whatever the cache holds and whatever the sources serve, as long as no
\* two processes resolve the same toolset file (ResolveWithExpected lines 55 and 76).
LockImplementsPins == Pins!Spec

\* The command is run again until it succeeds, and a run that was started goes
\* on: nothing in it waits for another process.
Fairness == \A p \in Procs : WF_vars(Start(p)) /\ WF_vars(Step(p))

FairSpec == Spec /\ Fairness

\* Repeating `toolbox resolve` gets there in the end: faults are finite, and a run
\* cut short leaves nothing behind that makes every later run fail.
ResolveEventuallySucceeds == \A p \in Procs : <>(run[p].pc = "done")

=============================================================================
