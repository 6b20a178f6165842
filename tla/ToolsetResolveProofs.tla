------------------------ MODULE ToolsetResolveProofs ------------------------
(***************************************************************************)
(* Theorems about ToolsetResolve for every number of processes, packages,  *)
(* faults and upstream edits: types, where the entries of a lockfile come  *)
(* from, and that the lockfiles implement LockPins when no two processes   *)
(* work on one toolset file.                                               *)
(***************************************************************************)
EXTENDS ToolsetResolve, TLAPS

\* Program points at which a package is being resolved.
Working == {"release", "tag", "clone", "open archive", "write archive", "open manifest",
            "write manifest", "write info", "read manifest", "read archive"}

\* Those at which a fetch result is being put into the cache.
Putting == {"open archive", "write archive", "open manifest", "write manifest", "write info"}

Reading == {"read manifest", "read archive"}

\* What the fields of a run hold at each program point.
RunShape(r) ==
  /\ r.pc \in Working \cup {"upgrade"} => r.mod \in Modules
  /\ r.pc \in Putting \cup {"tag"} => r.mani \in Archives
  /\ r.pc = "tag" => r.meta # None /\ r.meta.archive \in Archives
  /\ r.pc \in Putting => r.meta \in LockEntry
  /\ r.pc \in Reading => r.meta # None

TypeInv == TypeOK /\ \A p \in Procs : RunShape(run[p])

\* Become changes the run of one process and no other.
LEMMA BecomeRun ==
  ASSUME run \in [Procs -> Run], NEW p \in Procs, NEW r \in Run, Become(p, r)
  PROVE  /\ run' \in [Procs -> Run]
         /\ run'[p] = r
         /\ \A q \in Procs \ {p} : run'[q] = run[q]
BY DEF Become

\* A run that starts or fails is well typed and well shaped.
LEMMA FreshRun ==
  ASSUME NEW packages \in Packages, NEW c \in {"idle", "failed"},
         NEW w \in {"", "fault", "source", "mismatch", "hit load", "load", "lock"}
  PROVE  /\ [Fresh(packages) EXCEPT !.pc = c, !.why = w] \in Run
         /\ Fresh(packages) \in Run
         /\ RunShape([Fresh(packages) EXCEPT !.pc = c, !.why = w])
         /\ RunShape(Fresh(packages))
<1>1. NoLock \in Lock
  BY Zenon DEF NoLock, Lock
<1>2. Fresh(packages) \in Run
  BY Zenon, <1>1 DEF Fresh, Run, PCs
<1> QED
  BY ZenonT(60), <1>1, <1>2 DEF Fresh, Run, PCs, RunShape, Working, Putting, Reading

\* The run of one process changes to a well-shaped one.
LEMMA RunStep ==
  ASSUME TypeInv, NEW p \in Procs, NEW r \in Run, RunShape(r), Become(p, r)
  PROVE  run' \in [Procs -> Run] /\ \A q \in Procs : RunShape(run'[q])
<1>1. run \in [Procs -> Run] /\ \A q \in Procs : RunShape(run[q])
  BY DEF TypeInv, TypeOK
<1> QED
  BY <1>1, BecomeRun

\* A run that fails stays well typed and well shaped.
LEMMA FailStep ==
  ASSUME TypeInv, NEW p \in Procs,
         NEW w \in {"fault", "source", "mismatch", "hit load", "load", "lock"}, Fail(p, w)
  PROVE  run' \in [Procs -> Run] /\ \A q \in Procs : RunShape(run'[q])
<1> DEFINE r == [Fresh(run[p].view) EXCEPT !.pc = "failed", !.why = w]
<1>1. run[p].view \in Packages
  BY Zenon DEF TypeInv, TypeOK, Run
<1>2. r \in Run /\ RunShape(r)
  BY Zenon, <1>1, FreshRun
<1>3. Become(p, r)
  BY Zenon DEF Fail
<1> HIDE DEF r
<1> QED
  BY Zenon, <1>2, <1>3, RunStep

\* The initial states satisfy TypeInv.
LEMMA TypeInit == Init => TypeInv
<1> SUFFICES ASSUME Init PROVE TypeInv
  OBVIOUS
<1> USE ResolveAssumption
<1>1. toolset \in [Toolsets -> Packages] /\ lock \in [Toolsets -> [Pkgs -> LockEntry \cup {None}]]
  BY DEF Init
<1>2. \A p \in Procs : toolset[File[p]] \in Packages
  BY <1>1
<1>3. run \in [Procs -> Run] /\ \A p \in Procs : RunShape(run[p])
  BY Zenon, <1>2, FreshRun DEF Init
<1>4. served \subseteq Pkgs \X (LockEntry \cup {None})
  BY <1>1 DEF Init
<1>5. overlay \in [Toolsets -> SUBSET Modules] /\ release \in [Pkgs -> Release \cup {None}]
      /\ tag \in [Pkgs -> Commits \cup {None}] /\ cache \in [Pkgs -> Entry]
      /\ faults \in 0..MaxFaults /\ edits \in 0..MaxEdits
  BY DEF Init
<1> QED
  BY <1>1, <1>3, <1>4, <1>5 DEF TypeInv, TypeOK

\* Start preserves TypeInv.
LEMMA StartType == ASSUME TypeInv, NEW p \in Procs, Start(p) PROVE TypeInv'
<1>1. toolset[File[p]] \in Packages
  BY ResolveAssumption DEF TypeInv, TypeOK
<1>2. PICK up \in Upgrades :
        Become(p, [Fresh(toolset[File[p]]) EXCEPT
                     !.pc = IF up = None THEN "lock" ELSE "upgrade", !.mod = up])
  BY ZenonT(60) DEF Start
<1> DEFINE c == IF up = None THEN "lock" ELSE "upgrade"
           f == Fresh(toolset[File[p]])
           r == [f EXCEPT !.pc = c, !.mod = up]
<1>3. f \in Run
  BY Zenon, <1>1, FreshRun
<1>4. c \in {"lock", "upgrade"} /\ up \in Modules \cup {None} /\ (c = "upgrade" => up \in Modules)
  BY ResolveAssumption
<1>5. Become(p, r)
  BY <1>2
<1> HIDE DEF c, f
<1>6. r \in Run
  BY Zenon, <1>3, <1>4 DEF Run, PCs
<1>7. RunShape(r)
  BY Zenon, <1>3, <1>4 DEF Run, PCs, RunShape, Working, Putting, Reading
<1> HIDE DEF r
<1>8. run' \in [Procs -> Run] /\ \A q \in Procs : RunShape(run'[q])
  BY <1>5, <1>6, <1>7, RunStep
<1> QED
  BY <1>8 DEF Start, TypeInv, TypeOK, disk, upstream

\* Pinning a listed version keeps the toolset and the run well typed.
LEMMA UpgradeToType ==
  ASSUME TypeInv, NEW p \in Procs, run[p].mod \in Modules, NEW latest \in Versions,
         UpgradeTo(p, latest)
  PROVE  /\ toolset' \in [Toolsets -> Packages]
         /\ run' \in [Procs -> Run] /\ \A q \in Procs : RunShape(run'[q])
<1> DEFINE x == run[p]
           view == Upgraded(p, latest)
           r == [x EXCEPT !.pc = "lock", !.mod = None, !.view = view]
<1>1. x \in Run /\ x.view \in Packages
  BY Zenon DEF TypeInv, TypeOK, Run
<1>2. view \in Packages
  BY <1>1 DEF Packages, Upgraded
<1>3. toolset' \in [Toolsets -> Packages]
  BY <1>2, ResolveAssumption DEF TypeInv, TypeOK, UpgradeTo
<1>4. Become(p, r)
  BY DEF UpgradeTo
<1> HIDE DEF x, view
<1>5. r \in Run
  BY Zenon, <1>1, <1>2 DEF Run, PCs
<1>6. RunShape(r)
  BY Zenon, <1>1, <1>2 DEF Run, PCs, RunShape, Working, Putting, Reading
<1> HIDE DEF r
<1> QED
  BY <1>3, <1>4, <1>5, <1>6, RunStep

\* Upgrade preserves TypeInv.
LEMMA UpgradeType == ASSUME TypeInv, NEW p \in Procs, Upgrade(p) PROVE TypeInv'
<1>1. run[p].mod \in Modules
  BY DEF TypeInv, Upgrade, RunShape
<1>2. \A s \in Listed(run[p].mod) : s \subseteq Versions
  BY Zenon DEF Listed
<1>3. \/ Fail(p, "source") /\ UNCHANGED toolset
      \/ \E latest \in Versions : UpgradeTo(p, latest)
  BY <1>2 DEF Upgrade
<1>4. /\ toolset' \in [Toolsets -> Packages]
      /\ run' \in [Procs -> Run] /\ \A q \in Procs : RunShape(run'[q])
  <2>1. CASE Fail(p, "source") /\ UNCHANGED toolset
    BY Zenon, <2>1, FailStep DEF TypeInv, TypeOK
  <2>2. CASE \E latest \in Versions : UpgradeTo(p, latest)
    BY <2>2, <1>1, UpgradeToType
  <2> QED
    BY <1>3, <2>1, <2>2
<1> QED
  BY <1>4 DEF Upgrade, TypeInv, TypeOK, upstream

\* LoadLock preserves TypeInv.
LEMMA LoadLockType == ASSUME TypeInv, NEW p \in Procs, LoadLock(p) PROVE TypeInv'
<1> DEFINE x == run[p]
           l == lock[File[p]]
           o == overlay[File[p]]
           r == [x EXCEPT !.pc = "next", !.base = l, !.upd = l, !.replaced = o, !.todo = Modules]
<1>1. x \in Run /\ l \in Lock /\ o \in SUBSET Modules
  BY ResolveAssumption DEF TypeInv, TypeOK, Lock, Metadata
<1>2. Become(p, r)
  BY DEF LoadLock
<1> HIDE DEF x, l, o
<1>3. r \in Run
  BY Zenon, <1>1 DEF Run, PCs
<1>4. RunShape(r)
  BY Zenon, <1>1 DEF Run, PCs, RunShape, Working, Putting, Reading
<1> HIDE DEF r
<1>5. run' \in [Procs -> Run] /\ \A q \in Procs : RunShape(run'[q])
  BY <1>2, <1>3, <1>4, RunStep
<1> QED
  BY <1>5 DEF LoadLock, TypeInv, TypeOK, disk, upstream

\* AddFromDir preserves TypeInv.
LEMMA AddFromDirType == ASSUME TypeInv, NEW p \in Procs, AddFromDir(p) PROVE TypeInv'
<1>1. PICK m \in run[p].replaced : Become(p, [run[p] EXCEPT !.todo = @ \ {m}])
  BY DEF AddFromDir
<1> DEFINE x == run[p]
           r == [x EXCEPT !.todo = @ \ {m}]
<1>2. x \in Run /\ x.pc = "next" /\ Become(p, r)
  BY <1>1 DEF TypeInv, TypeOK, AddFromDir
<1> HIDE DEF x
<1>3. r \in Run
  BY Zenon, <1>2 DEF Run
<1>4. RunShape(r)
  BY Zenon, <1>2 DEF Run, RunShape, Working, Putting, Reading
<1> HIDE DEF r
<1>5. run' \in [Procs -> Run] /\ \A q \in Procs : RunShape(run'[q])
  BY <1>2, <1>3, <1>4, RunStep
<1> QED
  BY <1>5 DEF AddFromDir, TypeInv, TypeOK, disk, upstream

\* CheckCache preserves TypeInv.
LEMMA CheckCacheType == ASSUME TypeInv, NEW p \in Procs, CheckCache(p) PROVE TypeInv'
<1>1. PICK m \in run[p].todo \ run[p].replaced : CheckPackage(p, m, <<m, run[p].view[m]>>)
  BY DEF CheckCache
<1> DEFINE x == run[p]
           k == <<m, x.view[m]>>
           known == KnownMetadata(k, x.base[k])
           rh == [x EXCEPT !.pc = "read manifest", !.mod = m, !.hit = TRUE, !.meta = known]
           rf == [x EXCEPT !.pc = "release", !.mod = m]
<1>2. x \in Run /\ m \in Modules
  BY Zenon DEF TypeInv, TypeOK, Run
<1>3. k \in Pkgs
  BY Zenon, <1>2 DEF Run, Packages, Pkgs
<1>4. cache[k] \in Entry /\ x.base[k] \in Metadata \cup {None}
  BY Zenon, <1>2, <1>3 DEF TypeInv, TypeOK, Run, Lock
<1>5. run' \in [Procs -> Run] /\ \A q \in Procs : RunShape(run'[q])
  <2>1. CASE Hit(k, x.base[k])
    <3>1. known \in Metadata /\ Become(p, rh)
      BY <1>1, <1>4, <2>1 DEF KnownMetadata, CheckPackage, Metadata, Hit, Has, Entry
    <3> HIDE DEF x, known, k
    <3>2. rh \in Run
      BY Zenon, <1>2, <3>1 DEF Run, PCs
    <3>3. RunShape(rh)
      BY ZenonT(60), <1>2, <3>1, ResolveAssumption DEF Run, PCs, RunShape, Working, Putting, Reading
    <3> HIDE DEF rh
    <3> QED
      BY Zenon, <3>1, <3>2, <3>3, RunStep
  <2>2. CASE ~Hit(k, x.base[k])
    <3>1. Become(p, rf)
      BY <1>1, <2>2 DEF CheckPackage
    <3> HIDE DEF x
    <3>2. rf \in Run
      BY Zenon, <1>2 DEF Run, PCs
    <3>3. RunShape(rf)
      BY Zenon, <1>2 DEF Run, PCs, RunShape, Working, Putting, Reading
    <3> HIDE DEF rf
    <3> QED
      BY <3>1, <3>2, <3>3, RunStep
  <2> QED
    BY <2>1, <2>2
<1> QED
  BY <1>5 DEF CheckCache, TypeInv, TypeOK, disk, upstream

\* A process that is resolving a package has a key for it.
LEMMA KeyType ==
  ASSUME TypeInv, NEW p \in Procs, run[p].pc \in Working
  PROVE  /\ Key(p) \in Pkgs
         /\ Expected(p) \in Metadata \cup {None}
         /\ release[Key(p)] \in Release \cup {None}
         /\ tag[Key(p)] \in Commits \cup {None}
         /\ cache[Key(p)] \in Entry
<1>1. run[p] \in Run /\ run[p].mod \in Modules
  BY DEF TypeInv, TypeOK, RunShape
<1>2. Key(p) \in Pkgs
  BY Zenon, <1>1 DEF Run, Packages, Pkgs, Key
<1>3. Expected(p) \in Metadata \cup {None}
  BY Zenon, <1>1, <1>2 DEF Run, Lock, Expected
<1> QED
  BY <1>2, <1>3 DEF TypeInv, TypeOK

\* FetchRelease preserves TypeInv.
LEMMA FetchReleaseType == ASSUME TypeInv, NEW p \in Procs, FetchRelease(p) PROVE TypeInv'
<1> DEFINE x == run[p]
           g == release[Key(p)]
           meta == [archive |-> g.archive, git |-> None, from |-> None]
           rc == [x EXCEPT !.pc = "clone"]
           rt == [x EXCEPT !.pc = "tag", !.mani = g.manifest, !.meta = meta]
<1>1. x \in Run /\ x.mod \in Modules /\ x.pc \in Working
  BY Zenon DEF TypeInv, TypeOK, FetchRelease, RunShape, Working
<1>2. g \in Release \cup {None}
  BY <1>1, KeyType
<1>3. \/ Become(p, rc)
      \/ Fail(p, "source")
      \/ g # None /\ g.archive # None /\ g.manifest # None /\ Become(p, rt)
  BY DEF FetchRelease
<1>4. run' \in [Procs -> Run] /\ \A q \in Procs : RunShape(run'[q])
  <2>1. CASE Become(p, rc)
    <3> HIDE DEF x
    <3>1. rc \in Run
      BY Zenon, <1>1 DEF Run, PCs
    <3>2. RunShape(rc)
      BY Zenon, <1>1 DEF Run, PCs, RunShape, Working, Putting, Reading
    <3> HIDE DEF rc
    <3> QED
      BY <2>1, <3>1, <3>2, RunStep
  <2>2. CASE Fail(p, "source")
    BY Zenon, <2>2, FailStep
  <2>3. CASE g # None /\ g.archive # None /\ g.manifest # None /\ Become(p, rt)
    <3>1. g.archive \in Archives /\ g.manifest \in Archives
      BY <1>2, <2>3 DEF Release
    <3>2. meta \in Metadata /\ meta.archive \in Archives /\ meta # None
      BY <3>1, ResolveAssumption DEF Metadata, Contents
    <3> HIDE DEF x, meta
    <3>3. rt \in Run
      BY Zenon, <1>1, <3>1, <3>2 DEF Run, PCs, Contents
    <3>4. RunShape(rt)
      BY Zenon, <1>1, <3>1, <3>2 DEF Run, PCs, RunShape, Working, Putting, Reading
    <3> HIDE DEF rt
    <3> QED
      BY <2>3, <3>3, <3>4, RunStep
  <2> QED
    BY <1>3, <2>1, <2>2, <2>3
<1> QED
  BY <1>4 DEF FetchRelease, TypeInv, TypeOK, disk, upstream

\* A fetched package gives a well-shaped run that is about to be cached.
LEMMA FetchedType ==
  ASSUME TypeInv, NEW p \in Procs, run[p].pc \in Working,
         NEW a \in Archives, NEW m \in Archives, NEW c \in Commits, NEW o \in Origins,
         Fetched(p, a, m, c, o)
  PROVE  /\ served' \subseteq Pkgs \X (LockEntry \cup {None})
         /\ run' \in [Procs -> Run] /\ \A q \in Procs : RunShape(run'[q])
<1> DEFINE x == run[p]
           meta == [archive |-> a, git |-> c, from |-> o]
           r == [x EXCEPT !.pc = "open archive", !.meta = meta, !.mani = m]
<1>1. x \in Run /\ x.mod \in Modules
  BY DEF TypeInv, TypeOK, RunShape
<1>2. meta \in LockEntry
  BY DEF LockEntry
<1>3. served' = served \cup {<<Key(p), meta>>} /\ (Become(p, r) \/ Fail(p, "mismatch"))
  BY DEF Fetched
<1>4. served' \subseteq Pkgs \X (LockEntry \cup {None})
  BY <1>2, <1>3, KeyType DEF TypeInv, TypeOK
<1> HIDE DEF x, meta
<1>5. r \in Run
  BY Zenon, <1>1, <1>2 DEF Run, PCs, Contents, Metadata
<1>6. RunShape(r)
  BY Zenon, <1>1, <1>2 DEF Run, PCs, RunShape, Working, Putting, Reading
<1> HIDE DEF r
<1> QED
  BY Zenon, <1>3, <1>4, <1>5, <1>6, RunStep, FailStep

\* FetchTag preserves TypeInv.
LEMMA FetchTagType == ASSUME TypeInv, NEW p \in Procs, FetchTag(p) PROVE TypeInv'
<1>1. run[p].pc \in Working /\ run[p].meta.archive \in Archives /\ run[p].mani \in Archives
  BY Zenon DEF TypeInv, FetchTag, RunShape, Working
<1>2. tag[Key(p)] \in Commits \cup {None}
  BY <1>1, KeyType
<1>3. \/ Fail(p, "source") /\ UNCHANGED served
      \/ /\ tag[Key(p)] # None
         /\ Fetched(p, run[p].meta.archive, run[p].mani, tag[Key(p)], "github-release")
  BY DEF FetchTag
<1>4. /\ served' \subseteq Pkgs \X (LockEntry \cup {None})
      /\ run' \in [Procs -> Run] /\ \A q \in Procs : RunShape(run'[q])
  <2>1. CASE Fail(p, "source") /\ UNCHANGED served
    BY Zenon, <2>1, FailStep DEF TypeInv, TypeOK
  <2>2. CASE /\ tag[Key(p)] # None
             /\ Fetched(p, run[p].meta.archive, run[p].mani, tag[Key(p)], "github-release")
    <3>1. tag[Key(p)] \in Commits /\ "github-release" \in Origins
      BY <1>2, <2>2 DEF Origins
    <3> QED
      BY <1>1, <2>2, <3>1, FetchedType
  <2> QED
    BY <1>3, <2>1, <2>2
<1> QED
  BY <1>4 DEF FetchTag, TypeInv, TypeOK, disk, upstream

\* Clone preserves TypeInv.
LEMMA CloneType == ASSUME TypeInv, NEW p \in Procs, Clone(p) PROVE TypeInv'
<1>1. run[p].pc \in Working
  BY DEF Clone, Working
<1>2. tag[Key(p)] \in Commits \cup {None}
  BY <1>1, KeyType
<1>3. \/ Fail(p, "source") /\ UNCHANGED served
      \/ /\ tag[Key(p)] # None
         /\ Fetched(p, Build[tag[Key(p)]], Build[tag[Key(p)]], tag[Key(p)], "git-source")
  BY DEF Clone
<1>4. /\ served' \subseteq Pkgs \X (LockEntry \cup {None})
      /\ run' \in [Procs -> Run] /\ \A q \in Procs : RunShape(run'[q])
  <2>1. CASE Fail(p, "source") /\ UNCHANGED served
    BY Zenon, <2>1, FailStep DEF TypeInv, TypeOK
  <2>2. CASE /\ tag[Key(p)] # None
             /\ Fetched(p, Build[tag[Key(p)]], Build[tag[Key(p)]], tag[Key(p)], "git-source")
    <3>1. tag[Key(p)] \in Commits /\ Build[tag[Key(p)]] \in Archives /\ "git-source" \in Origins
      BY <1>2, <2>2, ResolveAssumption DEF Origins
    <3> QED
      BY <1>1, <2>2, <3>1, FetchedType
  <2> QED
    BY <1>3, <2>1, <2>2
<1> QED
  BY <1>4 DEF Clone, TypeInv, TypeOK, disk, upstream

\* The steps of Cache.Put keep what is being put.
LEMMA PutMove ==
  ASSUME TypeInv, NEW p \in Procs, run[p].pc \in Putting, NEW c \in Putting,
         Become(p, [run[p] EXCEPT !.pc = c])
  PROVE  run' \in [Procs -> Run] /\ \A q \in Procs : RunShape(run'[q])
<1> DEFINE x == run[p]
           r == [x EXCEPT !.pc = c]
<1>1. /\ x \in Run /\ x.mod \in Modules /\ x.mani \in Archives /\ x.meta \in LockEntry
      /\ c \in PCs
  BY Zenon DEF TypeInv, TypeOK, RunShape, Putting, Working, PCs
<1> HIDE DEF x
<1>2. r \in Run
  BY Zenon, <1>1 DEF Run
<1>3. RunShape(r)
  BY Zenon, <1>1 DEF Run, RunShape, Working, Putting, Reading
<1> HIDE DEF r
<1> QED
  BY <1>2, <1>3, RunStep DEF r, x

\* OpenArchive preserves TypeInv.
LEMMA OpenArchiveType == ASSUME TypeInv, NEW p \in Procs, OpenArchive(p) PROVE TypeInv'
<1>1. run[p].pc \in Putting /\ run[p].pc \in Working
  BY Zenon DEF OpenArchive, Putting, Working
<1>2. run' \in [Procs -> Run] /\ \A q \in Procs : RunShape(run'[q])
  <2>1. "write archive" \in Putting
    BY DEF Putting
  <2> QED
    BY Zenon, <1>1, <2>1, PutMove DEF OpenArchive
<1>3. cache' \in [Pkgs -> Entry]
  BY ZenonT(60), <1>1, KeyType DEF OpenArchive, TypeInv, TypeOK, Entry, Contents
<1> QED
  BY Zenon, <1>2, <1>3 DEF OpenArchive, TypeInv, TypeOK, upstream

\* WriteArchive preserves TypeInv.
LEMMA WriteArchiveType == ASSUME TypeInv, NEW p \in Procs, WriteArchive(p) PROVE TypeInv'
<1>1. run[p].pc \in Putting /\ run[p].pc \in Working
  BY Zenon DEF WriteArchive, Putting, Working
<1>2. run' \in [Procs -> Run] /\ \A q \in Procs : RunShape(run'[q])
  <2>1. "open manifest" \in Putting
    BY DEF Putting
  <2> QED
    BY Zenon, <1>1, <2>1, PutMove DEF WriteArchive
<1>3. run[p].meta.archive \in Archives
  BY <1>1 DEF TypeInv, RunShape, LockEntry
<1>4. PICK c \in Contents : cache' = [cache EXCEPT ![Key(p)].archive = c]
  BY Zenon, <1>3 DEF WriteArchive, Overwrite, Contents
<1>5. cache' \in [Pkgs -> Entry]
  BY ZenonT(60), <1>1, <1>4, KeyType DEF TypeInv, TypeOK, Entry
<1> QED
  BY Zenon, <1>2, <1>5 DEF WriteArchive, TypeInv, TypeOK, upstream

\* OpenManifest preserves TypeInv.
LEMMA OpenManifestType == ASSUME TypeInv, NEW p \in Procs, OpenManifest(p) PROVE TypeInv'
<1>1. run[p].pc \in Putting /\ run[p].pc \in Working
  BY Zenon DEF OpenManifest, Putting, Working
<1>2. run' \in [Procs -> Run] /\ \A q \in Procs : RunShape(run'[q])
  <2>1. "write manifest" \in Putting
    BY DEF Putting
  <2> QED
    BY Zenon, <1>1, <2>1, PutMove DEF OpenManifest
<1>3. cache' \in [Pkgs -> Entry]
  BY ZenonT(60), <1>1, KeyType DEF OpenManifest, TypeInv, TypeOK, Entry, Contents
<1> QED
  BY Zenon, <1>2, <1>3 DEF OpenManifest, TypeInv, TypeOK, upstream

\* WriteManifest preserves TypeInv.
LEMMA WriteManifestType == ASSUME TypeInv, NEW p \in Procs, WriteManifest(p) PROVE TypeInv'
<1>1. run[p].pc \in Putting /\ run[p].pc \in Working
  BY Zenon DEF WriteManifest, Putting, Working
<1>2. run' \in [Procs -> Run] /\ \A q \in Procs : RunShape(run'[q])
  <2>1. "write info" \in Putting
    BY DEF Putting
  <2> QED
    BY Zenon, <1>1, <2>1, PutMove DEF WriteManifest
<1>3. run[p].mani \in Archives
  BY <1>1 DEF TypeInv, RunShape
<1>4. PICK c \in Contents : cache' = [cache EXCEPT ![Key(p)].manifest = c]
  BY Zenon, <1>3 DEF WriteManifest, Overwrite, Contents
<1>5. cache' \in [Pkgs -> Entry]
  BY ZenonT(60), <1>1, <1>4, KeyType DEF TypeInv, TypeOK, Entry
<1> QED
  BY Zenon, <1>2, <1>5 DEF WriteManifest, TypeInv, TypeOK, upstream

\* WriteInfo preserves TypeInv.
LEMMA WriteInfoType == ASSUME TypeInv, NEW p \in Procs, WriteInfo(p) PROVE TypeInv'
<1> DEFINE x == run[p]
           r == [x EXCEPT !.pc = "read manifest", !.mani = None]
<1>1. x \in Run /\ x.pc \in Working /\ x.mod \in Modules /\ x.meta \in LockEntry /\ Become(p, r)
  BY Zenon DEF TypeInv, TypeOK, WriteInfo, RunShape, Putting, Working
<1>2. x.meta # None
  BY <1>1, ResolveAssumption DEF Metadata
<1>3. cache' \in [Pkgs -> Entry]
  BY ZenonT(60), <1>1, KeyType DEF WriteInfo, TypeInv, TypeOK, Entry
<1> HIDE DEF x
<1>4. r \in Run
  BY Zenon, <1>1 DEF Run, PCs
<1>5. RunShape(r)
  BY Zenon, <1>1, <1>2 DEF Run, RunShape, Working, Putting, Reading
<1> HIDE DEF r
<1>6. run' \in [Procs -> Run] /\ \A q \in Procs : RunShape(run'[q])
  BY <1>1, <1>4, <1>5, RunStep
<1> QED
  BY Zenon, <1>3, <1>6 DEF WriteInfo, TypeInv, TypeOK, upstream

\* ReadManifest preserves TypeInv.
LEMMA ReadManifestType == ASSUME TypeInv, NEW p \in Procs, ReadManifest(p) PROVE TypeInv'
<1> DEFINE x == run[p]
           m == cache[Key(p)].manifest
           r == [x EXCEPT !.pc = "read archive", !.mani = m]
<1>1. x \in Run /\ x.pc \in Working /\ x.mod \in Modules /\ x.meta # None /\ Become(p, r)
  BY Zenon DEF TypeInv, TypeOK, ReadManifest, RunShape, Reading, Working
<1>2. m \in Contents \cup {None}
  BY <1>1, KeyType DEF Entry
<1> HIDE DEF x, m
<1>3. r \in Run
  BY Zenon, <1>1, <1>2 DEF Run, PCs
<1>4. RunShape(r)
  BY Zenon, <1>1, <1>2 DEF Run, RunShape, Working, Putting, Reading
<1> HIDE DEF r
<1>5. run' \in [Procs -> Run] /\ \A q \in Procs : RunShape(run'[q])
  BY <1>1, <1>3, <1>4, RunStep
<1> QED
  BY Zenon, <1>5 DEF ReadManifest, TypeInv, TypeOK, disk, upstream

\* ReadArchive preserves TypeInv.
LEMMA ReadArchiveType == ASSUME TypeInv, NEW p \in Procs, ReadArchive(p) PROVE TypeInv'
<1> DEFINE x == run[p]
           k == Key(p)
           m == x.mod
           a == cache[k].archive
           e == x.meta
           todo == x.todo \ {m}
           loaded == [x.loaded EXCEPT ![m] = a]
           upd == [x.upd EXCEPT ![k] = e]
           r == [x EXCEPT !.pc = "next", !.todo = todo, !.loaded = loaded, !.upd = upd,
                          !.mod = None, !.hit = FALSE, !.meta = None, !.mani = None]
<1>1. x \in Run /\ x.pc \in Working /\ m \in Modules /\ e \in Metadata
  BY Zenon DEF TypeInv, TypeOK, ReadArchive, RunShape, Reading, Working, Run
<1>2. k \in Pkgs
  BY <1>1, KeyType
<1>3. CASE Intact(x.mani, a)
  <2>1. Become(p, r)
    BY Zenon, <1>1, <1>3 DEF ReadArchive, Run
  <2>2. a \in Archives
    BY <1>3 DEF Intact
  <2> HIDE DEF x, k, m, a, e
  <2>3. todo \in SUBSET Modules /\ loaded \in [Modules -> Archives \cup {None}] /\ upd \in Lock
    BY Zenon, <1>1, <1>2, <2>2 DEF Run, Lock
  <2> HIDE DEF todo, loaded, upd
  <2>4. r \in Run
    BY Zenon, <1>1, <2>3 DEF Run, PCs
  <2>5. RunShape(r)
    BY ZenonT(60), <1>1, <2>3 DEF Run, RunShape, Working, Putting, Reading
  <2> HIDE DEF r
  <2>6. run' \in [Procs -> Run] /\ \A q \in Procs : RunShape(run'[q])
    BY <2>1, <2>4, <2>5, RunStep
  <2> QED
    BY Zenon, <2>6 DEF ReadArchive, TypeInv, TypeOK, disk, upstream
<1>4. CASE ~Intact(x.mani, a)
  <2>1. PICK w \in {"hit load", "load"} : Fail(p, w)
    BY Zenon, <1>4 DEF ReadArchive
  <2>2. run' \in [Procs -> Run] /\ \A q \in Procs : RunShape(run'[q])
    BY Zenon, <2>1, FailStep
  <2> QED
    BY Zenon, <2>2 DEF ReadArchive, TypeInv, TypeOK, disk, upstream
<1> QED
  BY <1>3, <1>4

\* An entry that validates is a full one.
LEMMA ValidEntry == ASSUME NEW e \in Metadata, Valid(e) PROVE e \in LockEntry
BY ResolveAssumption DEF Metadata, LockEntry, Valid

\* Commit preserves TypeInv.
LEMMA CommitType == ASSUME TypeInv, NEW p \in Procs, Commit(p) PROVE TypeInv'
<1> DEFINE x == run[p]
           r == [x EXCEPT !.pc = "done"]
<1>1. x \in Run /\ x.upd \in Lock
  BY Zenon DEF TypeInv, TypeOK, Run
<1>2. CASE \A k \in Pkgs : x.upd[k] # None => Valid(x.upd[k])
  <2>1. Become(p, r) /\ lock' = [lock EXCEPT ![File[p]] = x.upd]
    BY <1>2 DEF Commit
  <2>2. \A k \in Pkgs : x.upd[k] \in LockEntry \cup {None}
    BY <1>1, <1>2, ValidEntry DEF Lock
  <2>3. lock' \in [Toolsets -> [Pkgs -> LockEntry \cup {None}]]
    BY <1>1, <2>1, <2>2, ResolveAssumption DEF TypeInv, TypeOK, Lock
  <2> HIDE DEF x
  <2>4. r \in Run
    BY Zenon, <1>1 DEF Run, PCs
  <2>5. RunShape(r)
    BY Zenon, <1>1 DEF Run, RunShape, Working, Putting, Reading
  <2> HIDE DEF r
  <2>6. run' \in [Procs -> Run] /\ \A q \in Procs : RunShape(run'[q])
    BY <2>1, <2>4, <2>5, RunStep
  <2> QED
    BY <2>3, <2>6 DEF Commit, TypeInv, TypeOK, upstream
<1>3. CASE ~ \A k \in Pkgs : x.upd[k] # None => Valid(x.upd[k])
  <2>1. Fail(p, "lock") /\ UNCHANGED lock
    BY <1>3 DEF Commit
  <2>2. run' \in [Procs -> Run] /\ \A q \in Procs : RunShape(run'[q])
    BY Zenon, <2>1, FailStep
  <2> QED
    BY <2>1, <2>2 DEF Commit, TypeInv, TypeOK, upstream
<1> QED
  BY <1>2, <1>3

\* Abort preserves TypeInv.
LEMMA AbortType == ASSUME TypeInv, NEW p \in Procs, Abort(p) PROVE TypeInv'
<1>1. run' \in [Procs -> Run] /\ \A q \in Procs : RunShape(run'[q])
  BY ZenonT(60), FailStep DEF Abort
<1>2. faults' \in 0..MaxFaults
  BY ResolveAssumption DEF Abort, TypeInv, TypeOK
<1> QED
  BY <1>1, <1>2 DEF Abort, TypeInv, TypeOK, disk, upstream

\* Changes upstream preserve TypeInv.
LEMMA WorldType == ASSUME TypeInv, World PROVE TypeInv'
<1>1. ASSUME NEW k \in Pkgs, EditRelease(k) PROVE TypeInv'
  BY <1>1, ResolveAssumption DEF EditRelease, TypeInv, TypeOK, disk
<1>2. ASSUME NEW k \in Pkgs, MoveTag(k) PROVE TypeInv'
  BY <1>2, ResolveAssumption DEF MoveTag, TypeInv, TypeOK, disk
<1>3. ASSUME NEW t \in Toolsets, EditOverlay(t) PROVE TypeInv'
  BY <1>3, ResolveAssumption DEF EditOverlay, TypeInv, TypeOK, disk
<1> QED
  BY <1>1, <1>2, <1>3 DEF World

\* Every step preserves TypeInv.
LEMMA TypeNext == TypeInv /\ [Next]_vars => TypeInv'
<1> SUFFICES ASSUME TypeInv, [Next]_vars PROVE TypeInv'
  OBVIOUS
<1>1. ASSUME NEW p \in Procs, Step(p) PROVE TypeInv'
  BY <1>1, UpgradeType, LoadLockType, AddFromDirType, CheckCacheType, FetchReleaseType,
     FetchTagType, CloneType, OpenArchiveType, WriteArchiveType, OpenManifestType,
     WriteManifestType, WriteInfoType, ReadManifestType, ReadArchiveType, CommitType
     DEF Step, Fetch, Put, Load
<1>2. CASE UNCHANGED vars
  BY <1>2 DEF TypeInv, TypeOK, vars
<1> QED
  BY <1>1, <1>2, StartType, AbortType, WorldType DEF Next

\* Type correctness: the toolset files, lockfiles and cache entries stay
\* well-formed, and no lockfile ever holds an entry without a commit and an
\* origin, although a bare cache hit (ResolveWithExpected lines 60-64) puts such
\* an entry into the updated lock: ToolsetLockFile.Write validates first.
THEOREM TypeCorrect == Spec => []TypeOK
<1>1. TypeInv => TypeOK
  BY Zenon DEF TypeInv
<1> QED
  BY <1>1, TypeInit, TypeNext, PTL DEF Spec

-----------------------------------------------------------------------------
\* The lockfiles

\* No two processes resolve the same toolset file.
Exclusive == \A p, q \in Procs : File[p] = File[q] => p = q

\* Program points after the lockfile was read, and those with a fetch result or
\* a cache hit in hand.
Resolving == Working \cup {"next"}

Holding == Putting \cup Reading

KeyOf(r) == <<r.mod, r.view[r.mod]>>

\* What run r may still write to the lockfile came from S.
Sourced(r, S) ==
  /\ \A k \in Pkgs : r.base[k] # None => <<k, r.base[k]>> \in S
  /\ \A k \in Pkgs : r.upd[k] # None /\ Valid(r.upd[k]) => <<k, r.upd[k]>> \in S
  /\ r.pc \in Holding /\ Valid(r.meta) => <<KeyOf(r), r.meta>> \in S

\* What run r may still write to its lockfile, now l, keeps the pins of l.
Pinned(r, l) ==
  /\ r.pc \in Resolving => r.base = l
  /\ \A k \in Pkgs : r.base[k] # None => r.upd[k] # None /\ r.upd[k].archive = r.base[k].archive
  /\ r.pc \in Holding /\ r.base[KeyOf(r)] # None => r.meta.archive = r.base[KeyOf(r)].archive

LockInv ==
  /\ LockProvenance
  /\ \A p \in Procs : Sourced(run[p], served)
  /\ Exclusive => \A p \in Procs : Pinned(run[p], lock[File[p]])

\* A step of one process that leaves the lockfiles alone.
LEMMA LocalStep ==
  ASSUME TypeInv, LockInv, NEW p \in Procs, NEW r \in Run, Become(p, r),
         UNCHANGED lock, served \subseteq served',
         Sourced(r, served'), Exclusive => Pinned(r, lock[File[p]])
  PROVE  LockInv'
<1>1. run \in [Procs -> Run]
  BY DEF TypeInv, TypeOK
<1>2. run'[p] = r /\ \A q \in Procs \ {p} : run'[q] = run[q]
  BY <1>1, BecomeRun
<1>3. LockProvenance'
  BY DEF LockInv, LockProvenance
<1>4. ASSUME NEW q \in Procs PROVE Sourced(run'[q], served')
  <2>1. CASE q = p
    BY Zenon, <1>2, <2>1
  <2>2. CASE q # p
    BY Zenon, <1>2, <2>2 DEF LockInv, Sourced
  <2> QED
    BY <2>1, <2>2
<1>5. ASSUME Exclusive, NEW q \in Procs PROVE Pinned(run'[q], lock'[File[q]])
  BY <1>2, <1>5 DEF LockInv
<1> QED
  BY <1>3, <1>4, <1>5 DEF LockInv, Exclusive

\* A step that keeps both locks of the run, and either has no metadata in hand
\* after it or goes on with what it has.
LEMMA QuietStep ==
  ASSUME TypeInv, LockInv, NEW p \in Procs, NEW r \in Run, Become(p, r),
         UNCHANGED lock, served \subseteq served',
         r.base = run[p].base, r.upd = run[p].upd,
         r.pc \in Resolving => run[p].pc \in Resolving,
         \/ r.pc \notin Holding
         \/ /\ run[p].pc \in Holding
            /\ r.mod = run[p].mod /\ r.view = run[p].view /\ r.meta = run[p].meta
  PROVE  LockInv'
<1>1. Sourced(r, served')
  BY Zenon DEF LockInv, Sourced, KeyOf
<1>2. Exclusive => Pinned(r, lock[File[p]])
  BY ZenonT(60) DEF LockInv, Pinned, KeyOf
<1> QED
  BY <1>1, <1>2, LocalStep

\* A run that starts or ends in an error has nothing to write.
LEMMA FreshStep ==
  ASSUME TypeInv, LockInv, NEW p \in Procs, NEW r \in Run, Become(p, r),
         UNCHANGED lock, served \subseteq served',
         r.base = NoLock, r.upd = NoLock, r.pc \notin Resolving
  PROVE  LockInv'
<1>1. r.pc \notin Holding /\ \A k \in Pkgs : r.base[k] = None /\ r.upd[k] = None
  BY Zenon DEF NoLock, Holding, Resolving, Putting, Reading, Working
<1>2. Sourced(r, served') /\ Pinned(r, lock[File[p]])
  BY <1>1 DEF Sourced, Pinned
<1> QED
  BY <1>2, LocalStep

\* A run that fails preserves LockInv.
LEMMA FailLock ==
  ASSUME TypeInv, LockInv, NEW p \in Procs,
         NEW w \in {"fault", "source", "mismatch", "hit load", "load", "lock"}, Fail(p, w),
         UNCHANGED lock, served \subseteq served'
  PROVE  LockInv'
<1> DEFINE r == [Fresh(run[p].view) EXCEPT !.pc = "failed", !.why = w]
<1>1. run[p].view \in Packages
  BY Zenon DEF TypeInv, TypeOK, Run
<1>2. r \in Run
  BY Zenon, <1>1, FreshRun
<1>3. Become(p, r) /\ r.base = NoLock /\ r.upd = NoLock /\ r.pc = "failed"
  BY Zenon DEF Fail, Fresh
<1> HIDE DEF r
<1>4. r.pc \notin Resolving
  BY Zenon, <1>3 DEF Resolving, Working
<1> QED
  BY Zenon, <1>2, <1>3, <1>4, FreshStep

\* The locks a command finds satisfy LockInv.
LEMMA LockInit == Init => LockInv
<1> SUFFICES ASSUME Init PROVE LockInv
  OBVIOUS
<1>1. LockProvenance
  BY DEF Init, LockProvenance
<1>2. ASSUME NEW p \in Procs PROVE Sourced(run[p], served) /\ Pinned(run[p], lock[File[p]])
  <2>1. run[p].base = NoLock /\ run[p].upd = NoLock /\ run[p].pc = "idle"
    BY Zenon DEF Init, Fresh
  <2>2. \A k \in Pkgs : run[p].base[k] = None /\ run[p].upd[k] = None
    BY <2>1 DEF NoLock
  <2> QED
    BY <2>1, <2>2 DEF Sourced, Pinned, Holding, Resolving, Putting, Reading, Working
<1> QED
  BY <1>1, <1>2 DEF LockInv

\* Start preserves LockInv.
LEMMA StartLock == ASSUME TypeInv, LockInv, NEW p \in Procs, Start(p) PROVE LockInv'
<1>1. toolset[File[p]] \in Packages
  BY ResolveAssumption DEF TypeInv, TypeOK
<1>2. PICK up \in Upgrades :
        Become(p, [Fresh(toolset[File[p]]) EXCEPT
                     !.pc = IF up = None THEN "lock" ELSE "upgrade", !.mod = up])
  BY ZenonT(60) DEF Start
<1> DEFINE c == IF up = None THEN "lock" ELSE "upgrade"
           f == Fresh(toolset[File[p]])
           r == [f EXCEPT !.pc = c, !.mod = up]
<1>3. f \in Run /\ f.base = NoLock /\ f.upd = NoLock
  BY Zenon, <1>1, FreshRun DEF Fresh
<1>4. c \in {"lock", "upgrade"} /\ up \in Modules \cup {None}
  BY ResolveAssumption
<1>5. Become(p, r)
  BY <1>2
<1> HIDE DEF c, f
<1>6. r \in Run /\ r.base = NoLock /\ r.upd = NoLock /\ r.pc = c
  BY ZenonT(60), <1>3, <1>4 DEF Run, PCs
<1> HIDE DEF r
<1>7. r.pc \notin Resolving
  BY Zenon, <1>4, <1>6 DEF Resolving, Working
<1> QED
  BY <1>5, <1>6, <1>7, FreshStep DEF Start, disk

\* Upgrade preserves LockInv.
LEMMA UpgradeLock == ASSUME TypeInv, LockInv, NEW p \in Procs, Upgrade(p) PROVE LockInv'
<1>1. UNCHANGED lock /\ served \subseteq served' /\ run[p].pc = "upgrade"
  BY DEF Upgrade
<1>2. CASE Fail(p, "source")
  BY Zenon, <1>1, <1>2, FailLock
<1>3. ASSUME NEW latest \in Versions, UpgradeTo(p, latest) PROVE LockInv'
  <2> DEFINE x == run[p]
             view == Upgraded(p, latest)
             r == [x EXCEPT !.pc = "lock", !.mod = None, !.view = view]
  <2>1. x \in Run /\ x.mod \in Modules
    BY <1>1 DEF TypeInv, TypeOK, RunShape
  <2>2. view \in Packages
    BY Zenon, <2>1 DEF Packages, Upgraded, Run
  <2>3. Become(p, r)
    BY <1>3 DEF UpgradeTo
  <2> HIDE DEF view
  <2>4. r \in Run /\ r.base = x.base /\ r.upd = x.upd /\ r.pc = "lock"
    BY ZenonT(60), <2>1, <2>2 DEF Run, PCs
  <2> HIDE DEF r
  <2>5. r.pc \notin Resolving /\ r.pc \notin Holding
    BY <2>4 DEF Resolving, Holding, Working, Putting, Reading
  <2> QED
    BY Zenon, <1>1, <2>3, <2>4, <2>5, QuietStep
<1> QED
  <2>1. \A listed \in Listed(run[p].mod) : listed \subseteq Versions
    BY Zenon DEF Listed
  <2> QED
    BY <1>2, <1>3, <2>1 DEF Upgrade

\* LoadLock preserves LockInv.
LEMMA LoadLockLock == ASSUME TypeInv, LockInv, NEW p \in Procs, LoadLock(p) PROVE LockInv'
<1> DEFINE x == run[p]
           l == lock[File[p]]
           o == overlay[File[p]]
           r == [x EXCEPT !.pc = "next", !.base = l, !.upd = l, !.replaced = o, !.todo = Modules]
<1>1. x \in Run /\ l \in [Pkgs -> LockEntry \cup {None}] /\ o \in SUBSET Modules
  BY ResolveAssumption DEF TypeInv, TypeOK
<1>2. l \in Lock
  BY Zenon, <1>1 DEF Lock, Metadata
<1>3. \A k \in Pkgs : l[k] # None => <<k, l[k]>> \in served
  BY ResolveAssumption DEF LockInv, LockProvenance
<1>4. Become(p, r) /\ UNCHANGED lock /\ served' = served
  BY DEF LoadLock, disk
<1> HIDE DEF l, o
<1>5. r \in Run /\ r.pc = "next" /\ r.base = l /\ r.upd = l
  BY ZenonT(60), <1>1, <1>2 DEF Run, PCs
<1> HIDE DEF r
<1>6. r.pc \notin Holding
  BY <1>5 DEF Holding, Putting, Reading
<1>7. Sourced(r, served')
  BY <1>3, <1>4, <1>5, <1>6 DEF Sourced
<1>8. Pinned(r, l)
  BY <1>5, <1>6 DEF Pinned
<1> QED
  BY Zenon, <1>4, <1>5, <1>7, <1>8, LocalStep DEF l

\* AddFromDir preserves LockInv.
LEMMA AddFromDirLock == ASSUME TypeInv, LockInv, NEW p \in Procs, AddFromDir(p) PROVE LockInv'
<1> DEFINE x == run[p]
<1>1. PICK m \in x.replaced : Become(p, [x EXCEPT !.todo = @ \ {m}])
  BY Zenon DEF AddFromDir
<1> DEFINE todo == x.todo \ {m}
           r == [x EXCEPT !.todo = todo]
<1>2. x \in Run /\ x.pc = "next" /\ todo \in SUBSET Modules
  BY Zenon DEF TypeInv, TypeOK, Run, AddFromDir
<1>3. Become(p, r)
  BY Zenon, <1>1, <1>2 DEF Run
<1> HIDE DEF todo
<1>4. r \in Run /\ r.base = x.base /\ r.upd = x.upd /\ r.pc = "next"
  BY Zenon, <1>2 DEF Run
<1> HIDE DEF r
<1>5. x.pc \in Resolving /\ r.pc \notin Holding
  BY <1>2, <1>4 DEF Resolving, Holding, Putting, Reading
<1> QED
  BY <1>3, <1>4, <1>5, QuietStep DEF AddFromDir, disk

\* A hit returns the lock entry, or metadata that does not validate.
LEMMA CheckCacheLock == ASSUME TypeInv, LockInv, NEW p \in Procs, CheckCache(p) PROVE LockInv'
<1> DEFINE x == run[p]
<1>1. PICK m \in x.todo \ x.replaced : CheckPackage(p, m, <<m, x.view[m]>>)
  BY DEF CheckCache
<1> DEFINE k == <<m, x.view[m]>>
           e == x.base[k]
           meta == KnownMetadata(k, e)
<1>2. x \in Run /\ m \in Modules /\ x.pc = "next" /\ x.pc \in Resolving
  BY Zenon DEF TypeInv, TypeOK, Run, CheckCache, Resolving
<1>3. k \in Pkgs /\ e \in Metadata \cup {None}
  BY Zenon, <1>2 DEF Run, Packages, Pkgs, Lock
<1>4. UNCHANGED lock /\ served' = served
  BY DEF CheckCache, disk
<1>5. CASE Hit(k, e)
  <2> DEFINE r == [x EXCEPT !.pc = "read manifest", !.mod = m, !.hit = TRUE, !.meta = meta]
  <2>1. Become(p, r)
    BY <1>1, <1>5 DEF CheckPackage
  <2>2. CASE e = None
    <3>1. cache[k].archive \in Contents
      BY Zenon, <1>3, <1>5 DEF Hit, Has, TypeInv, TypeOK, Entry
    <3>2. meta = [archive |-> cache[k].archive, git |-> None, from |-> None]
      BY Zenon, <2>2 DEF KnownMetadata
    <3>3. meta \in Metadata /\ ~Valid(meta)
      BY <3>1, <3>2 DEF Metadata, Valid
    <3> HIDE DEF meta
    <3>4. r \in Run /\ r.base = x.base /\ r.upd = x.upd /\ r.pc = "read manifest"
          /\ r.meta = meta /\ r.mod = m /\ r.view = x.view
      BY ZenonT(60), <1>2, <3>3 DEF Run, PCs
    <3> HIDE DEF r
    <3>5. Sourced(r, served')
      BY Zenon, <1>4, <3>3, <3>4 DEF LockInv, Sourced
    <3>6. Exclusive => Pinned(r, lock[File[p]])
      <4>1. r.base[KeyOf(r)] = None
        BY Zenon, <2>2, <3>4 DEF KeyOf
      <4>2. Exclusive => Pinned(x, lock[File[p]])
        BY DEF LockInv
      <4> HIDE DEF x, k, e
      <4> QED
        BY ZenonT(60), <1>2, <3>4, <4>1, <4>2 DEF Pinned
    <3> QED
      BY ZenonT(60), <1>4, <2>1, <3>4, <3>5, <3>6, LocalStep
  <2>3. CASE e # None
    <3>1. meta = e
      BY <2>3 DEF KnownMetadata
    <3>2. <<k, e>> \in served
      BY Zenon, <1>3, <2>3 DEF LockInv, Sourced
    <3> HIDE DEF meta
    <3>3. r \in Run /\ r.base = x.base /\ r.upd = x.upd /\ r.pc = "read manifest"
          /\ r.meta = e /\ r.mod = m /\ r.view = x.view
      BY ZenonT(60), <1>2, <1>3, <2>3, <3>1 DEF Run, PCs
    <3> HIDE DEF r
    <3>4. Sourced(r, served')
      BY Zenon, <1>4, <3>2, <3>3 DEF LockInv, Sourced, KeyOf
    <3>5. Exclusive => Pinned(r, lock[File[p]])
      <4>1. r.meta = r.base[KeyOf(r)]
        BY Zenon, <3>3 DEF KeyOf
      <4>2. Exclusive => Pinned(x, lock[File[p]])
        BY DEF LockInv
      <4> HIDE DEF x, k, e
      <4> QED
        BY Zenon, <1>2, <3>3, <4>1, <4>2 DEF Pinned
    <3> QED
      BY ZenonT(60), <1>4, <2>1, <3>3, <3>4, <3>5, LocalStep
  <2> QED
    BY <2>2, <2>3
<1>6. CASE ~Hit(k, e)
  <2> DEFINE r == [x EXCEPT !.pc = "release", !.mod = m]
  <2>1. Become(p, r)
    BY <1>1, <1>6 DEF CheckPackage
  <2>2. r \in Run /\ r.base = x.base /\ r.upd = x.upd /\ r.pc = "release"
    BY Zenon, <1>2 DEF Run, PCs
  <2> HIDE DEF r
  <2>3. r.pc \notin Holding
    BY <2>2 DEF Holding, Putting, Reading
  <2> QED
    BY <1>2, <1>4, <2>1, <2>2, <2>3, QuietStep
<1> QED
  BY <1>5, <1>6

\* FetchRelease preserves LockInv.
LEMMA FetchReleaseLock == ASSUME TypeInv, LockInv, NEW p \in Procs, FetchRelease(p) PROVE LockInv'
<1> DEFINE x == run[p]
           g == release[Key(p)]
           meta == [archive |-> g.archive, git |-> None, from |-> None]
           rc == [x EXCEPT !.pc = "clone"]
           mani == g.manifest
           rt == [x EXCEPT !.pc = "tag", !.mani = mani, !.meta = meta]
<1>1. x \in Run /\ x.mod \in Modules /\ x.pc \in Working /\ x.pc \in Resolving
  BY Zenon DEF TypeInv, TypeOK, FetchRelease, RunShape, Working, Resolving
<1>2. g \in Release \cup {None}
  BY <1>1, KeyType
<1>3. UNCHANGED lock /\ served \subseteq served'
  BY DEF FetchRelease, disk
<1>4. "clone" \notin Holding /\ "tag" \notin Holding
  BY Zenon DEF Holding, Putting, Reading
<1>5. CASE Become(p, rc)
  <2>1. rc \in Run /\ rc.base = x.base /\ rc.upd = x.upd /\ rc.pc = "clone"
    BY ZenonT(60), <1>1 DEF Run, PCs
  <2> HIDE DEF rc
  <2> QED
    BY <1>1, <1>3, <1>4, <1>5, <2>1, QuietStep
<1>6. CASE Fail(p, "source")
  BY Zenon, <1>3, <1>6, FailLock
<1>7. CASE g # None /\ g.archive # None /\ g.manifest # None /\ Become(p, rt)
  <2>1. g.archive \in Archives /\ mani \in Archives
    BY <1>2, <1>7 DEF Release
  <2>2. meta \in Metadata
    BY <2>1 DEF Metadata, Contents
  <2>3. Become(p, rt)
    BY <1>7
  <2> HIDE DEF meta, mani
  <2>4. rt \in Run /\ rt.base = x.base /\ rt.upd = x.upd /\ rt.pc = "tag"
    BY ZenonT(60), <1>1, <2>1, <2>2 DEF Run, PCs, Contents
  <2> HIDE DEF rt
  <2> QED
    BY <1>1, <1>3, <1>4, <2>3, <2>4, QuietStep
<1> QED
  BY <1>5, <1>6, <1>7 DEF FetchRelease

\* A fetch result that is kept has the pinned hash and is in the history.
LEMMA FetchedLock ==
  ASSUME TypeInv, LockInv, NEW p \in Procs, run[p].pc \in Working, UNCHANGED lock,
         NEW a \in Archives, NEW m \in Archives, NEW c \in Commits, NEW from \in Origins,
         Fetched(p, a, m, c, from)
  PROVE  LockInv'
<1> DEFINE x == run[p]
           k == Key(p)
           meta == [archive |-> a, git |-> c, from |-> from]
           r == [x EXCEPT !.pc = "open archive", !.meta = meta, !.mani = m]
<1>1. x \in Run /\ x.mod \in Modules /\ x.pc \in Resolving
  BY Zenon DEF TypeInv, TypeOK, RunShape, Resolving
<1>2. meta \in Metadata /\ meta.archive = a
  BY DEF Metadata, LockEntry
<1>3. served \subseteq served' /\ <<k, meta>> \in served'
  BY DEF Fetched
<1>4. CASE Expected(p) = None \/ a = Expected(p).archive
  <2>1. Become(p, r)
    BY Zenon, <1>4 DEF Fetched
  <2>2. Exclusive => Pinned(x, lock[File[p]])
    BY Zenon DEF LockInv
  <2>3. k = KeyOf(x) /\ Expected(p) = x.base[k] /\ Sourced(x, served)
    BY DEF Key, KeyOf, Expected, LockInv
  <2> HIDE DEF meta, x
  <2>4. r \in Run /\ r.base = x.base /\ r.upd = x.upd /\ r.pc = "open archive"
        /\ r.meta = meta /\ r.mod = x.mod /\ r.view = x.view
    BY Zenon, <1>1, <1>2 DEF Run, PCs, Contents
  <2> HIDE DEF r, k
  <2>5. KeyOf(r) = k
    BY ZenonT(60), <2>3, <2>4 DEF KeyOf
  <2>6. Sourced(r, served')
    BY ZenonT(60), <1>3, <2>3, <2>4, <2>5 DEF Sourced
  <2>7. Exclusive => Pinned(r, lock[File[p]])
    BY Zenon, <1>1, <1>2, <1>4, <2>2, <2>3, <2>4, <2>5 DEF Pinned
  <2> QED
    BY Zenon, <1>3, <2>1, <2>4, <2>6, <2>7, LocalStep
<1>5. CASE ~(Expected(p) = None \/ a = Expected(p).archive)
  <2>1. Fail(p, "mismatch")
    BY <1>5 DEF Fetched
  <2> QED
    BY Zenon, <1>3, <2>1, FailLock
<1> QED
  BY Zenon, <1>4, <1>5

\* FetchTag preserves LockInv.
LEMMA FetchTagLock == ASSUME TypeInv, LockInv, NEW p \in Procs, FetchTag(p) PROVE LockInv'
<1>1. run[p].pc \in Working /\ UNCHANGED lock
  BY DEF FetchTag, Working, disk
<1>2. CASE tag[Key(p)] = None
  BY Zenon, <1>1, <1>2, FailLock DEF FetchTag
<1>3. CASE tag[Key(p)] # None
  <2>1. tag[Key(p)] \in Commits
    BY Zenon, <1>1, <1>3, KeyType
  <2>2. run[p].meta.archive \in Archives /\ run[p].mani \in Archives
    BY Zenon DEF TypeInv, RunShape, FetchTag
  <2>3. Fetched(p, run[p].meta.archive, run[p].mani, tag[Key(p)], "github-release")
    BY <1>3 DEF FetchTag
  <2>4. "github-release" \in Origins
    BY DEF Origins
  <2> QED
    BY <1>1, <2>1, <2>2, <2>3, <2>4, FetchedLock
<1> QED
  BY Zenon, <1>2, <1>3

\* Clone preserves LockInv.
LEMMA CloneLock == ASSUME TypeInv, LockInv, NEW p \in Procs, Clone(p) PROVE LockInv'
<1>1. run[p].pc \in Working /\ UNCHANGED lock
  BY DEF Clone, Working, disk
<1>2. CASE tag[Key(p)] = None
  BY Zenon, <1>1, <1>2, FailLock DEF Clone
<1>3. CASE tag[Key(p)] # None
  <2>1. tag[Key(p)] \in Commits
    BY <1>1, <1>3, KeyType
  <2>2. Build[tag[Key(p)]] \in Archives
    BY <2>1, ResolveAssumption
  <2>3. Fetched(p, Build[tag[Key(p)]], Build[tag[Key(p)]], tag[Key(p)], "git-source")
    BY <1>3 DEF Clone
  <2>4. "git-source" \in Origins
    BY DEF Origins
  <2> QED
    BY <1>1, <2>1, <2>2, <2>3, <2>4, FetchedLock
<1> QED
  BY <1>2, <1>3

\* The steps of Cache.Put keep what is being put.
LEMMA HeldMove ==
  ASSUME TypeInv, LockInv, NEW p \in Procs, run[p].pc \in Holding, NEW c \in Holding \cap PCs,
         Become(p, [run[p] EXCEPT !.pc = c]), UNCHANGED <<lock, served>>
  PROVE  LockInv'
<1> DEFINE x == run[p]
           r == [x EXCEPT !.pc = c]
<1>1. x \in Run /\ x.pc \in Resolving
  BY Zenon DEF TypeInv, TypeOK, Holding, Resolving, Working, Putting, Reading
<1>2. r \in Run /\ r.base = x.base /\ r.upd = x.upd /\ r.mod = x.mod /\ r.view = x.view
      /\ r.meta = x.meta
  BY Zenon, <1>1 DEF Run
<1>3. Become(p, r)
  OBVIOUS
<1> HIDE DEF r
<1> QED
  BY <1>1, <1>2, <1>3, QuietStep

\* OpenArchive preserves LockInv.
LEMMA OpenArchiveLock == ASSUME TypeInv, LockInv, NEW p \in Procs, OpenArchive(p) PROVE LockInv'
<1>1. "write archive" \in Holding \cap PCs
  BY DEF Holding, Putting, Reading, PCs
<1> QED
  BY Zenon, <1>1, HeldMove DEF OpenArchive, Holding, Putting, Reading

\* WriteArchive preserves LockInv.
LEMMA WriteArchiveLock == ASSUME TypeInv, LockInv, NEW p \in Procs, WriteArchive(p) PROVE LockInv'
<1>1. "open manifest" \in Holding \cap PCs
  BY DEF Holding, Putting, Reading, PCs
<1> QED
  BY Zenon, <1>1, HeldMove DEF WriteArchive, Holding, Putting, Reading

\* OpenManifest preserves LockInv.
LEMMA OpenManifestLock == ASSUME TypeInv, LockInv, NEW p \in Procs, OpenManifest(p) PROVE LockInv'
<1>1. "write manifest" \in Holding \cap PCs
  BY DEF Holding, Putting, Reading, PCs
<1> QED
  BY Zenon, <1>1, HeldMove DEF OpenManifest, Holding, Putting, Reading

\* WriteManifest preserves LockInv.
LEMMA WriteManifestLock == ASSUME TypeInv, LockInv, NEW p \in Procs, WriteManifest(p) PROVE LockInv'
<1>1. "write info" \in Holding \cap PCs
  BY DEF Holding, Putting, Reading, PCs
<1> QED
  BY Zenon, <1>1, HeldMove DEF WriteManifest, Holding, Putting, Reading

\* WriteInfo preserves LockInv.
LEMMA WriteInfoLock == ASSUME TypeInv, LockInv, NEW p \in Procs, WriteInfo(p) PROVE LockInv'
<1> DEFINE x == run[p]
           r == [x EXCEPT !.pc = "read manifest", !.mani = None]
<1>1. x \in Run /\ x.pc \in Resolving /\ x.pc \in Holding
  BY Zenon DEF TypeInv, TypeOK, WriteInfo, Holding, Resolving, Working, Putting, Reading
<1>2. r \in Run /\ r.base = x.base /\ r.upd = x.upd /\ r.mod = x.mod /\ r.view = x.view
      /\ r.meta = x.meta
  BY ZenonT(60), <1>1 DEF Run, PCs
<1>3. Become(p, r) /\ UNCHANGED <<lock, served>>
  BY Zenon DEF WriteInfo
<1> HIDE DEF r
<1> QED
  BY <1>1, <1>2, <1>3, QuietStep

\* ReadManifest preserves LockInv.
LEMMA ReadManifestLock == ASSUME TypeInv, LockInv, NEW p \in Procs, ReadManifest(p) PROVE LockInv'
<1> DEFINE x == run[p]
           m == cache[Key(p)].manifest
           r == [x EXCEPT !.pc = "read archive", !.mani = m]
<1>1. x \in Run /\ x.pc \in Working /\ x.mod \in Modules /\ x.pc \in Resolving /\ x.pc \in Holding
  BY ZenonT(60) DEF TypeInv, TypeOK, ReadManifest, RunShape, Holding, Resolving, Reading, Working
<1>2. m \in Contents \cup {None}
  BY <1>1, KeyType DEF Entry
<1>3. Become(p, r) /\ UNCHANGED <<lock, served>>
  BY Zenon DEF ReadManifest, disk
<1> HIDE DEF m
<1>4. r \in Run /\ r.base = x.base /\ r.upd = x.upd /\ r.mod = x.mod /\ r.view = x.view
      /\ r.meta = x.meta
  BY ZenonT(60), <1>1, <1>2 DEF Run, PCs
<1> HIDE DEF r
<1> QED
  BY <1>1, <1>3, <1>4, QuietStep

\* The metadata in hand becomes the updated entry.
LEMMA ReadArchiveLock == ASSUME TypeInv, LockInv, NEW p \in Procs, ReadArchive(p) PROVE LockInv'
<1> DEFINE x == run[p]
           k == Key(p)
           m == x.mod
           a == cache[k].archive
           e == x.meta
           todo == x.todo \ {m}
           loaded == [x.loaded EXCEPT ![m] = a]
           upd == [x.upd EXCEPT ![k] = e]
           r == [x EXCEPT !.pc = "next", !.todo = todo, !.loaded = loaded, !.upd = upd,
                          !.mod = None, !.hit = FALSE, !.meta = None, !.mani = None]
<1>1. x \in Run /\ x.pc \in Working /\ m \in Modules /\ e \in Metadata /\ e # None
      /\ x.pc \in Resolving /\ x.pc \in Holding
  BY ZenonT(60) DEF TypeInv, TypeOK, ReadArchive, RunShape, Reading, Working, Run, Resolving, Holding
<1>2. k \in Pkgs /\ k = KeyOf(x)
  BY <1>1, KeyType DEF Key, KeyOf
<1>3. UNCHANGED <<lock, served>>
  BY ZenonT(60) DEF ReadArchive, disk
<1>4. CASE Intact(x.mani, a)
  <2>1. Become(p, r)
    BY ZenonT(60), <1>1, <1>4 DEF ReadArchive, Run
  <2>2. a \in Archives
    BY <1>4 DEF Intact
  <2>3. Sourced(x, served) /\ (Exclusive => Pinned(x, lock[File[p]]))
    BY DEF LockInv
  <2> HIDE DEF x, k, m, a
  <2>4. todo \in SUBSET Modules /\ loaded \in [Modules -> Archives \cup {None}] /\ upd \in Lock
    BY Zenon, <1>1, <1>2, <2>2 DEF Run, Lock
  <2>5. upd[k] = e /\ \A j \in Pkgs \ {k} : upd[j] = x.upd[j]
    BY Zenon, <1>1, <1>2 DEF Run, Lock
  <2> HIDE DEF todo, loaded, upd
  <2>6. r \in Run /\ r.pc = "next" /\ r.base = x.base /\ r.upd = upd
    BY ZenonT(60), <1>1, <2>4 DEF Run, PCs
  <2> HIDE DEF r
  <2>7. r.pc \notin Holding
    BY <2>6 DEF Holding, Putting, Reading
  <2>8. Sourced(r, served')
    BY Zenon, <1>1, <1>2, <1>3, <2>3, <2>5, <2>6, <2>7 DEF Sourced
  <2>9. Exclusive => Pinned(r, lock[File[p]])
    BY <1>1, <1>2, <2>3, <2>5, <2>6, <2>7 DEF Pinned
  <2> QED
    BY <1>3, <2>1, <2>6, <2>8, <2>9, LocalStep
<1>5. CASE ~Intact(x.mani, a)
  <2>1. PICK w \in {"hit load", "load"} : Fail(p, w)
    BY Zenon, <1>5 DEF ReadArchive
  <2> QED
    BY Zenon, <1>3, <2>1, FailLock
<1> QED
  BY <1>4, <1>5

\* The one step that writes a lockfile.
LEMMA CommitLock == ASSUME TypeInv, LockInv, NEW p \in Procs, Commit(p) PROVE LockInv'
<1> DEFINE x == run[p]
           r == [x EXCEPT !.pc = "done"]
<1>1. x \in Run /\ UNCHANGED served /\ Sourced(x, served)
  BY DEF TypeInv, TypeOK, Commit, LockInv
<1>2. CASE \A k \in Pkgs : x.upd[k] # None => Valid(x.upd[k])
  <2>1. Become(p, r) /\ lock' = [lock EXCEPT ![File[p]] = x.upd]
    BY <1>2 DEF Commit
  <2>2. /\ lock'[File[p]] = x.upd
        /\ \A t \in Toolsets \ {File[p]} : lock'[t] = lock[t]
    BY <2>1, ResolveAssumption DEF TypeInv, TypeOK
  <2>3. r \in Run /\ r.base = x.base /\ r.upd = x.upd /\ r.pc = "done"
    BY ZenonT(60), <1>1 DEF Run, PCs
  <2> HIDE DEF r
  <2>4. run'[p] = r /\ \A q \in Procs \ {p} : run'[q] = run[q]
    BY <2>1, <2>3, BecomeRun DEF TypeInv, TypeOK
  <2>5. r.pc \notin Holding /\ r.pc \notin Resolving
    BY Zenon, <2>3 DEF Holding, Putting, Reading, Resolving, Working
  <2>6. LockProvenance'
    BY ZenonT(60), <1>1, <1>2, <2>2 DEF LockInv, LockProvenance, Sourced
  <2>7. ASSUME NEW q \in Procs PROVE Sourced(run'[q], served')
    <3>1. Sourced(r, served')
      BY Zenon, <1>1, <2>3, <2>5 DEF Sourced
    <3> QED
      BY Zenon, <1>1, <2>4, <3>1 DEF LockInv
  <2>8. ASSUME Exclusive, NEW q \in Procs PROVE Pinned(run'[q], lock'[File[q]])
    <3>1. CASE q = p
      <4>1. Pinned(x, lock[File[p]])
        BY Zenon, <2>8 DEF LockInv
      <4>2. Pinned(r, lock'[File[p]])
        BY <2>3, <2>5, <4>1 DEF Pinned
      <4> QED
        BY <2>4, <3>1, <4>2
    <3>2. CASE q # p
      <4>1. lock'[File[q]] = lock[File[q]]
        BY <2>2, <2>8, <3>2, ResolveAssumption DEF Exclusive
      <4> QED
        BY Zenon, <2>4, <2>8, <3>2, <4>1 DEF LockInv
    <3> QED
      BY <3>1, <3>2
  <2> QED
    BY <2>6, <2>7, <2>8 DEF LockInv, Exclusive
<1>3. CASE ~ \A k \in Pkgs : x.upd[k] # None => Valid(x.upd[k])
  BY ZenonT(60), <1>1, <1>3, FailLock DEF Commit
<1> QED
  BY <1>2, <1>3

\* A step that leaves the locks, the runs and what was served alone preserves LockInv.
LEMMA OtherLock ==
  ASSUME LockInv, UNCHANGED <<lock, run, served>>
  PROVE  LockInv'
BY DEF LockInv, LockProvenance, Exclusive

\* Every step preserves LockInv.
LEMMA LockNext == TypeInv /\ LockInv /\ [Next]_vars => LockInv'
<1> SUFFICES ASSUME TypeInv, LockInv, [Next]_vars PROVE LockInv'
  OBVIOUS
<1>1. ASSUME NEW p \in Procs, Step(p) PROVE LockInv'
  BY <1>1, UpgradeLock, LoadLockLock, AddFromDirLock, CheckCacheLock, FetchReleaseLock,
     FetchTagLock, CloneLock, OpenArchiveLock, WriteArchiveLock, OpenManifestLock,
     WriteManifestLock, WriteInfoLock, ReadManifestLock, ReadArchiveLock, CommitLock
     DEF Step, Fetch, Put, Load
<1>2. ASSUME NEW p \in Procs, Abort(p) PROVE LockInv'
  BY Zenon, <1>2, FailLock DEF Abort, disk
<1>3. CASE World
  BY <1>3, OtherLock DEF World, EditRelease, MoveTag, EditOverlay, disk
<1>4. CASE UNCHANGED vars
  BY <1>4, OtherLock DEF vars
<1> QED
  BY <1>1, <1>2, <1>3, <1>4, StartLock DEF Next

\* Provenance (ToolsetFile.Resolve, ResolveWithExpected): an entry that a lockfile
\* ever holds was there from the start, or is the hash, commit and origin that
\* one fetch of this very package returned together.
THEOREM ProvenanceHolds == Spec => []LockProvenance
<1>1. LockInv => LockProvenance
  BY DEF LockInv
<1> QED
  BY <1>1, TypeInit, TypeNext, LockInit, LockNext, PTL DEF Spec

\* Only Commit writes a lockfile.
LEMMA OnlyCommitLocks ==
  ASSUME [Next]_vars, lock' # lock
  PROVE  \E p \in Procs : Commit(p) /\ lock' = [lock EXCEPT ![File[p]] = run[p].upd]
BY ZenonT(60) DEF Next, Start, Step, Upgrade, LoadLock, AddFromDir, CheckCache, Fetch, FetchRelease,
       FetchTag, Clone, Put, OpenArchive, WriteArchive, OpenManifest, WriteManifest,
       WriteInfo, Load, ReadManifest, ReadArchive, Commit, Abort, World, EditRelease,
       MoveTag, EditOverlay, disk, vars

\* The locks a command finds are initial states of LockPins.
LEMMA PinsInit == ASSUME TypeInv PROVE Pins!Init
BY DEF TypeInv, TypeOK, Pins!Init, Pins!Tables, PinsOf, LockEntry

\* Without shared toolset files, every step is a step of LockPins or leaves the pins alone.
LEMMA PinsNext ==
  ASSUME TypeInv, TypeInv', LockInv, Exclusive, [Next]_vars
  PROVE  [Pins!Next]_(PinsOf(lock))
<1>1. CASE lock' = lock
  BY <1>1 DEF PinsOf
<1>2. CASE lock' # lock
  <2>1. PICK p \in Procs : Commit(p) /\ lock' = [lock EXCEPT ![File[p]] = run[p].upd]
    BY Zenon, <1>2, OnlyCommitLocks
  <2> DEFINE t == File[p]
             new == PinsOf(lock')[t]
  <2>2. t \in Toolsets /\ lock'[t] = run[p].upd /\ \A u \in Toolsets \ {t} : lock'[u] = lock[u]
    <3>1. lock \in [Toolsets -> [Pkgs -> LockEntry \cup {None}]]
      BY Zenon DEF TypeInv, TypeOK
    <3>2. t \in Toolsets
      BY Zenon, ResolveAssumption
    <3> QED
      BY Zenon, <2>1, <3>1, <3>2
  <2>3. new \in Pins!Tables
    <3>1. lock' \in [Toolsets -> [Pkgs -> LockEntry \cup {None}]]
      BY Zenon DEF TypeInv, TypeOK
    <3> QED
      BY <2>2, <3>1 DEF Pins!Tables, PinsOf, LockEntry
  <2>4. \A k \in Pkgs : lock[t][k] # None =>
          run[p].upd[k] # None /\ run[p].upd[k].archive = lock[t][k].archive
    <3>1. run[p].pc \in Resolving
      BY <2>1 DEF Commit, Resolving
    <3>2. Pinned(run[p], lock[t])
      BY Zenon DEF LockInv
    <3> QED
      BY <3>1, <3>2 DEF Pinned
  <2>5. Pins!Extends(new, PinsOf(lock)[t])
    BY <2>2, <2>4 DEF Pins!Extends, PinsOf
  <2>6. PinsOf(lock') = [PinsOf(lock) EXCEPT ![t] = new]
    BY ZenonT(60), <2>2 DEF PinsOf
  <2>7. Pins!Pin(t)
    BY Zenon, <2>3, <2>5, <2>6 DEF Pins!Pin, PinsOf
  <2> QED
    BY <2>2, <2>7 DEF Pins!Next
<1> QED
  BY <1>1, <1>2

\* The lockfiles implement LockPins when every toolset file has one process: a
\* pinned hash never changes and never goes away, whatever the cache holds, the
\* sources serve and the overlay replaces, and wherever a run is cut short.
THEOREM PinsImplemented == Exclusive => (Spec => LockImplementsPins)
<1> SUFFICES ASSUME Exclusive PROVE Spec => LockImplementsPins
  OBVIOUS
<1>1. TypeInv => Pins!Init
  BY PinsInit
<1>2. TypeInv /\ TypeInv' /\ LockInv /\ [Next]_vars => [Pins!Next]_(PinsOf(lock))
  BY PinsNext
<1> QED
  BY <1>1, <1>2, TypeInit, TypeNext, LockInit, LockNext, PTL
     DEF Spec, LockImplementsPins, Pins!Spec

=============================================================================
